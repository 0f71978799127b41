-------------------------------- MODULE Queues --------------------------------
(***************************************************************************)
(* The three backends of the trait MessageQueue, under the processes that  *)
(* use them: callers, which send a message and wait for its answer, and    *)
(* servers, which receive, answer and acknowledge in a loop.  A process    *)
(* has one ask; in NATS and AMQP its consumer is named after that ask and  *)
(* made by its first receive.                                              *)
(*                                                                         *)
(* The consumers differ.  One of NATS starts at the beginning of the       *)
(* stream and gets a message again until it is acknowledged.  One of AMQP  *)
(* is an exclusive queue that dies with its connection, and a message for  *)
(* which no queue is bound is gone.  In memory a receive takes the message *)
(* out of the one store.                                                   *)
(***************************************************************************)
EXTENDS Subjects, FiniteSets

CONSTANTS Plans,    \* bound: backend, calls, servers and notices of a behaviour
          MaxFaults \* bound: crashes, failed sends and acknowledgements, lost consumers

VARIABLES plan,   \* the one that is followed
          sent,   \* the keys of the messages, in the order of the sends
          first,  \* NATS: the oldest message of the stream
          kept,   \* in memory: the messages that were not received
          queues, \* the consumer of each ask: open, not yet delivered, not acknowledged
          procs,  \* what the process of each ask does, with which message
          settled, \* what it acknowledged, for as long as the server remembers it
          lost,   \* whom which message cannot reach any more
          faults

queuesVars == <<plan, sent, first, kept, queues, procs, settled, lost, faults>>

-----------------------------------------------------------------------------
(* Calls and servers. *)

\* The answer to a message, and what its sender waits for.
ReplyKind == [request |-> "response", svc_request |-> "svc_response", invoke |-> "complete"]
Answered(key) == key.kind \in DOMAIN ReplyKind
Reply(key) == [kind |-> ReplyKind[key.kind],
               names |-> IF key.kind = "invoke"
                         THEN Restrict(key.names, FieldsOf(CompleteFormat)) ELSE key.names]
Awaits(key) ==
    CASE key.kind = "request" -> ResponseTo(key)
      [] key.kind = "svc_request" -> SvcResponseTo(key)
      [] key.kind = "invoke" ->
             CompleteOf(key.names.submission, key.names.harness, key.names.agent)

\* The tasks of the workers: one for each operation of a service.
TasksOf(service, backend, operations) ==
    {Requests(<<service>>, <<backend>>, <<o>>) : o \in operations}
KvTasks == TasksOf("kv", "sqlite", {"get", "put", "list", "delete"})
VecTasks == TasksOf("vec", "sqlite-vec", {"store", "search", "delete"})
OllamaTasks == TasksOf("infer", "ollama", {"run", "chat", "generate"})
                   \cup TasksOf("embed", "ollama", {"run"})
OpenRouterTasks == TasksOf("infer", "openrouter", {"run", "chat", "generate"})

AllCalls == UNION {p.calls : p \in Plans}
AsksOf(p) == {Awaits(key) : key \in p.calls} \cup p.servers
AllAsks == UNION {AsksOf(p) : p \in Plans}
Callers == {Awaits(key) : key \in plan.calls}
Servers == plan.servers
CallOf(a) == CHOOSE key \in plan.calls : Awaits(key) = a

\* The sidecar, the MCP worker and the infra worker acknowledge before they begin.
AcksFirst(a) == a.kind \in {"invoke", "svc_request", "deploy", "delete"}

\* AMQP has no service messages of the harness, and memory no messages of the other planes.
Offers(backend, kind) ==
    kind \in CASE backend = "nats" -> (DOMAIN NatsFormats \ {"fork", "promote"}) \cup {"any"}
               [] backend = "amqp" -> DOMAIN AmqpFormats \cup {"any"}
               [] backend = "memory" -> DOMAIN MemoryLooksAt
Sends(backend, kind) == backend # "amqp" \/ kind \in DOMAIN AmqpFormats

\* What the workers ask for, the sidecar of an agent, the MCP worker, the infra worker and the
\* observer; nobody asks for forks and promotes yet.
IsServer(a) ==
    \/ a \in KvTasks \cup VecTasks \cup OllamaTasks \cup OpenRouterTasks
    \/ a.kind = "invoke" /\ a = Invokes(a.names.agent) /\ IsName("agent", a.names.agent)
    \/ a \in {McpRequests, Deploys, Deletes, Everything, Forks, Promotes}

\* What is called is a service, a tool or an agent.  A run mints its submission and is of one
\* agent under one harness; tools are always behind MCP.
IsCall(key) == IsKey(key) /\ Answered(key)
               /\ (key.kind = "svc_request" => key.names.service = <<"mcp">>)
OneRun(key, other) ==
    key.names.submission = other.names.submission =>
        /\ key.names.agent = other.names.agent
        /\ key.kind = "invoke" /\ other.kind = "invoke" => key.names.harness = other.names.harness
IsNotice(key) == IsKey(key) /\ key.kind \in {"fork", "promote", "deploy", "delete"}

ASSUME QueuesConstants ==
    /\ MaxFaults \in Nat
    /\ \A p \in Plans : /\ p.backend \in {"nats", "amqp", "memory"}
                        /\ \A key \in p.calls : IsCall(key) /\ \A other \in p.calls : OneRun(key, other)
                        /\ \A a \in p.servers : IsServer(a) /\ Offers(p.backend, a.kind)
                        /\ \A key \in p.notices : IsNotice(key)

Idle == [at |-> "off", message |-> 0, key |-> Unparsed]
Closed == [open |-> FALSE, todo |-> {}, owed |-> {}]
Broker == plan.backend # "memory"
Wants(a, key) == Sends(plan.backend, a.kind) /\ Selects(plan.backend, a, key)
Asks == DOMAIN procs

QueuesInit == /\ plan \in Plans
              /\ sent = <<>> /\ first = 1 /\ kept = {}
              /\ queues = [a \in AsksOf(plan) |-> Closed]
              /\ procs = [a \in AsksOf(plan) |-> Idle]
              /\ settled = [a \in AsksOf(plan) |-> {}]
              /\ lost = {} /\ faults = 0

Fault == faults < MaxFaults /\ faults' = faults + 1

-----------------------------------------------------------------------------
(* Sending. *)

\* The message goes to every consumer that exists and whose filter selects it.
Enqueue(key, i) ==
    queues' = [a \in Asks |->
        IF queues[a].open /\ Wants(a, key)
        THEN [queues[a] EXCEPT !.todo = @ \cup {i}] ELSE queues[a]]

NatsPut(key) == /\ plan.backend = "nats"
                /\ Enqueue(key, Len(sent) + 1)
                /\ UNCHANGED <<kept, lost>>

AmqpPut(key) == /\ plan.backend = "amqp"
                /\ Enqueue(key, Len(sent) + 1)
                /\ lost' = lost \cup {<<a, key>> : a \in
                               {b \in Asks : ~queues[b].open /\ Wants(b, key)}}
                /\ UNCHANGED kept

\* Forks, promotes and agents' deploys and deletes are dropped.
MemoryPut(key) == /\ plan.backend = "memory"
                  /\ kept' = IF key.kind \in DOMAIN MemoryLooksAt
                             THEN kept \cup {Len(sent) + 1} ELSE kept
                  /\ UNCHANGED <<queues, lost>>

Put(key) == /\ sent' = Append(sent, key)
            /\ NatsPut(key) \/ AmqpPut(key) \/ MemoryPut(key)

\* A message that nobody waits for: a fork, a promote, a deploy, a delete.
Notify(key) == /\ key \in plan.notices \ ToSet(sent)
               /\ Put(key)
               /\ UNCHANGED <<plan, first, procs, settled, faults>>

\* call_service, run_turn and the calls of tools: the message is sent before the receive.
Call(a) == /\ a \in Callers /\ procs[a].at = "off"
           /\ Sends(plan.backend, CallOf(a).kind)
           /\ Put(CallOf(a))
           /\ procs' = [procs EXCEPT ![a].at = "ready"]
           /\ UNCHANGED <<plan, first, settled, faults>>

\* A send that fails ends the call; the server may have the message all the same.
CallFails(a) ==
    /\ a \in Callers /\ procs[a].at = "off"
    /\ IF Sends(plan.backend, CallOf(a).kind)
       THEN /\ Broker /\ Fault
            /\ \/ Put(CallOf(a))
               \/ UNCHANGED <<sent, kept, queues, lost>>
       ELSE UNCHANGED <<sent, kept, queues, lost, faults>>
    /\ procs' = [procs EXCEPT ![a].at = "done"]
    /\ UNCHANGED <<plan, first, settled>>

-----------------------------------------------------------------------------
(* Receiving. *)

\* Mutant: a consumer of NATS starts at what is published from now on.
DeclareAtEnd(a) == /\ Broker /\ procs[a].at = "ready" /\ ~queues[a].open
                   /\ queues' = [queues EXCEPT ![a].open = TRUE]
                   /\ UNCHANGED <<plan, sent, first, kept, procs, settled, lost, faults>>

\* get_or_create_consumer.
InStream(a) == {i \in first..Len(sent) : Wants(a, sent[i])}
NatsConsumer(a) == [open |-> TRUE, todo |-> InStream(a), owed |-> {}]
AmqpQueue == [open |-> TRUE, todo |-> {}, owed |-> {}]
Declare(a) ==
    /\ Broker /\ procs[a].at = "ready" /\ ~queues[a].open
    /\ queues' = [queues EXCEPT ![a] =
           IF plan.backend = "nats" THEN NatsConsumer(a) ELSE AmqpQueue]
    /\ UNCHANGED <<plan, sent, first, kept, procs, settled, lost, faults>>

\* The receiver is told the key that the subject spells; the observer gets the subject.  A
\* subject that is no key is an error: a caller returns it, a server tries the next message.
Told(a, i) ==
    IF a.kind = "any" \/ plan.backend = "memory" THEN sent[i]
    ELSE Parse(plan.backend, a.kind, Subject(plan.backend, sent[i]))
Hand(a, i) ==
    procs' = [procs EXCEPT ![a] =
        IF Told(a, i) # Unparsed THEN [at |-> "busy", message |-> i, key |-> Told(a, i)]
        ELSE IF a \in Callers THEN [@ EXCEPT !.at = "done"] ELSE @]

\* A consumer delivers in the order of the sends.
Oldest(i, messages) == i \in messages /\ \A j \in messages : i <= j
Deliver(a, i) ==
    queues' = [queues EXCEPT ![a].todo = @ \ {i}, ![a].owed = @ \cup {i}]

Fetch(a, i) ==
    /\ Broker /\ procs[a].at = "ready" /\ Oldest(i, queues[a].todo)
    /\ Hand(a, i) /\ Deliver(a, i)
    /\ UNCHANGED <<plan, sent, first, kept, settled, lost, faults>>

\* ack_wait of NATS has passed.
FetchAgain(a, i) ==
    /\ plan.backend = "nats" /\ procs[a].at = "ready" /\ i \in queues[a].owed
    /\ Hand(a, i)
    /\ UNCHANGED <<plan, sent, first, kept, queues, settled, lost, faults>>

\* The server has delivered, but select! took another branch and dropped the fetch.
FetchDropped(a, i) ==
    /\ plan.backend = "nats" /\ a \in Servers /\ procs[a].at = "ready"
    /\ Oldest(i, queues[a].todo) /\ Fault
    /\ Deliver(a, i)
    /\ UNCHANGED <<plan, sent, first, kept, procs, settled, lost>>

\* In memory: the oldest message of any key that is looked for.
TakeKept(a, i) ==
    /\ ~Broker /\ procs[a].at = "ready" /\ i \in kept /\ Wants(a, sent[i])
    /\ \A j \in kept : sent[j] = sent[i] => i <= j
    /\ kept' = kept \ {i}
    /\ Hand(a, i)
    /\ UNCHANGED <<plan, sent, first, queues, settled, lost, faults>>

\* receive_svc_response is called once, and the tool's result then says that it timed out.
\* Other callers try again after a timeout; an error ends any call.
GivesUp(a) == /\ a \in Callers /\ procs[a].at = "ready"
              /\ procs' = [procs EXCEPT ![a].at = "done"]
              /\ UNCHANGED <<plan, sent, first, kept, queues, settled, lost>>
TimesOut(a) == a.kind = "svc_response" /\ GivesUp(a) /\ UNCHANGED faults
ReceiveFails(a) == Broker /\ GivesUp(a) /\ Fault

-----------------------------------------------------------------------------
(* Answering and acknowledging. *)

After(a, at) == IF at = "ready" THEN [Idle EXCEPT !.at = at] ELSE [procs[a] EXCEPT !.at = at]

MustAnswer(a) == /\ a \in Servers /\ Answered(procs[a].key)
                 /\ procs[a].at = IF AcksFirst(a) THEN "acked" ELSE "busy"
Respond(a) ==
    /\ MustAnswer(a)
    /\ Put(Reply(procs[a].key))
    /\ procs' = [procs EXCEPT ![a] = After(a, IF AcksFirst(a) THEN "ready" ELSE "replied")]
    /\ UNCHANGED <<plan, first, settled, faults>>

\* Whom an answer that is not sent would have reached.
Missed(key) == {<<c, Reply(key)>> : c \in {b \in Callers : Wants(b, Reply(key))}}

\* A send of the answer that fails ends the MCP worker; elsewhere it is passed over, and the
\* request is acknowledged all the same.
RespondFails(a) ==
    /\ MustAnswer(a) /\ Broker /\ Fault
    /\ lost' = lost \cup Missed(procs[a].key)
    /\ procs' = [procs EXCEPT ![a] = IF a.kind = "svc_request" THEN Idle
                                     ELSE After(a, IF AcksFirst(a) THEN "ready" ELSE "replied")]
    /\ UNCHANGED <<plan, sent, first, kept, queues, settled>>

\* Whether a process acknowledges now, and what it does next.
AtAck(a) == \/ procs[a].at = "replied"
            \/ procs[a].at = "busy"
                   /\ (a \in Callers \/ AcksFirst(a) \/ ~Answered(procs[a].key))
AfterAck(a) == IF a \in Callers THEN "done"
               ELSE IF AcksFirst(a) /\ Answered(procs[a].key) THEN "acked" ELSE "ready"

\* The acknowledgement; its error is ignored.  The server ignores one for a consumer that
\* is gone; in memory there is none.
Ack(a) ==
    /\ AtAck(a)
    /\ LET i == procs[a].message IN
       \/ /\ settled' = [settled EXCEPT ![a] =
                  IF i \in queues[a].owed \/ ~Broker THEN @ \cup {i} ELSE @]
          /\ queues' = [queues EXCEPT ![a].owed = @ \ {i}]
          /\ UNCHANGED faults
       \/ Broker /\ Fault /\ UNCHANGED <<settled, queues>>
    /\ procs' = [procs EXCEPT ![a] = IF AfterAck(a) = "done" THEN [Idle EXCEPT !.at = "done"]
                                     ELSE After(a, AfterAck(a))]
    /\ UNCHANGED <<plan, sent, first, kept, lost>>

-----------------------------------------------------------------------------
(* Servers come and go; the broker loses consumers and messages. *)

Start(a) == /\ a \in Servers /\ procs[a].at = "off"
            /\ procs' = [procs EXCEPT ![a].at = "ready"]
            /\ UNCHANGED <<plan, sent, first, kept, queues, settled, lost, faults>>

\* A crash closes the connection; with AMQP the queue goes with it.  What was acknowledged
\* and not yet answered is never answered.
Crash(a) ==
    /\ Broker /\ a \in Servers /\ procs[a].at # "off" /\ Fault
    /\ procs' = [procs EXCEPT ![a] = Idle]
    /\ queues' = IF plan.backend = "amqp" THEN [queues EXCEPT ![a] = Closed] ELSE queues
    /\ lost' = lost
           \cup (IF plan.backend = "amqp"
                 THEN {<<a, sent[i]>> : i \in queues[a].todo \cup queues[a].owed} ELSE {})
           \cup (IF procs[a].at = "acked" THEN Missed(procs[a].key) ELSE {})
    /\ UNCHANGED <<plan, sent, first, kept, settled>>

\* inactive_threshold: five minutes without a fetch.  The next receive makes it again.
Expire(a) ==
    /\ plan.backend = "nats" /\ queues[a].open /\ procs[a].at # "ready" /\ Fault
    /\ queues' = [queues EXCEPT ![a] = Closed]
    /\ settled' = [settled EXCEPT ![a] = {}]
    /\ UNCHANGED <<plan, sent, first, kept, procs, lost>>

\* Mutant: a consumer goes on with what the stream has discarded.
DiscardBehindConsumers ==
    /\ plan.backend = "nats" /\ first <= Len(sent) /\ Fault
    /\ first' = first + 1
    /\ UNCHANGED <<plan, sent, kept, queues, procs, settled, lost>>

\* max_age and max_bytes: the stream discards its oldest message.
Discard ==
    /\ plan.backend = "nats" /\ first <= Len(sent) /\ Fault
    /\ first' = first + 1
    /\ queues' = [a \in Asks |-> [queues[a] EXCEPT !.todo = @ \ {first}, !.owed = @ \ {first}]]
    /\ lost' = lost \cup {<<a, sent[first]>> :
                   a \in {b \in Asks : Wants(b, sent[first])
                                       /\ first \notin settled[b]}}
    /\ UNCHANGED <<plan, sent, kept, procs, settled>>

Process(a) == \/ Call(a) \/ CallFails(a) \/ Declare(a)
              \/ \E i \in DOMAIN sent : Fetch(a, i) \/ FetchDropped(a, i)
                                         \/ FetchAgain(a, i) \/ TakeKept(a, i)
              \/ TimesOut(a) \/ ReceiveFails(a) \/ Respond(a) \/ RespondFails(a) \/ Ack(a)
              \/ Start(a) \/ Crash(a) \/ Expire(a)
QueuesNext == \/ \E a \in Asks : Process(a)
              \/ \E key \in plan.notices : Notify(key)
              \/ Discard

\* The tasks go on, a crashed worker is started again, a receive times out, and NATS
\* delivers again what was not acknowledged.  That some task goes on is enough, as each has
\* a bounded number of messages.
Proceeds(a) == \/ Start(a) \/ TimesOut(a) \/ Declare(a) \/ Respond(a) \/ Ack(a)
               \/ \E i \in DOMAIN sent : Fetch(a, i) \/ FetchAgain(a, i) \/ TakeKept(a, i)
Fairness == WF_queuesVars(\E a \in Asks : Proceeds(a))

QueuesSpec == QueuesInit /\ [][QueuesNext]_queuesVars /\ Fairness

-----------------------------------------------------------------------------
(* Properties. *)

\* A consumer that exists has what it owes from what was sent, and nothing twice; a process
\* that holds a message of a broker has a key.
QueuesTypeOK ==
    /\ plan \in Plans /\ faults \in 0..MaxFaults
    /\ first \in 1..(Len(sent) + 1) /\ kept \subseteq DOMAIN sent
    /\ \A a \in Asks :
           /\ queues[a].todo \cup queues[a].owed \subseteq first..Len(sent)
           /\ queues[a].todo \cap (queues[a].owed \cup settled[a]) = {}
           /\ procs[a].at \in {"off", "ready", "busy", "replied", "acked", "done"}
           /\ (procs[a].key = Unparsed) = (procs[a].at \in {"off", "ready", "done"})

Given(process) == [message |-> process.message, key |-> process.key]

\* What the trait promises: every receive hands out a message that was sent for what was
\* asked, under the key of its sender, and not after it was acknowledged.
IsQueue == INSTANCE MessageQueue WITH
    Receivers <- AllAsks, Ask <- [a \in AllAsks |-> a],
    given <- [a \in AllAsks |-> Given(IF a \in Asks THEN procs[a] ELSE Idle)],
    settled <- [a \in AllAsks |-> IF a \in Asks THEN settled[a] ELSE {}]
KeepsPromise == IsQueue!Spec

\* send_and_wait: a call returns, whatever crashes, repetitions and lost consumers come
\* between, unless the broker lost the request or the answer, the server gave up or stopped
\* between its acknowledgement and its answer, or a name with a dot makes the subject
\* unreadable.
Simple(key) == \A f \in DOMAIN key.names : Len(key.names[f]) = 1
Reaches(key) == \A l \in lost : l[1].kind = "any" \/ l[2] \notin {key, Reply(key)}
Waiting(key) == procs[Awaits(key)].at \in {"ready", "busy"}
CallsReturn == <>[](\A key \in plan.calls : Waiting(key) /\ Simple(key) => ~Reaches(key))
=============================================================================
