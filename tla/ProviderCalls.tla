---------------------------- MODULE ProviderCalls ----------------------------
(***************************************************************************)
(* The turns of one agent behind its sidecar: each invoke resets the       *)
(* registers of the InvokeHandler, the agent calls its key-value store     *)
(* through the provider server, and the complete takes what the registers  *)
(* hold by then.  The store's worker keeps a table of current values next  *)
(* to content-addressed values, snapshots and state commits (ADR 055).     *)
(*                                                                         *)
(* The registers are written one by one, and nothing ties a call to the    *)
(* turn it began in; requests are delivered again if the worker stops      *)
(* before it has acknowledged them.                                        *)
(***************************************************************************)
EXTENDS Naturals, Sequences, FiniteSets

CONSTANTS Sessions, Paths, Values,
          Absent,      \* no value under a path
          NoState,     \* Option::None
          MaxTurns,    \* bound: invokes
          MaxCalls,    \* bound: calls to the store
          MaxOpen,     \* bound: calls open at once
          MaxFaults    \* bound: crashes and failed receives

ASSUME ProviderConstants == /\ Absent \notin Values
                            /\ NoState \notin Seq([Paths -> Values \cup {Absent}])
                            /\ MaxTurns \in Nat /\ MaxCalls \in Nat
                            /\ MaxOpen \in Nat /\ MaxFaults \in Nat

VARIABLES turns,    \* the invokes so far; apart: no call is open at its
          \* start or end; orderly: and its calls run one by one
          dispatch, \* what the sidecar is doing, and for which turn
          head,     \* InvokeHandler.chain_head
          routing,  \* InvokeHandler.routing: the turn whose session and submission it holds
          register, \* InvokeHandler.state
          calls,    \* forward_provider, one per call of the agent
          dag,      \* recorded nodes of these turns; 0 stands for the root
          requests, \* calls whose request the store's worker has not acknowledged
          replies,  \* responses in the queue
          worker,   \* the worker's task for each operation
          store,    \* for each session: objects.db and state.db
          faults

vars == <<turns, dispatch, head, routing, register, calls, dag, requests, replies, worker,
          store, faults>>
registers == <<head, routing, register>>

Ops == {"get", "put", "list", "delete"}
Top == "/" \* the directory that a list is asked for, which all paths are under
View == [Paths -> Values \cup {Absent}]
Empty == [p \in Paths |-> Absent]

\* A state commit is the hash of its snapshot and of its parent commit: the sequence of
\* the snapshots that lead to it.  The root state is the empty string.
Root == <<>>
State == Seq(View)
Known(s, state) == state = Root \/ state \in store[s].commits
ViewOf(state) == IF state = Root THEN Empty ELSE state[Len(state)]

Node == [type : {"invoke", "request", "response", "complete"}, parent : Nat, turn : Nat,
         state : State \cup {NoState}]
AddNode(type, parent, t, state) ==
    dag' = Append(dag, [type |-> type, parent |-> parent, turn |-> t, state |-> state])

Open == {c \in DOMAIN calls : calls[c].at \in {"routed", "sent", "headed"}}
SessionOf(c) == turns[calls[c].key].session

-----------------------------------------------------------------------------
(* The sidecar: dispatch_one_invoke *)

Resting == [at |-> "idle", turn |-> 0, state |-> NoState]

\* The invoke is acknowledged, and lost if the sidecar stops from here on.  Its state is
\* one that an earlier turn of the session left, on any branch, or none.
ReceiveInvoke(s, state) ==
    /\ dispatch.at = "idle" /\ Len(turns) < MaxTurns
    /\ Known(s, state)
    /\ turns' = Append(turns, [session |-> s, state |-> state, node |-> Len(dag) + 1,
                               apart |-> Open = {}, orderly |-> Open = {}])
    /\ AddNode("invoke", 0, Len(turns) + 1, state)
    /\ dispatch' = [dispatch EXCEPT !.at = "received", !.turn = Len(turns) + 1]
    /\ UNCHANGED <<registers, calls, requests, replies, worker, store, faults>>

SetHead ==
    /\ dispatch.at = "received"
    /\ head' = turns[dispatch.turn].node
    /\ dispatch' = [dispatch EXCEPT !.at = "headed"]
    /\ UNCHANGED <<turns, routing, register, calls, dag, requests, replies, worker, store, faults>>

SetRouting ==
    /\ dispatch.at = "headed"
    /\ routing' = dispatch.turn
    /\ dispatch' = [dispatch EXCEPT !.at = "routed"]
    /\ UNCHANGED <<turns, head, register, calls, dag, requests, replies, worker, store, faults>>

SetState ==
    /\ dispatch.at = "routed"
    /\ register' = turns[dispatch.turn].state
    /\ dispatch' = [dispatch EXCEPT !.at = "running"]
    /\ UNCHANGED <<turns, head, routing, calls, dag, requests, replies, worker, store, faults>>

EndTurn == turns' = [turns EXCEPT ![dispatch.turn].apart = @ /\ Open = {},
                                  ![dispatch.turn].orderly = @ /\ Open = {}]

\* The agent has answered, whatever calls it has left open: final_state is read ...
Answer ==
    /\ dispatch.at = "running"
    /\ dispatch' = [dispatch EXCEPT !.at = "answered", !.state = register]
    /\ EndTurn
    /\ UNCHANGED <<registers, calls, dag, requests, replies, worker, store, faults>>

\* ... and chain_head after it.
Complete ==
    /\ dispatch.at = "answered"
    /\ AddNode("complete", head, dispatch.turn, dispatch.state)
    /\ dispatch' = Resting
    /\ UNCHANGED <<turns, registers, calls, requests, replies, worker, store, faults>>

\* The POST to the agent failed: an error complete with no parent and no state.
CompleteWithError ==
    /\ dispatch.at = "running"
    /\ faults < MaxFaults
    /\ faults' = faults + 1
    /\ AddNode("complete", 0, dispatch.turn, NoState)
    /\ dispatch' = Resting
    /\ EndTurn
    /\ UNCHANGED <<registers, calls, requests, replies, worker, store>>

\* The pod is started anew; requests that were sent stay in the queue.
SidecarCrash ==
    /\ faults < MaxFaults
    /\ faults' = faults + 1
    /\ dispatch' = Resting
    /\ head' = 0 /\ routing' = 0 /\ register' = NoState
    /\ calls' = [c \in DOMAIN calls |-> IF c \in Open THEN [calls[c] EXCEPT !.at = "failed"]
                                                      ELSE calls[c]]
    /\ UNCHANGED <<turns, dag, requests, replies, worker, store>>

-----------------------------------------------------------------------------
(* The provider server: forward_provider *)

\* The routing ids are copied first, the parent after them.
Call(op, p, v) ==
    /\ dispatch.at = "running"
    /\ Len(calls) < MaxCalls /\ Cardinality(Open) < MaxOpen
    /\ calls' = Append(calls, [op |-> op, path |-> p, value |-> v, at |-> "routed",
                               turn |-> dispatch.turn, key |-> routing, parent |-> head,
                               node |-> 0, state |-> NoState, answer |-> Absent])
    /\ turns' = [turns EXCEPT ![dispatch.turn].orderly = @ /\ Open = {}]
    /\ UNCHANGED <<dispatch, registers, dag, requests, replies, worker, store, faults>>

\* Mutant: the request continues the turn's invoke, whatever was called before.
SendFromInvoke(c) ==
    /\ calls[c].at = "routed"
    /\ AddNode("request", turns[calls[c].key].node, calls[c].key, register)
    /\ calls' = [calls EXCEPT ![c].at = "sent", ![c].node = Len(dag) + 1]
    /\ requests' = requests \cup {c}
    /\ UNCHANGED <<turns, dispatch, registers, replies, worker, store, faults>>

\* The state is read, the request recorded and published.
Send(c) ==
    /\ calls[c].at = "routed"
    /\ AddNode("request", calls[c].parent, calls[c].key, register)
    /\ calls' = [calls EXCEPT ![c].at = "sent", ![c].node = Len(dag) + 1]
    /\ requests' = requests \cup {c}
    /\ UNCHANGED <<turns, dispatch, registers, replies, worker, store, faults>>

\* The response moves chain_head on ...
TakeReply(c, reply) ==
    /\ calls[c].at = "sent"
    /\ reply \in replies /\ reply.call = c
    /\ replies' = replies \ {reply}
    /\ head' = reply.node
    /\ calls' = [calls EXCEPT ![c].at = "headed", ![c].state = reply.state,
                              ![c].answer = reply.answer]
    /\ UNCHANGED <<turns, dispatch, routing, register, dag, requests, worker, store, faults>>

\* ... and the state after it.
KeepState(c) ==
    /\ calls[c].at = "headed"
    /\ register' = IF calls[c].state = NoState THEN register ELSE calls[c].state
    /\ calls' = [calls EXCEPT ![c].at = "ok"]
    /\ UNCHANGED <<turns, dispatch, head, routing, dag, requests, replies, worker, store, faults>>

\* The receive fails: the agent gets a 502, and nobody takes the response.
LoseReply(c) ==
    /\ calls[c].at = "sent"
    /\ faults < MaxFaults
    /\ faults' = faults + 1
    /\ calls' = [calls EXCEPT ![c].at = "failed"]
    /\ UNCHANGED <<turns, dispatch, registers, dag, requests, replies, worker, store>>

-----------------------------------------------------------------------------
(* The store's worker: one task for each operation *)

Free == [at |-> "idle", call |-> 0, state |-> NoState]

\* What the request of a call says, and what a put makes of it.
Sent(c) == dag[calls[c].node].state

\* Mutant: a path that the parent state does not have is not added.
NextViewUpdates(c) ==
    IF ViewOf(Sent(c))[calls[c].path] = Absent THEN ViewOf(Sent(c))
    ELSE [ViewOf(Sent(c)) EXCEPT ![calls[c].path] = calls[c].value]

\* Only the path of the call changes.
NextView(c) == [ViewOf(Sent(c)) EXCEPT ![calls[c].path] = calls[c].value]

\* A task takes any request of its operation: one that was delivered before comes again.
Receives(op, c) == worker[op].at = "idle" /\ c \in requests /\ calls[c].op = op
Begin(op, c, at) == worker' = [worker EXCEPT ![op] = [at |-> at, call |-> c, state |-> Sent(c)]]
Step(op, from, to) == /\ worker[op].at = from
                      /\ worker' = [worker EXCEPT ![op].at = to]
Publish(c, state, answer) ==
    /\ AddNode("response", calls[c].node, calls[c].key, state)
    /\ replies' = replies \cup {[call |-> c, node |-> Len(dag) + 1, state |-> state,
                                 answer |-> answer]}

\* What a call reads is its state; at the root state it is the table of current values,
\* that the puts and deletes of all branches write.
Contents(c) == IF Sent(c) = Root THEN store[SessionOf(c)].files ELSE ViewOf(Sent(c))

Read(op, c, answer) ==
    /\ Receives(op, c)
    /\ Publish(c, Sent(c), answer)
    /\ Begin(op, c, "responded")
    /\ UNCHANGED <<turns, dispatch, registers, calls, requests, store, faults>>

Get(c) == Known(SessionOf(c), Sent(c)) /\ Read("get", c, Contents(c)[calls[c].path])

\* A list names the paths that have a value.
List(c) == Known(SessionOf(c), Sent(c)) /\ Read("list", c, {p \in Paths : Contents(c)[p] # Absent})

\* The state is not one of the session's: an error, with the state that was sent.
ReadUnknown(op, c) == ~Known(SessionOf(c), Sent(c)) /\ Read(op, c, Absent)

\* Mutant: the row of a deleted file stays, and says so.
DeleteMarks(c) ==
    /\ Receives("delete", c)
    /\ store' = [store EXCEPT ![SessionOf(c)].files[calls[c].path] = NoState]
    /\ Begin("delete", c, "done")
    /\ UNCHANGED <<turns, dispatch, registers, calls, dag, requests, replies, faults>>

\* A delete goes to the table only.
Delete(c) ==
    /\ Receives("delete", c)
    /\ store' = [store EXCEPT ![SessionOf(c)].files[calls[c].path] = Absent]
    /\ Begin("delete", c, "done")
    /\ UNCHANGED <<turns, dispatch, registers, calls, dag, requests, replies, faults>>

\* A put writes the table ...
PutFile(c) ==
    /\ Receives("put", c)
    /\ store' = [store EXCEPT ![SessionOf(c)].files[calls[c].path] = calls[c].value]
    /\ Begin("put", c, "filed")
    /\ UNCHANGED <<turns, dispatch, registers, calls, dag, requests, replies, faults>>

\* ... the value ...
PutValue ==
    LET c == worker["put"].call IN
    /\ Step("put", "filed", "valued")
    /\ store' = [store EXCEPT ![SessionOf(c)].values = @ \cup {calls[c].value}]
    /\ UNCHANGED <<turns, dispatch, registers, calls, dag, requests, replies, faults>>

\* Mutant: the commit is written before the snapshot that it names.
PutCommitFirst ==
    LET c == worker["put"].call IN
    /\ Step("put", "valued", "snapped")
    /\ store' = [store EXCEPT ![SessionOf(c)].commits = @ \cup {Append(Sent(c), NextView(c))}]
    /\ UNCHANGED <<turns, dispatch, registers, calls, dag, requests, replies, faults>>

\* ... the snapshot of the parent state with the path changed ...
PutSnapshot ==
    LET c == worker["put"].call IN
    /\ Step("put", "valued", "snapped")
    /\ Known(SessionOf(c), Sent(c))
    /\ store' = [store EXCEPT ![SessionOf(c)].snapshots = @ \cup {NextView(c)}]
    /\ UNCHANGED <<turns, dispatch, registers, calls, dag, requests, replies, faults>>

\* ... and the commit, each insert ignored if its hash is there.
PutCommit ==
    LET c == worker["put"].call
        commit == Append(Sent(c), NextView(c)) IN
    /\ worker["put"].at = "snapped"
    /\ worker' = [worker EXCEPT !["put"].at = "done", !["put"].state = commit]
    /\ store' = [store EXCEPT ![SessionOf(c)].commits = @ \cup {commit}]
    /\ UNCHANGED <<turns, dispatch, registers, calls, dag, requests, replies, faults>>

\* A put that does not find its parent state ends with an error.
PutUnknown ==
    /\ Step("put", "valued", "done")
    /\ ~Known(SessionOf(worker["put"].call), Sent(worker["put"].call))
    /\ UNCHANGED <<turns, dispatch, registers, calls, dag, requests, replies, store, faults>>

\* Recorded under the request and published, before the request is acknowledged.
Respond(op) ==
    /\ Step(op, "done", "responded")
    /\ Publish(worker[op].call, worker[op].state, Absent)
    /\ UNCHANGED <<turns, dispatch, registers, calls, requests, store, faults>>

Acknowledge(op) ==
    /\ worker[op].at = "responded"
    /\ requests' = requests \ {worker[op].call}
    /\ worker' = [worker EXCEPT ![op] = Free]
    /\ UNCHANGED <<turns, dispatch, registers, calls, dag, replies, store, faults>>

\* The daemon stops: what its tasks had received is delivered again.
WorkerCrash ==
    /\ faults < MaxFaults
    /\ faults' = faults + 1
    /\ \E op \in Ops : worker[op].at # "idle"
    /\ worker' = [op \in Ops |-> Free]
    /\ UNCHANGED <<turns, dispatch, registers, calls, dag, requests, replies, store>>

-----------------------------------------------------------------------------
Init == /\ turns = <<>>
        /\ dispatch = Resting
        /\ head = 0
        /\ routing = 0
        /\ register = NoState
        /\ calls = <<>>
        /\ dag = <<>>
        /\ requests = {}
        /\ replies = {}
        /\ worker = [op \in Ops |-> Free]
        /\ store = [s \in Sessions |-> [files |-> Empty, values |-> {}, snapshots |-> {},
                                        commits |-> {}]]
        /\ faults = 0

Sidecar == \/ \E s \in Sessions : \E state \in store[s].commits \cup {Root} :
                ReceiveInvoke(s, state)
           \/ SetHead \/ SetRouting \/ SetState \/ Answer \/ Complete \/ CompleteWithError
           \/ SidecarCrash

Agent == \/ \E p \in Paths : \/ \E v \in Values : Call("put", p, v)
                             \/ \E op \in {"get", "delete"} : Call(op, p, Absent)
         \/ Call("list", Top, Absent)

Provider == \E c \in DOMAIN calls : \/ Send(c) \/ KeepState(c) \/ LoseReply(c)
                                    \/ \E reply \in replies : TakeReply(c, reply)

Worker == \/ \E c \in requests : \/ Get(c) \/ List(c) \/ Delete(c) \/ PutFile(c)
                                \/ \E op \in {"get", "list"} : ReadUnknown(op, c)
          \/ PutValue \/ PutSnapshot \/ PutUnknown \/ PutCommit
          \/ \E op \in Ops : Respond(op) \/ Acknowledge(op)
          \/ WorkerCrash

Next == Sidecar \/ Agent \/ Provider \/ Worker

Spec == Init /\ [][Next]_vars

-----------------------------------------------------------------------------
(* Properties *)

MaybeState == State \cup {NoState}
MaybeValue == Values \cup {Absent}
Response == MaybeValue \cup SUBSET Paths

\* Every variable has its type.
TypeOK ==
    /\ turns \in Seq([session : Sessions, state : State, node : Nat, apart : BOOLEAN,
                      orderly : BOOLEAN])
    /\ dispatch \in [at : {"idle", "received", "headed", "routed", "running", "answered"},
                     turn : Nat, state : MaybeState]
    /\ head \in 0..Len(dag)
    /\ routing \in 0..Len(turns)
    /\ register \in MaybeState
    /\ calls \in Seq([op : Ops, path : Paths \cup {Top}, value : MaybeValue, turn : Nat, key : Nat,
                      at : {"routed", "sent", "headed", "ok", "failed"},
                      parent : Nat, node : Nat, state : MaybeState, answer : Response])
    /\ dag \in Seq(Node)
    /\ requests \subseteq DOMAIN calls
    /\ \A reply \in replies : /\ reply.call \in DOMAIN calls /\ reply.node \in DOMAIN dag
                              /\ reply.state \in MaybeState /\ reply.answer \in Response
    /\ worker \in [Ops -> [at : {"idle", "filed", "valued", "snapped", "done", "responded"},
                           call : 0..Len(calls), state : MaybeState]]
    /\ store \in [Sessions -> [files : View, values : SUBSET Values, snapshots : SUBSET View,
                               commits : SUBSET State]]
    /\ faults \in 0..MaxFaults

\* The calls of a turn that were answered, before a call or before the end.
Answered(t, c) == {d \in 1..(c - 1) : calls[d].turn = t /\ calls[d].at = "ok"}
IsLatest(d, S) == d \in S /\ \A e \in S : e <= d

\* n continues turn t after the calls S: from the response to the latest, or the invoke.
Follows(n, t, S) ==
    IF S = {} THEN dag[n].parent = turns[t].node
    ELSE \E d \in S : /\ IsLatest(d, S)
                      /\ dag[dag[n].parent].type = "response"
                      /\ dag[dag[n].parent].parent = calls[d].node

\* Turns do not meet while no call reaches from one into the next: what a turn records
\* continues its own nodes, with states of its own session that can be read back; crashes,
\* second deliveries and overlapping calls of one turn notwithstanding.
TurnsApart ==
    \A n \in DOMAIN dag :
        LET t == dag[n].turn IN
        turns[t].apart => /\ dag[n].parent # 0 => dag[dag[n].parent].turn = t
                          /\ dag[n].state # NoState => Known(turns[t].session, dag[n].state)

\* The nodes of an orderly turn form one chain, from its invoke through every call that was
\* answered, in order, to its complete; all carry the turn's own session and submission, and
\* each the state that the node before it left; with stale registers, late answers, crashes
\* and second deliveries around them.  The turns keep apart.
ChainInOrder ==
    /\ \A c \in DOMAIN calls :
         LET t == calls[c].turn IN
         turns[t].orderly /\ calls[c].node # 0
             => calls[c].key = t /\ Follows(calls[c].node, t, Answered(t, c))
    /\ \A n \in DOMAIN dag :
         LET t == dag[n].turn IN
         dag[n].type \in {"request", "complete"} /\ dag[n].parent # 0 /\ turns[t].orderly =>
             /\ dag[n].type = "complete" => Follows(n, t, Answered(t, Len(calls) + 1))
             /\ dag[n].state = dag[dag[n].parent].state
    /\ TurnsApart

\* A commit names a snapshot and values that are stored: the worker may stop between
\* any two of its writes.
CommitsWhole ==
    \A s \in Sessions : \A k \in store[s].commits :
        /\ Known(s, SubSeq(k, 1, Len(k) - 1))
        /\ ViewOf(k) \in store[s].snapshots
        /\ \A p \in Paths : ViewOf(k)[p] \in store[s].values \cup {Absent}

\* In an orderly turn the agent reads its own latest put to a path, and finds every path it
\* has put in a list.
PutsBefore(c) == {d \in Answered(calls[c].turn, c) : calls[d].op = "put"}
ReadsOwnPuts ==
    \A c \in DOMAIN calls :
        calls[c].at = "ok" /\ turns[calls[c].turn].orderly =>
            /\ calls[c].op = "get" =>
                   LET same == {d \in PutsBefore(c) : calls[d].path = calls[c].path} IN
                   \A d \in same : IsLatest(d, same) => calls[c].answer = calls[d].value
            /\ calls[c].op = "list" => \A d \in PutsBefore(c) : calls[d].path \in calls[c].answer
=============================================================================
