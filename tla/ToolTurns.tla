------------------------------ MODULE ToolTurns ------------------------------
(***************************************************************************)
(* The run loop of the harness: an invoke per turn, its completion, the    *)
(* tool calls of the completion one by one, and the next turn.  A call is  *)
(* either served by the MCP worker or delegated to another run.  Harness,  *)
(* sidecar and worker meet only in the queue (JetStream).                  *)
(*                                                                         *)
(* All turns of a run share one submission, and so one consumer for their  *)
(* completions; the sidecar and the worker have one consumer each.         *)
(***************************************************************************)
EXTENDS JetStream, FiniteSets

CONSTANTS CallLists, \* bound: what a completion may call
          MaxRuns,   \* bound: runs, the delegated ones included
          MaxTop,    \* bound: runs that a caller starts
          MaxTurns,  \* bound: turns of all runs
          MaxFaults  \* bound: lost acknowledgements, expiries, stops and failed sends

ASSUME ToolTurnsConstants ==
    /\ CallLists \subseteq Seq({"tool", "delegate"}) \ {<<>>}
    /\ MaxRuns \in Nat /\ MaxTop \in Nat /\ MaxTurns \in Nat /\ MaxFaults \in Nat

VARIABLES runs,    \* run_agent, one per run; run r has submission r
          jobs,    \* the registry's jobs
          dag,     \* recorded nodes; 0 stands for the root
          sidecar, \* the agent's sidecar and the invoke it dispatches
          worker,  \* the MCP worker and the request it serves
          faults

vars == <<log, consumers, runs, jobs, dag, sidecar, worker, faults>>

NoCalls == <<>>
None == 0       \* Option::None for a state
NoOf == <<0, 0>>

\* of: for a request the completion and the index of its call, for a completion the invoke
\* it was made for.  told is the state in the message, state the one in the snapshot.
Node == [type : {"invoke", "complete", "request", "response"}, parent : Nat, run : Nat,
         of : Nat \X Nat, calls : CallLists \cup {NoCalls}, told : Nat, state : Nat]

\* A message's state wins over the parent's, if it has one.
Inherit(parent, told) == CASE told # None -> told
                           [] told = None /\ parent = 0 -> None
                           [] OTHER -> dag[parent].state

Record(type, parent, r, of, calls, told) ==
    dag' = Append(dag, [type |-> type, parent |-> parent, run |-> r, of |-> of,
                        calls |-> calls, told |-> told, state |-> Inherit(parent, told)])
Recorded == Len(dag) + 1 \* the node that this step records

\* What the queue carries; request is the node that a response answers.
Message(kind, r, node, request) ==
    [kind |-> kind, run |-> r, node |-> node, request |-> request]

-----------------------------------------------------------------------------
(* Consumers *)

Invokes == [kind |-> "invoke", run |-> 0]
Requests == [kind |-> "request", run |-> 0]
Completes(r) == [kind |-> "complete", run |-> r]
Consumers == {Invokes, Requests} \cup {Completes(r) : r \in 1..MaxRuns}

\* Receives message i with consumer c; an acknowledgement that fails is a fault.
Receive(c, i) ==
    /\ Delivers(c, i)
    /\ \/ Fetch(c, i, TRUE) /\ UNCHANGED faults
       \/ Fetch(c, i, FALSE) /\ faults < MaxFaults /\ faults' = faults + 1

Fault == faults < MaxFaults /\ faults' = faults + 1

-----------------------------------------------------------------------------
(* The harness: run_agent *)

NewRun(by, head) ==
    [by |-> by, at |-> "invoking", head |-> head, state |-> None, turn |-> 1,
     invoke |-> 0, answer |-> 0, next |-> 0, job |-> 0, own |-> TRUE, late |-> FALSE]

Set(r, run) == runs' = [runs EXCEPT ![r] = run]
Calls(r) == dag[runs[r].answer].calls

\* process_turn_tool_calls goes on to its next call, or the turn ends.
Proceed(run) ==
    IF run.next < Len(dag[run.answer].calls)
    THEN [run EXCEPT !.at = "calling", !.next = @ + 1]
    ELSE [run EXCEPT !.at = "invoking", !.turn = @ + 1, !.state = dag[run.answer].told]

\* The caller resolved the tip of the branch, and its state if it is an invoke or a complete.
TipState == IF dag # <<>> /\ dag[Len(dag)].type \in {"invoke", "complete"}
            THEN dag[Len(dag)].told ELSE None
StartRun == /\ Len(runs) < MaxRuns
            /\ Cardinality({r \in DOMAIN runs : runs[r].by = 0}) < MaxTop
            /\ runs' = Append(runs, [NewRun(0, Len(dag)) EXCEPT !.state = TipState])
            /\ UNCHANGED <<log, consumers, jobs, dag, sidecar, worker, faults>>

\* build_next_message fails: the agent is not deployed, or has no runtime.
BuildFails(r) == /\ runs[r].at = "invoking"
                 /\ Set(r, [runs[r] EXCEPT !.at = "failed"])
                 /\ UNCHANGED <<log, consumers, jobs, dag, sidecar, worker, faults>>

\* The job is created and set Running, the invoke recorded and published.
SendInvoke(r) ==
    /\ runs[r].at = "invoking" /\ Len(jobs) < MaxTurns
    /\ jobs' = Append(jobs, [run |-> r, status |-> "Running"])
    /\ Record("invoke", runs[r].head, r, NoOf, NoCalls, runs[r].state)
    /\ \/ /\ Publish(Message("invoke", r, Recorded, 0))
          /\ Set(r, [runs[r] EXCEPT !.at = "awaiting", !.invoke = Recorded, !.job = Len(jobs) + 1])
          /\ UNCHANGED faults
       \/ /\ Fault /\ UNCHANGED log
          /\ Set(r, [runs[r] EXCEPT !.at = "failed", !.invoke = Recorded, !.job = Len(jobs) + 1])
    /\ UNCHANGED <<consumers, sidecar, worker>>

Answers(r, n) == dag[n].of[1] = runs[r].invoke

\* build_completion, if the completion calls no tool: only the last turn's job is completed.
Completed(r, n) ==
    /\ dag[n].calls = NoCalls
    /\ Set(r, [runs[r] EXCEPT !.at = "done", !.answer = n, !.own = @ /\ Answers(r, n)])
    /\ jobs' = [jobs EXCEPT ![runs[r].job].status = "Completed"]

\* Mutant: the index of the first call is one too high.
CalledFromSecond(r, n) ==
    /\ dag[n].calls # NoCalls
    /\ Set(r, Proceed([runs[r] EXCEPT !.answer = n, !.head = n, !.next = 1,
                                      !.own = @ /\ Answers(r, n), !.late = FALSE]))
    /\ UNCHANGED jobs

\* Otherwise the chain goes on from the completion.  The tools are given the state that the
\* turn began with; the next turn the one that the completion left.
Called(r, n) ==
    /\ dag[n].calls # NoCalls
    /\ Set(r, Proceed([runs[r] EXCEPT !.answer = n, !.head = n, !.next = 0,
                                      !.own = @ /\ Answers(r, n), !.late = FALSE]))
    /\ UNCHANGED jobs

\* Whatever the consumer of the submission delivers is taken for this turn's completion.
ReceiveComplete(r, i) ==
    /\ runs[r].at = "awaiting"
    /\ Receive(Completes(r), i)
    /\ Completed(r, log[i].node) \/ Called(r, log[i].node)
    /\ UNCHANGED <<log, dag, sidecar, worker>>

Asks(r, what) == runs[r].at = "calling" /\ Calls(r)[runs[r].next] = what

\* dispatch_service_call: the request is recorded, then published; if that fails the call
\* is over, and the chain stays where it was.
SendRequest(r) ==
    /\ Asks(r, "tool")
    /\ Record("request", runs[r].head, r, <<runs[r].answer, runs[r].next>>, NoCalls,
              runs[r].state)
    /\ \/ /\ Publish(Message("request", r, Recorded, 0))
          /\ Set(r, [runs[r] EXCEPT !.at = "requested", !.head = Recorded])
          /\ UNCHANGED faults
       \/ /\ Fault /\ UNCHANGED log
          /\ Set(r, Proceed([runs[r] EXCEPT !.late = TRUE]))
    /\ UNCHANGED <<consumers, jobs, sidecar, worker>>

\* Mutant: the filter of a response leaves the sequence number open.
ResponseToRun(q, i) == log[i].kind = "response" /\ log[i].run = dag[q].run

\* The filter of a response names its submission and sequence number, which no other
\* request has; its consumer is made for the one fetch, and delivers the first response.
ResponseTo(q, i) == log[i].kind = "response" /\ log[i].request = q

FirstResponse(q, i) == /\ ResponseTo(q, i)
                       /\ \A j \in 1..(i - 1) : ~ResponseTo(q, j)

\* The harness records the response under the request that the response names.
ReceiveResponse(r, i) ==
    /\ runs[r].at = "requested" /\ FirstResponse(runs[r].head, i)
    /\ Record("response", log[i].request, r, NoOf, NoCalls, dag[log[i].request].told)
    /\ Set(r, Proceed([runs[r] EXCEPT !.head = Recorded]))
    /\ UNCHANGED <<log, consumers, jobs, sidecar, worker, faults>>

\* The one fetch ended after 30 seconds: the error goes into the trace of the run only.
ResponseTimeout(r) ==
    /\ runs[r].at = "requested"
    /\ Set(r, Proceed([runs[r] EXCEPT !.late = TRUE]))
    /\ UNCHANGED <<log, consumers, jobs, dag, sidecar, worker, faults>>

\* delegate_agent: another run with a submission of its own and no state goes on from a
\* copy of the chain head.
Delegate(r) ==
    /\ Asks(r, "delegate") /\ Len(runs) < MaxRuns
    /\ runs' = Append([runs EXCEPT ![r].at = "delegating"], NewRun(r, runs[r].head))
    /\ UNCHANGED <<log, consumers, jobs, dag, sidecar, worker, faults>>

\* The delegation that r waits for: the latest one it began.
Delegation(r, d) == /\ runs[r].at = "delegating" /\ runs[d].by = r
                    /\ \A e \in DOMAIN runs : runs[e].by = r => e <= d

\* Mutant: the chain goes on from the delegated run.
EndDelegationThere(r, d) ==
    /\ Delegation(r, d) /\ runs[d].at \in {"done", "failed"}
    /\ Set(r, Proceed([runs[r] EXCEPT !.head = runs[d].answer]))
    /\ UNCHANGED <<log, consumers, jobs, dag, sidecar, worker, faults>>

\* Mutant: the error of a delegated run is not handled.
EndDelegationDone(r, d) ==
    /\ Delegation(r, d) /\ runs[d].at = "done"
    /\ Set(r, Proceed(runs[r]))
    /\ UNCHANGED <<log, consumers, jobs, dag, sidecar, worker, faults>>

\* Its result or error goes into the trace of the run, and its chain is left behind.
EndDelegation(r, d) ==
    /\ Delegation(r, d) /\ runs[d].at \in {"done", "failed"}
    /\ Set(r, Proceed(runs[r]))
    /\ UNCHANGED <<log, consumers, jobs, dag, sidecar, worker, faults>>

\* The person who approves tool calls rejects one: the run ends, its job stays Running.
RejectCall(r) == /\ runs[r].at = "calling"
                 /\ Set(r, [runs[r] EXCEPT !.at = "failed"])
                 /\ UNCHANGED <<log, consumers, jobs, dag, sidecar, worker, faults>>

Harness(r) == \/ BuildFails(r) \/ SendInvoke(r)
              \/ SendRequest(r) \/ ResponseTimeout(r) \/ Delegate(r) \/ RejectCall(r)
              \/ \E i \in DOMAIN log : ReceiveComplete(r, i) \/ ReceiveResponse(r, i)
              \/ \E d \in DOMAIN runs : EndDelegation(r, d)

-----------------------------------------------------------------------------
(* The sidecar and the MCP worker: each acknowledges, then works *)

Busy(process) == process.at = "busy"
Idle == [at |-> "idle", node |-> 0]

TakeInvoke(i) == /\ sidecar.at = "idle"
                 /\ Receive(Invokes, i)
                 /\ sidecar' = [at |-> "busy", node |-> log[i].node]
                 /\ UNCHANGED <<log, runs, jobs, dag, worker>>

\* The turn's completion continues its invoke and has a state that the turn left.
SendComplete(calls) ==
    /\ Busy(sidecar)
    /\ calls # NoCalls => Len(jobs) < MaxTurns
    /\ LET r == dag[sidecar.node].run IN
       /\ Record("complete", sidecar.node, r, <<sidecar.node, 0>>, calls, Recorded)
       /\ Publish(Message("complete", r, Recorded, 0))
    /\ sidecar' = Idle
    /\ UNCHANGED <<consumers, runs, jobs, worker, faults>>

\* handle_invoke, when the container did not answer: no state, and the root as parent.
SendErrorComplete ==
    /\ Busy(sidecar)
    /\ LET r == dag[sidecar.node].run IN
       /\ Record("complete", 0, r, <<sidecar.node, 0>>, NoCalls, None)
       /\ Publish(Message("complete", r, Recorded, 0))
    /\ sidecar' = Idle
    /\ UNCHANGED <<consumers, runs, jobs, worker, faults>>

TakeRequest(i) == /\ worker.at = "idle"
                  /\ Receive(Requests, i)
                  /\ worker' = [at |-> "busy", node |-> log[i].node]
                  /\ UNCHANGED <<log, runs, jobs, dag, sidecar>>

\* run_mcp_worker answers whether the tool ran or failed.
SendResponse == /\ Busy(worker)
                /\ Publish(Message("response", dag[worker.node].run, 0, worker.node))
                /\ worker' = Idle
                /\ UNCHANGED <<consumers, runs, jobs, dag, sidecar, faults>>

-----------------------------------------------------------------------------
(* Faults *)

\* The sidecar or the worker stops and is started again: what it took is lost, and after
\* five minutes its consumer is, too.
SidecarRestarts == /\ Fault
                   /\ sidecar' = Idle
                   /\ (Busy(sidecar) /\ UNCHANGED consumers) \/ Expire(Invokes)
                   /\ UNCHANGED <<log, runs, jobs, dag, worker>>
WorkerRestarts == /\ Fault
                  /\ worker' = Idle
                  /\ (Busy(worker) /\ UNCHANGED consumers) \/ Expire(Requests)
                  /\ UNCHANGED <<log, runs, jobs, dag, sidecar>>

\* Nobody waits on a consumer whose process works; that of a run which ended has no use.
Unattended(c) ==
    \/ c = Invokes /\ Busy(sidecar)
    \/ c = Requests /\ Busy(worker)
    \/ \E r \in DOMAIN runs : /\ c = Completes(r)
                             /\ runs[r].at \notin {"awaiting", "done", "failed"}
ConsumerExpires(c) == /\ Unattended(c) /\ Expire(c) /\ Fault
                      /\ UNCHANGED <<log, runs, jobs, dag, sidecar, worker>>

-----------------------------------------------------------------------------
Init == /\ log = <<>> /\ consumers = [c \in Consumers |-> Unmade]
        /\ runs = <<>> /\ jobs = <<>> /\ dag = <<>>
        /\ sidecar = Idle /\ worker = Idle /\ faults = 0

Sidecar == \/ \E i \in DOMAIN log : TakeInvoke(i)
           \/ \E calls \in CallLists \cup {NoCalls} : SendComplete(calls)
           \/ SendErrorComplete
Worker == (\E i \in DOMAIN log : TakeRequest(i)) \/ SendResponse
Faults == \/ SidecarRestarts \/ WorkerRestarts
          \/ \E c \in Consumers : ConsumerExpires(c)

Next == \/ StartRun \/ Sidecar \/ Worker \/ Faults
        \/ \E r \in DOMAIN runs : Harness(r)

\* The loops of the three processes run on; a person asked to approve decides.
Fairness == /\ WF_vars(Sidecar) /\ WF_vars(Worker)
            /\ \A r \in 1..MaxRuns : WF_vars(r \in DOMAIN runs /\ Harness(r))
Spec == Init /\ [][Next]_vars /\ Fairness

-----------------------------------------------------------------------------
(* Properties *)

ProcessOK == [at : {"idle", "busy"}, node : 0..Len(dag)]

\* The types of run loop, queue and processes.
TypeOK ==
    /\ log \in Seq([kind : {"invoke", "complete", "request", "response"},
                    run : 1..Len(runs), node : 0..Len(dag), request : 0..Len(dag)])
    /\ consumers \in [Consumers -> [made : BOOLEAN, seen : 0..Len(log),
                                    owed : SUBSET (1..Len(log))]]
    /\ runs \in Seq([by : 0..Len(runs), head : 0..Len(dag), state : 0..Len(dag),
                     at : {"invoking", "awaiting", "calling", "requested", "delegating",
                           "done", "failed"},
                     turn : 1..(MaxTurns + 1), invoke : 0..Len(dag), answer : 0..Len(dag),
                     next : Nat, job : 0..Len(jobs), own : BOOLEAN, late : BOOLEAN])
    /\ jobs \in Seq([run : 1..Len(runs), status : {"Running", "Completed"}])
    /\ dag \in Seq(Node)
    /\ sidecar \in ProcessOK /\ worker \in ProcessOK
    /\ faults \in 0..MaxFaults

AnswersTo(id) == {n \in DOMAIN dag : dag[n].type = "response" /\ dag[dag[n].parent].of = id}

\* The conversation that a later turn is built from has one Tool message for each tool call of
\* the completion before, unless the call timed out or could not be sent; no call of a run
\* ever has two, whatever was delivered twice, while the run took its own completions.  An
\* answer that comes after its call timed out is not taken for that of a later call: a
\* response is recorded right after its own request, as far as the harness records.
ToolCallsAnswered ==
    /\ \A r \in DOMAIN runs : runs[r].own =>
        /\ \A n \in DOMAIN dag :
               dag[n].type = "request" /\ dag[n].run = r => Cardinality(AnswersTo(dag[n].of)) <= 1
        /\ runs[r].at \in {"invoking", "awaiting"} /\ runs[r].turn > 1 /\ ~runs[r].late =>
               \A k \in DOMAIN Calls(r) :
                   Calls(r)[k] = "tool" => AnswersTo(<<runs[r].answer, k>>) # {}
    /\ \A n \in DOMAIN dag : dag[n].type = "response" =>
        /\ dag[dag[n].parent].type = "request"
        /\ \A m \in (dag[n].parent + 1)..(n - 1) :
               dag[m].run = dag[n].run => dag[m].type = "complete"

Sent(n) == \E i \in DOMAIN log : log[i].node = n

\* A run never takes a completion of another run, and takes one of an earlier turn of its own
\* only after an acknowledgement was lost or a consumer expired.
CompletionsOfRun ==
    \A r \in DOMAIN runs : /\ runs[r].answer # 0 => dag[runs[r].answer].run = r
                           /\ faults = 0 => runs[r].own

\* The DAG model is a single-parent linear chain: the nodes of a run hang together, and only
\* completions, of an invoke delivered twice, and requests that could not be sent, stand
\* next to another node; delegated runs branch off and are never come back to.
LinearChain ==
    /\ CompletionsOfRun
    /\ \A n \in DOMAIN dag : runs[dag[n].run].own =>
           /\ dag[n].type # "invoke" /\ dag[n].parent # 0 => dag[dag[n].parent].run = dag[n].run
           /\ dag[n].type \in {"request", "invoke"} /\ dag[n].parent # 0 =>
                  \A m \in (n + 1)..Len(dag) :
                      \/ dag[m].run # dag[n].run
                      \/ dag[m].parent # dag[n].parent
                      \/ ~Sent(n)

\* Every run ends if no message is lost: each completion is delivered once, answers and
\* timeouts both go on, and a delegated run ends before the one that waits for it.
Ended(r) == r \in DOMAIN runs /\ runs[r].at \in {"done", "failed"}
RunsEnd == \A r \in 1..MaxRuns : r \in DOMAIN runs ~> Ended(r) \/ faults > 0
=============================================================================
