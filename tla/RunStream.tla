------------------------------- MODULE RunStream -------------------------------
(***************************************************************************)
(* How a run is watched: the harness service, its gRPC client and the      *)
(* terminal.  A run emits events into a bounded channel; a pump of the     *)
(* service translates them into the bounded stream of the call.  The       *)
(* result goes into that stream directly, and may overtake the events that *)
(* the pump still has.  The client hands the events to a forwarder and     *)
(* returns with the first result; the forwarder and the worker that called *)
(* it feed the queue of the terminal, where the result may overtake again. *)
(*                                                                         *)
(* The terminal takes inputs at any time; its worker runs them one after   *)
(* the other.  Events that nobody shows (the starts of runs and turns, the *)
(* ends of turns) would only fill the channels and are left out.           *)
(***************************************************************************)
EXTENDS Naturals, FiniteSets, Sequences, SequencesExt

CONSTANTS MaxInputs, \* bound: inputs typed
          MaxTurns,  \* bound: turns of a run
          MaxCalls,  \* bound: tool calls of a run
          Capacity,  \* of the channels: 32 in the code
          MaxFaults  \* bound: invokes that fail, lost connections, a terminal that quits

ASSUME RunStreamConstants == /\ {MaxInputs, MaxCalls, MaxFaults} \subseteq Nat
                             /\ {MaxTurns, Capacity} \subseteq Nat \ {0}

VARIABLES approval, \* RunCtl: streaming_with_approval, or streaming
          runs,     \* the task of each input: run_agent
          events,   \* channel of each run, from the harness to its pump
          stream,   \* RunAgentServerMsg of each call, for as long as its client reads it
          ctl,      \* channel of the events, from the client to the forwarder
          external, \* ExternalQueue of the terminal
          inputs,   \* how many the worker was sent
          current,  \* the input that it runs, or ran last
          busy,     \* it runs it still
          screen,   \* Model: transcript, pending_call_indices, received_assistant_content
          quit,
          emitted,  \* the events that each run emitted
          log,      \* what happened at the terminal, in order
          faults

vars == <<approval, runs, events, stream, ctl, external, inputs, current, busy, screen, quit,
          emitted, log, faults>>
serverVars == <<runs, events, stream, emitted>>
clientVars == <<ctl, inputs, current, busy>>
screenVars == <<external, screen, quit, log>>

Runs == 1..MaxInputs
Event == [kind : {"text", "ask", "begin", "end"}, run : Runs, n : Nat]
Result == [kind : {"result"}, run : Runs, n : 0..MaxTurns]
Submitted(r) == [kind |-> "submit", run |-> r, n |-> 0]

\* n: the turn of a text, the number of a call, and for a result the turn whose answer it
\* is, or 0 for an error.
Ev(kind, r, n) == [kind |-> kind, run |-> r, n |-> n]

Fault == faults < MaxFaults /\ faults' = faults + 1

\* The client reads the stream of the run.
Watched(r) == busy /\ current = r /\ ~quit

-----------------------------------------------------------------------------
(* The harness: run_agent, with events of RunCtl *)

\* Mutant: the channel has no bound.
RoomAlways(r) == TRUE

Room(r) == Len(events[r]) < Capacity

\* emit waits for room.  The pump takes what comes whether somebody watches or not.
Emit(r, e) == /\ Room(r)
              /\ events' = [events EXCEPT ![r] = Append(@, e)]
              /\ emitted' = [emitted EXCEPT ![r] = Append(@, e)]
Silent == UNCHANGED <<events, emitted>>

Become(r, at) == runs' = [runs EXCEPT ![r].at = at]

\* The completion of a turn: perhaps a text, and no or some tool calls.
Answer(r) ==
    /\ runs[r].at = "invoking"
    /\ \E at \in {"result"} \cup (IF runs[r].turn < MaxTurns /\ runs[r].calls < MaxCalls
                                  THEN {"call"} ELSE {}) :
           \/ Emit(r, Ev("text", r, runs[r].turn)) /\ Become(r, at)
           \/ Become(r, at) /\ Silent
    /\ UNCHANGED <<approval, stream, clientVars, screenVars, faults>>

\* The agent, the queue or the registry fails; the text of the error is the result.
InvokeFails(r) ==
    /\ runs[r].at = "invoking" /\ Fault
    /\ Become(r, "error")
    /\ UNCHANGED <<approval, events, emitted, stream, clientVars, screenVars>>

Begin(r) == /\ Emit(r, Ev("begin", r, runs[r].calls + 1))
            /\ runs' = [runs EXCEPT ![r].at = "calling", ![r].calls = @ + 1]

\* process_tool_call asks first, if the caller of the run wants to be asked.
CallTool(r) ==
    /\ runs[r].at = "call"
    /\ \/ ~approval /\ Begin(r)
       \/ /\ approval
          /\ Emit(r, Ev("ask", r, runs[r].calls + 1))
          /\ Become(r, "asking")
    /\ UNCHANGED <<approval, stream, clientVars, screenVars, faults>>

\* There is no time limit; a sender that is dropped counts only if it is the one of the
\* service, which the pump of this run keeps.
Decided(r) ==
    /\ runs[r].at = "asking"
    /\ \/ runs[r].decision = "approve" /\ Begin(r)
       \/ runs[r].decision = "reject" /\ Become(r, "error") /\ Silent
    /\ UNCHANGED <<approval, stream, clientVars, screenVars, faults>>

\* Calls go one by one; after the last one the next turn begins.
ToolAnswers(r) ==
    /\ runs[r].at = "calling"
    /\ Emit(r, Ev("end", r, runs[r].calls))
    /\ \/ runs' = [runs EXCEPT ![r].at = "invoking", ![r].decision = "none", ![r].turn = @ + 1]
       \/ /\ runs[r].calls < MaxCalls
          /\ runs' = [runs EXCEPT ![r].at = "call", ![r].decision = "none"]
    /\ UNCHANGED <<approval, stream, clientVars, screenVars, faults>>

-----------------------------------------------------------------------------
(* The service *)

\* Mutant: the pump waits for room that a client who is gone does not make.
SendToWatcher(r, message) ==
    /\ Watched(r) /\ Len(stream[r]) < Capacity
    /\ stream' = [stream EXCEPT ![r] = Append(@, message)]

\* A send into the stream of a call that nobody reads fails, and the failure is ignored.
SendTo(r, message) ==
    \/ /\ Watched(r) /\ Len(stream[r]) < Capacity
       /\ stream' = [stream EXCEPT ![r] = Append(@, message)]
    \/ ~Watched(r) /\ UNCHANGED stream

\* Pump 2.  That of an approval keeps the sender of the decision, under a fresh id.
Pump(r) ==
    /\ events[r] # <<>>
    /\ SendTo(r, Head(events[r]))
    /\ events' = [events EXCEPT ![r] = Tail(@)]
    /\ UNCHANGED <<approval, runs, emitted, clientVars, screenVars, faults>>

\* The run task sends the result itself.
End(r) ==
    /\ runs[r].at \in {"result", "error"}
    /\ SendTo(r, Ev("result", r, IF runs[r].at = "result" THEN runs[r].turn ELSE 0))
    /\ Become(r, "over")
    /\ UNCHANGED <<approval, events, emitted, clientVars, screenVars, faults>>

-----------------------------------------------------------------------------
(* The client of the service, in the terminal's worker *)

\* The service spawns the task of the run when it has read the first message of the call;
\* that may be refused: the session id is none.
Open(r) == \/ Become(r, "invoking") /\ UNCHANGED faults
           \/ Become(r, "error") /\ Fault

\* The worker takes the next input.
Take ==
    /\ ~busy /\ current < inputs /\ ~quit
    /\ current' = current + 1
    /\ busy' = TRUE
    /\ Open(current + 1)
    /\ UNCHANGED <<approval, events, emitted, stream, ctl, inputs, screenVars>>

\* An event goes to the forwarder, whose channel all runs of the terminal share.
Drain ==
    /\ Watched(current) /\ stream[current] # <<>>
    /\ Head(stream[current]).kind # "result" /\ Len(ctl) < Capacity
    /\ ctl' = Append(ctl, Head(stream[current]))
    /\ stream' = [stream EXCEPT ![current] = Tail(@)]
    /\ UNCHANGED <<approval, runs, events, emitted, inputs, current, busy, screenVars, faults>>

\* The call is over for the client, and the rest of the stream is dropped.
Return(result) ==
    /\ busy' = FALSE
    /\ external' = Append(external, result)
    /\ stream' = [stream EXCEPT ![current] = <<>>]
    /\ UNCHANGED <<approval, runs, events, emitted, ctl, inputs, current, screen, quit, log>>

Finish == /\ Watched(current) /\ stream[current] # <<>>
          /\ Head(stream[current]).kind = "result"
          /\ Return(Head(stream[current]))
          /\ UNCHANGED faults

\* The stream ends early, with an error for the client; the run goes on.
ConnectionLost == Watched(current) /\ Return(Ev("result", current, 0)) /\ Fault

Forward ==
    /\ ctl # <<>> /\ ~quit
    /\ external' = Append(external, Head(ctl))
    /\ ctl' = Tail(ctl)
    /\ UNCHANGED <<approval, serverVars, inputs, current, busy, screen, quit, log, faults>>

-----------------------------------------------------------------------------
(* The terminal *)

User(r) == [what |-> "user", run |-> r, n |-> 0, trace |-> <<>>]
Text(e) == [what |-> "text", run |-> e.run, n |-> e.n, trace |-> <<>>]
Running(e) == [what |-> "call", run |-> e.run, n |-> e.n, trace |-> <<>>]
Completed(e) == [what |-> "call", run |-> e.run, n |-> e.n, trace |-> <<e.run, e.n>>]

Push(row) == [screen EXCEPT !.rows = Append(@, row)]

\* Mutant: what was received before counts for the new input.
SubmitKeeps ==
    /\ inputs < MaxInputs /\ ~quit
    /\ inputs' = inputs + 1
    /\ screen' = [Push(User(inputs + 1)) EXCEPT !.pending = <<>>]
    /\ log' = Append(log, Submitted(inputs + 1))
    /\ UNCHANGED <<approval, serverVars, ctl, current, busy, external, quit, faults>>

\* At any time, also while an earlier input runs.
Submit ==
    /\ inputs < MaxInputs /\ ~quit
    /\ inputs' = inputs + 1
    /\ screen' = [Push(User(inputs + 1)) EXCEPT !.pending = <<>>, !.received = FALSE]
    /\ log' = Append(log, Submitted(inputs + 1))
    /\ UNCHANGED <<approval, serverVars, ctl, current, busy, external, quit, faults>>

\* Mutant: the row that was completed stays pending.
ShownKeeps(e) ==
    CASE e.kind = "text" -> [Push(Text(e)) EXCEPT !.received = TRUE]
      [] e.kind = "begin" -> [Push(Running(e)) EXCEPT !.pending = Append(@, Len(screen.rows) + 1)]
      [] e.kind = "end" /\ screen.pending = <<>> -> Push(Completed(e))
      [] e.kind = "end" /\ screen.pending # <<>> ->
             [screen EXCEPT !.rows[Head(screen.pending)].trace = <<e.run, e.n>>]
      [] e.kind = "result" /\ ~screen.received -> Push(Text(e))
      [] OTHER -> screen

\* handle_harness_event and handle_process_result.
Shown(e) ==
    CASE e.kind = "text" -> [Push(Text(e)) EXCEPT !.received = TRUE]
      [] e.kind = "begin" -> [Push(Running(e)) EXCEPT !.pending = Append(@, Len(screen.rows) + 1)]
      [] e.kind = "end" /\ screen.pending = <<>> -> Push(Completed(e))
      [] e.kind = "end" /\ screen.pending # <<>> ->
             [screen EXCEPT !.rows[Head(screen.pending)].trace = <<e.run, e.n>>,
                            !.pending = Tail(@)]
      [] e.kind = "result" /\ ~screen.received -> Push(Text(e))
      [] OTHER -> screen

\* The terminal itself drops a request for approval; another consumer may decide.  The
\* client sends a decision on, for as long as the call is open.
Consume(e) ==
    IF e.kind = "ask" /\ Watched(e.run)
    THEN \E d \in {"approve", "reject", "dropped"} : runs' = [runs EXCEPT ![e.run].decision = d]
    ELSE UNCHANGED runs

\* Mutant: the newest entry of the queue comes first.
HandleLast ==
    /\ external # <<>> /\ ~quit
    /\ LET e == Last(external) IN
       /\ screen' = Shown(e)
       /\ Consume(e)
       /\ log' = Append(log, e)
    /\ external' = Front(external)
    /\ UNCHANGED <<approval, events, emitted, stream, clientVars, quit, faults>>

Handle ==
    /\ external # <<>> /\ ~quit
    /\ LET e == Head(external) IN
       /\ screen' = Shown(e)
       /\ Consume(e)
       /\ log' = Append(log, e)
    /\ external' = Tail(external)
    /\ UNCHANGED <<approval, events, emitted, stream, clientVars, quit, faults>>

\* The process ends, and with it its connections.
Quit ==
    /\ ~quit /\ Fault
    /\ quit' = TRUE
    /\ UNCHANGED <<approval, serverVars, clientVars, external, screen, log>>

-----------------------------------------------------------------------------
Init == /\ approval \in BOOLEAN
        /\ runs = [r \in Runs |-> [at |-> "off", turn |-> 1, calls |-> 0, decision |-> "none"]]
        /\ events = [r \in Runs |-> <<>>] /\ stream = [r \in Runs |-> <<>>]
        /\ ctl = <<>> /\ external = <<>>
        /\ inputs = 0 /\ current = 0 /\ busy = FALSE
        /\ screen = [rows |-> <<>>, pending |-> <<>>, received |-> FALSE]
        /\ quit = FALSE /\ emitted = [r \in Runs |-> <<>>] /\ log = <<>> /\ faults = 0

Tasks == \/ \E r \in Runs : \/ Answer(r) \/ CallTool(r) \/ Decided(r) \/ ToolAnswers(r)
                            \/ Pump(r) \/ End(r)
         \/ Take \/ Drain \/ Finish \/ Forward \/ Handle

Next == \/ Tasks \/ Submit
        \/ \E r \in Runs : InvokeFails(r)
        \/ ConnectionLost \/ Quit

Spec == Init /\ [][Next]_vars

\* The tasks are never all at rest while one of them could go on.
FairSpec == Spec /\ WF_vars(Tasks)

-----------------------------------------------------------------------------
(* Properties *)

Rows == [what : {"user", "text", "call"}, run : Runs, n : Nat, trace : {<<>>} \cup (Runs \X Nat)]

\* Every variable has its type; no channel holds more than its capacity.
TypeOK ==
    /\ approval \in BOOLEAN
    /\ runs \in [Runs -> [at : {"off", "invoking", "call", "asking", "calling",
                                "result", "error", "over"},
                          turn : 1..MaxTurns, calls : 0..MaxCalls,
                          decision : {"none", "approve", "reject", "dropped"}]]
    /\ \A r \in Runs : /\ emitted[r] \in Seq(Event)
                       /\ events[r] \in Seq(Event) /\ Len(events[r]) <= Capacity
                       /\ stream[r] \in Seq(Event \cup Result) /\ Len(stream[r]) <= Capacity
    /\ ctl \in Seq(Event) /\ Len(ctl) <= Capacity
    /\ external \in Seq(Event \cup Result)
    /\ inputs \in 0..MaxInputs /\ current \in 0..inputs /\ busy \in BOOLEAN
    /\ screen.rows \in Seq(Rows) /\ screen.received \in BOOLEAN
    /\ ToSet(screen.pending) \subseteq DOMAIN screen.rows
    /\ quit \in BOOLEAN /\ faults \in 0..MaxFaults

IsEvent(e) == e.kind \notin {"submit", "result"}

\* The events in q are in the order in which their runs sent them, none of them twice, and
\* none that was sent before another is left out before it.
InOrder(q, sent) ==
    \A k \in DOMAIN q : IsEvent(q[k]) =>
        /\ \E i \in DOMAIN sent[q[k].run] :
              /\ sent[q[k].run][i] = q[k]
              /\ \A h \in 1..(i - 1) : \E j \in 1..(k - 1) : q[j] = sent[q[k].run][h]
        /\ \A j \in 1..(k - 1) : q[j] # q[k]

Coming == external \o ctl

\* The client has the result of the run and did not take this event before.
Never(e) == ~(busy /\ current = e.run) /\ e \notin ToSet(log \o Coming)

\* The i-th row is of a call whose end the terminal does not get: the result was faster, or
\* the connection was lost.
CutOff(i) == /\ screen.rows[i].what = "call"
             /\ Never(Ev("end", screen.rows[i].run, screen.rows[i].n))

\* The terminal sees the events of a run in their order and without a gap, and no event of a
\* run after one of a later run.  The result of a call is shown with the call it belongs to,
\* though a new input forgets which calls are pending: unless the end of this call, or of
\* one that is shown above it and after the input before, was cut off, for then each end
\* goes to a row too high.
RowsMatch ==
    /\ \A r \in Runs : \A i, j \in DOMAIN emitted[r] : emitted[r][i] = emitted[r][j] => i = j
    /\ InOrder(log, emitted)
    /\ \A j, k \in DOMAIN log :
          j < k /\ log[j].run > log[k].run
              => log[j].kind \in {"submit", "result"} /\ log[k].kind # "submit"
    /\ \A i \in DOMAIN screen.rows :
          screen.rows[i].trace \notin {<<>>, <<screen.rows[i].run, screen.rows[i].n>>}
              => \E h \in 1..i : CutOff(h) /\ \A k \in h..i : screen.rows[k].what # "user"

\* When a result is there, the answer is on the screen or on its way to it.  It is missing
\* only if no event brings it (an error, an answer without text, or one whose event was cut
\* off), and a text came since the last input: of an earlier turn, or of the run before.
AnswerShown ==
    \A k \in DOMAIN log : log[k].kind = "result" =>
        LET answer == Ev("text", log[k].run, log[k].n) IN
        \/ Text(answer) \in ToSet(screen.rows)
        \/ answer \in ToSet(Coming)
        \/ /\ Never(answer)
           /\ \E j \in 1..(k - 1) : /\ log[j].kind = "text"
                                    /\ \A i \in j..k : log[i].kind # "submit"

\* The screen shows what happened.
ScreenTrue == RowsMatch /\ AnswerShown

\* Nobody is left who could decide.
Abandoned(r) ==
    /\ runs[r].at = "asking"
    /\ runs[r].decision = "dropped" \/ (runs[r].decision = "none" /\ ~Watched(r))

\* Every run ends at the service, though its client may be gone, and every input gets its
\* result at the terminal, though channels fill and inputs queue up: unless this run, or the
\* one that the worker is busy with, waits for the approval of somebody who hung up.
RunsEnd ==
    \A r \in Runs :
        inputs >= r ~> \/ \E q \in 1..r : Abandoned(q) /\ (q = r \/ Watched(q))
                       \/ /\ runs[r].at = "over" \/ (quit /\ runs[r].at = "off")
                          /\ quit \/ \E n \in 0..MaxTurns : Ev("result", r, n) \in ToSet(log)
===============================================================================
