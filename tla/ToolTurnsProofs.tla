---------------------------- MODULE ToolTurnsProofs ----------------------------
(***************************************************************************)
(* Theorems about ToolTurns, for all lists of calls and any number of      *)
(* runs, turns and faults.                                                 *)
(*                                                                         *)
(* The inductive invariant follows three things: what a node of each type  *)
(* stands on (NodesOK), how far each run is in its calls and what is left  *)
(* of them (RunsOK), and, without faults, the one place that holds an      *)
(* invoke (Quiet).  As long as a run took its own completions, its chain   *)
(* and its calls only go forward, so that nothing is recorded twice (Once).*)
(***************************************************************************)
EXTENDS ToolTurns, FiniteSetTheorems, SequenceTheorems, TLAPS
-----------------------------------------------------------------------------
(* Sequences *)

\* Elements of a sequence of S are in S.
LEMMA SeqElement ==
    ASSUME NEW S, NEW q \in Seq(S)
    PROVE  /\ \A i \in DOMAIN q : q[i] \in S
           /\ DOMAIN q = 1..Len(q)
           /\ Len(q) \in Nat
  BY LenProperties

\* Appending keeps every element where it is and adds one at the end.
LEMMA SeqAppend ==
    ASSUME NEW S, NEW q \in Seq(S), NEW x \in S
    PROVE  /\ Append(q, x) \in Seq(S)
           /\ Len(Append(q, x)) = Len(q) + 1
           /\ DOMAIN Append(q, x) = DOMAIN q \cup {Len(q) + 1}
           /\ \A i \in DOMAIN q : Append(q, x)[i] = q[i]
           /\ Append(q, x)[Len(q) + 1] = x
  BY AppendProperties, LenProperties

\* Changing one element to a value of the same set keeps a sequence of that set.
LEMMA SeqExcept ==
    ASSUME NEW S, NEW q \in Seq(S), NEW i, NEW x, i \in DOMAIN q => x \in S
    PROVE  /\ [q EXCEPT ![i] = x] \in Seq(S)
           /\ Len([q EXCEPT ![i] = x]) = Len(q)
           /\ DOMAIN [q EXCEPT ![i] = x] = DOMAIN q
           /\ \A j \in DOMAIN q : [q EXCEPT ![i] = x][j] = IF j = i THEN x ELSE q[j]
  <1>1. DOMAIN q = 1..Len(q) /\ q \in [1..Len(q) -> S] /\ Len(q) \in Nat
    BY LenProperties
  <1>2. CASE i \in DOMAIN q
    BY <1>1, <1>2, ExceptSeq
  <1>3. CASE i \notin DOMAIN q
    <2>1. [q EXCEPT ![i] = x] = q
      BY <1>1, <1>3
    <2> QED BY <1>1, <1>3, <2>1
  <1> QED BY <1>2, <1>3

\* A sequence of S is one of every set that S is part of.
LEMMA SeqWiden == ASSUME NEW S, NEW T, S \subseteq T, NEW q \in Seq(S) PROVE q \in Seq(T)
  <1>1. q \in [1..Len(q) -> S] /\ Len(q) \in Nat
    BY LenProperties
  <1>2. q \in [1..Len(q) -> T]
    BY <1>1
  <1> QED BY <1>1, <1>2, SeqDef

\* A sequence that keeps the elements of another.
Continues(r, q) == DOMAIN q \subseteq DOMAIN r /\ \A i \in DOMAIN q : r[i] = q[i]

LEMMA AppendContinues ==
    ASSUME NEW S, NEW q \in Seq(S), NEW x \in S
    PROVE  Continues(Append(q, x), q)
  BY SeqAppend DEF Continues

LEMMA SelfContinues == ASSUME NEW q PROVE Continues(q, q)
  BY DEF Continues

-----------------------------------------------------------------------------
(* The inductive invariant *)

Is(n, type, r) == n \in DOMAIN dag /\ dag[n].type = type /\ dag[n].run = r

\* What a node follows.  Only the invoke of a run goes on from a node of another, and only
\* completions stand under an invoke of their run.
InvokeOK(n) == dag[n].type = "invoke" => ~Is(dag[n].parent, "invoke", dag[n].run)
CompleteOK(n) == dag[n].type = "complete" =>
    /\ Is(dag[n].of[1], "invoke", dag[n].run) /\ dag[n].of[1] < n
    /\ dag[n].parent \in {0, dag[n].of[1]}
RequestOK(n) == dag[n].type = "request" =>
    /\ Is(dag[n].of[1], "complete", dag[n].run)
    /\ dag[n].parent # 0 /\ dag[dag[n].parent].run = dag[n].run
    /\ dag[dag[n].parent].type # "invoke"
ResponseOK(n) == dag[n].type = "response" =>
    /\ Is(dag[n].parent, "request", dag[n].run)
    /\ \A m \in (dag[n].parent + 1)..(n - 1) : dag[m].run = dag[n].run => dag[m].type = "complete"
NodeOK(n) == /\ dag[n].run \in DOMAIN runs /\ dag[n].parent \in 0..(n - 1) /\ dag[n].told \in 0..n
             /\ InvokeOK(n) /\ CompleteOK(n) /\ RequestOK(n) /\ ResponseOK(n)
NodesOK == \A n \in DOMAIN dag : NodeOK(n)

\* What a message carries, and what the processes took.
MessageOK(i) == IF log[i].kind = "response"
                THEN log[i].node = 0 /\ \E r \in DOMAIN runs : Is(log[i].request, "request", r)
                ELSE Is(log[i].node, log[i].kind, log[i].run)
MessagesOK == \A i \in DOMAIN log : MessageOK(i)
ProcessesOK == /\ Busy(sidecar) => \E r \in DOMAIN runs : Is(sidecar.node, "invoke", r)
               /\ Busy(worker) => \E r \in DOMAIN runs : Is(worker.node, "request", r)

\* Where a run stands; between a completion with tool calls and its next turn it is in calls.
InCalls(r) == runs[r].at \in {"calling", "requested", "delegating"}
RunOK(r) ==
    /\ runs[r].turn <= Len(jobs) + 1
    /\ runs[r].at \notin {"invoking", "failed"} => runs[r].turn <= Len(jobs)
    /\ runs[r].answer # 0 => Is(runs[r].answer, "complete", r)
    /\ runs[r].invoke # 0 => Is(runs[r].invoke, "invoke", r)
    /\ ~Is(runs[r].head, "invoke", r)
    /\ runs[r].at = "awaiting" => runs[r].invoke # 0
    /\ runs[r].turn > 1 => runs[r].answer # 0
    /\ InCalls(r) => /\ runs[r].answer # 0 /\ runs[r].next \in 1..Len(Calls(r))
                     /\ runs[r].head # 0 /\ dag[runs[r].head].run = r
    /\ runs[r].at = "requested" =>
           /\ Is(runs[r].head, "request", r)
           /\ dag[runs[r].head].of = <<runs[r].answer, runs[r].next>>
           /\ \A m \in (runs[r].head + 1)..Len(dag) : dag[m].run = r => dag[m].type = "complete"
    /\ runs[r].at = "delegating" => Calls(r)[runs[r].next] = "delegate"

\* The calls that are over have their answers, unless one came too late.
Over(r, k) == \/ InCalls(r) /\ k < runs[r].next
              \/ runs[r].at \in {"invoking", "awaiting"} /\ runs[r].turn > 1
Answered(a, k) == \E n \in DOMAIN dag :
                      dag[n].type = "response" /\ dag[dag[n].parent].of = <<a, k>>
CallsOK(r) == \A a, k \in Nat :
                  /\ a # 0 /\ a = runs[r].answer /\ ~runs[r].late /\ Over(r, k)
                  /\ k \in DOMAIN dag[a].calls /\ dag[a].calls[k] = "tool"
                  => Answered(a, k)

\* While a run has taken its own completions, its chain and its calls only go forward.
Front(r) == IF runs[r].at = "awaiting" THEN runs[r].invoke ELSE runs[r].head
Past(n, r) == \/ dag[n].of[1] < runs[r].answer
              \/ /\ dag[n].of[1] = runs[r].answer /\ dag[n].of[2] <= runs[r].next
                 /\ runs[r].at = "calling" => dag[n].of[2] # runs[r].next
OwnOK(r) ==
    runs[r].own =>
        /\ runs[r].at = "awaiting" => runs[r].answer < runs[r].invoke /\ runs[r].head < runs[r].invoke
        /\ \A n \in DOMAIN dag : dag[n].run = r =>
               /\ /\ dag[n].type \in {"request", "invoke"} /\ Sent(n)
                  /\ runs[r].at \notin {"done", "failed"}
                  => dag[n].parent < Front(r)
               /\ dag[n].type = "request" => Past(n, r)
               /\ dag[n].type = "response" => dag[n].parent < runs[r].head

RunsOK == \A r \in DOMAIN runs : RunOK(r) /\ CallsOK(r) /\ OwnOK(r)

\* So no call is requested twice and no request answered twice, and no node stands beside
\* one that was sent.
Own(n) == runs[dag[n].run].own
Apart(n, m) ==
    Own(n) /\ dag[m].run = dag[n].run /\ n < m =>
        /\ dag[n].type = "request" /\ dag[m].type = "request" => dag[n].of # dag[m].of
        /\ dag[n].type = "response" /\ dag[m].type = "response" => dag[n].parent # dag[m].parent
        /\ dag[n].type \in {"request", "invoke"} /\ dag[n].parent # 0 /\ Sent(n)
               => dag[m].parent # dag[n].parent
Once == \A n, m \in DOMAIN dag : Apart(n, m)

\* Without faults an invoke is in one place until its run has taken the completion: unseen in
\* the stream, with the sidecar, or completed and unseen.
Holds(r, place, i) ==
    \/ /\ place = "sent" /\ i \in DOMAIN log /\ i > consumers[Invokes].seen
       /\ log[i].kind = "invoke" /\ log[i].run = r
    \/ /\ place = "busy" /\ i = 0
       /\ Busy(sidecar) /\ dag[sidecar.node].run = r
    \/ /\ place = "answered" /\ i \in DOMAIN log /\ i > consumers[Completes(r)].seen
       /\ log[i].kind = "complete" /\ log[i].run = r
InvokeAt(place, i) == CASE place = "sent" -> log[i].node
                        [] place = "busy" -> sidecar.node
                        [] place = "answered" -> dag[log[i].node].of[1]
Places == {"sent", "busy", "answered"}
HeldOK(r) == \A p \in Places, i \in Nat : Holds(r, p, i) =>
                 /\ runs[r].at = "awaiting" /\ InvokeAt(p, i) = runs[r].invoke
                 /\ \A q \in Places, j \in Nat : Holds(r, q, j) => q = p /\ j = i
Quiet == faults = 0 => /\ \A c \in Consumers : consumers[c].owed = {}
                       /\ \A r \in DOMAIN runs : runs[r].own /\ HeldOK(r)

Bounds == Len(runs) <= MaxRuns /\ Len(jobs) <= MaxTurns

IInv == /\ TypeOK /\ Bounds /\ NodesOK /\ MessagesOK /\ ProcessesOK /\ RunsOK /\ Once /\ Quiet

-----------------------------------------------------------------------------
(* Types *)

Ats == {"invoking", "awaiting", "calling", "requested", "delegating", "done", "failed"}
Kinds == {"invoke", "complete", "request", "response"}
MessageRecord == [kind : Kinds, run : 1..Len(runs), node : 0..Len(dag), request : 0..Len(dag)]
ConsumerRecord == [made : BOOLEAN, seen : 0..Len(log), owed : SUBSET (1..Len(log))]
RunRecord == [by : 0..Len(runs), head : 0..Len(dag), state : 0..Len(dag), at : Ats,
              turn : 1..(MaxTurns + 1), invoke : 0..Len(dag), answer : 0..Len(dag),
              next : Nat, job : 0..Len(jobs), own : BOOLEAN, late : BOOLEAN]
JobRecord == [run : 1..Len(runs), status : {"Running", "Completed"}]

LEMMA TypeParts ==
    ASSUME TypeOK
    PROVE  /\ log \in Seq(MessageRecord) /\ consumers \in [Consumers -> ConsumerRecord]
           /\ runs \in Seq(RunRecord) /\ jobs \in Seq(JobRecord) /\ dag \in Seq(Node)
           /\ sidecar \in ProcessOK /\ worker \in ProcessOK /\ faults \in 0..MaxFaults
  BY DEF TypeOK, MessageRecord, ConsumerRecord, RunRecord, JobRecord, Ats, Kinds

LEMMA TypePartsNext ==
    ASSUME log' \in Seq(MessageRecord'), consumers' \in [Consumers -> ConsumerRecord'],
           runs' \in Seq(RunRecord'), jobs' \in Seq(JobRecord'), dag' \in Seq(Node),
           sidecar' \in ProcessOK', worker' \in ProcessOK', faults' \in 0..MaxFaults
    PROVE  TypeOK'
  BY DEF TypeOK, MessageRecord, ConsumerRecord, RunRecord, JobRecord, Ats, Kinds

LEMMA Lengths ==
    ASSUME TypeOK
    PROVE  /\ Len(log) \in Nat /\ Len(runs) \in Nat /\ Len(dag) \in Nat /\ Len(jobs) \in Nat
           /\ DOMAIN log = 1..Len(log) /\ DOMAIN runs = 1..Len(runs)
           /\ DOMAIN dag = 1..Len(dag) /\ DOMAIN jobs = 1..Len(jobs)
           /\ MaxRuns \in Nat /\ MaxTurns \in Nat /\ MaxFaults \in Nat
  BY TypeParts, SeqElement, ToolTurnsConstants

LEMMA RunType ==
    ASSUME TypeOK, NEW r \in DOMAIN runs
    PROVE  /\ runs[r] \in RunRecord /\ r \in Nat /\ r # 0
           /\ runs[r].by \in 0..Len(runs) /\ runs[r].head \in 0..Len(dag)
           /\ runs[r].state \in 0..Len(dag) /\ runs[r].at \in Ats
           /\ runs[r].turn \in 1..(MaxTurns + 1) /\ runs[r].invoke \in 0..Len(dag)
           /\ runs[r].answer \in 0..Len(dag) /\ runs[r].next \in Nat
           /\ runs[r].job \in 0..Len(jobs) /\ runs[r].own \in BOOLEAN
           /\ runs[r].late \in BOOLEAN
  <1>1. runs[r] \in RunRecord /\ r \in 1..Len(runs) /\ Len(runs) \in Nat
    BY TypeParts, SeqElement
  <1> QED BY <1>1 DEF RunRecord

LEMMA CallListType ==
    ASSUME NEW calls \in CallLists \cup {NoCalls}
    PROVE  /\ calls \in Seq({"tool", "delegate"}) /\ Len(calls) \in Nat
           /\ DOMAIN calls = 1..Len(calls)
           /\ calls # NoCalls => Len(calls) >= 1
           /\ \A k \in DOMAIN calls : calls[k] \in {"tool", "delegate"}
  <1>1. calls \in Seq({"tool", "delegate"})
    BY ToolTurnsConstants, EmptySeq DEF NoCalls
  <1>2. Len(calls) \in Nat /\ DOMAIN calls = 1..Len(calls)
        /\ \A k \in DOMAIN calls : calls[k] \in {"tool", "delegate"}
    BY <1>1, SeqElement
  <1>3. calls # NoCalls => Len(calls) # 0
    BY <1>1, EmptySeq DEF NoCalls
  <1> QED BY <1>1, <1>2, <1>3

LEMMA NodeType ==
    ASSUME TypeOK, NEW n \in DOMAIN dag
    PROVE  /\ dag[n] \in Node /\ n \in 1..Len(dag) /\ dag[n].type \in Kinds
           /\ dag[n].parent \in Nat /\ dag[n].run \in Nat /\ dag[n].of \in Nat \X Nat
           /\ dag[n].of[1] \in Nat /\ dag[n].of[2] \in Nat
           /\ dag[n].calls \in CallLists \cup {NoCalls}
           /\ dag[n].told \in Nat /\ dag[n].state \in Nat
  <1>1. dag[n] \in Node /\ n \in 1..Len(dag)
    BY TypeParts, SeqElement
  <1> QED BY <1>1 DEF Node, Kinds

LEMMA MessageType ==
    ASSUME TypeOK, NEW i \in DOMAIN log
    PROVE  /\ log[i] \in MessageRecord /\ i \in 1..Len(log) /\ log[i].kind \in Kinds
           /\ log[i].run \in DOMAIN runs /\ log[i].node \in 0..Len(dag)
           /\ log[i].request \in 0..Len(dag)
  <1>1. log[i] \in MessageRecord /\ i \in 1..Len(log) /\ DOMAIN runs = 1..Len(runs)
    BY TypeParts, SeqElement
  <1> QED BY <1>1 DEF MessageRecord

\* Nothing that a step of the system counts ever shrinks, and what was recorded stays.
Grows == /\ Len(log)' \in Nat /\ Len(log) <= Len(log)' /\ Len(runs)' \in Nat
         /\ Len(runs) <= Len(runs)' /\ Len(dag)' \in Nat /\ Len(dag) <= Len(dag)'
         /\ Len(jobs)' \in Nat /\ Len(jobs) <= Len(jobs)'

\* So each type of a longer history includes the type before.
LEMMA Widened ==
    ASSUME TypeOK, Grows
    PROVE  /\ RunRecord \subseteq RunRecord' /\ MessageRecord \subseteq MessageRecord'
           /\ ConsumerRecord \subseteq ConsumerRecord' /\ JobRecord \subseteq JobRecord'
           /\ ProcessOK \subseteq ProcessOK'
           /\ runs \in Seq(RunRecord') /\ log \in Seq(MessageRecord')
           /\ jobs \in Seq(JobRecord') /\ consumers \in [Consumers -> ConsumerRecord']
           /\ sidecar \in ProcessOK' /\ worker \in ProcessOK'
  <1>1. /\ 0..Len(runs) \subseteq 0..Len(runs)' /\ 1..Len(runs) \subseteq 1..Len(runs)'
        /\ 0..Len(dag) \subseteq 0..Len(dag)' /\ 0..Len(log) \subseteq 0..Len(log)'
        /\ 1..Len(log) \subseteq 1..Len(log)'
        /\ 0..Len(jobs) \subseteq 0..Len(jobs)'
    BY Lengths DEF Grows
  <1>2. RunRecord \subseteq RunRecord'
    BY <1>1 DEF RunRecord
  <1>3. MessageRecord \subseteq MessageRecord'
    BY <1>1 DEF MessageRecord
  <1>4. ConsumerRecord \subseteq ConsumerRecord'
    BY <1>1 DEF ConsumerRecord
  <1>5. JobRecord \subseteq JobRecord'
    BY <1>1 DEF JobRecord
  <1>6. ProcessOK \subseteq ProcessOK'
    BY <1>1 DEF ProcessOK
  <1>7. runs \in Seq(RunRecord') /\ log \in Seq(MessageRecord') /\ jobs \in Seq(JobRecord')
    BY <1>2, <1>3, <1>5, TypeParts, SeqWiden
  <1>8. consumers \in [Consumers -> ConsumerRecord']
    BY <1>4, TypeParts
  <1> QED BY <1>2, <1>3, <1>4, <1>5, <1>6, <1>7, <1>8, TypeParts

LEMMA LengthsNext ==
    ASSUME TypeOK'
    PROVE  /\ Len(log)' \in Nat /\ Len(runs)' \in Nat /\ Len(dag)' \in Nat /\ Len(jobs)' \in Nat
           /\ DOMAIN log' = 1..Len(log)' /\ DOMAIN runs' = 1..Len(runs)'
           /\ DOMAIN dag' = 1..Len(dag)'
           /\ dag' \in Seq(Node) /\ runs' \in Seq(RunRecord')
  <1>1. log' \in Seq(MessageRecord') /\ runs' \in Seq(RunRecord')
        /\ jobs' \in Seq(JobRecord') /\ dag' \in Seq(Node)
    BY DEF TypeOK, MessageRecord, RunRecord, JobRecord, Ats, Kinds
  <1> QED BY <1>1, SeqElement

LEMMA NodeTypeNext ==
    ASSUME TypeOK', NEW n \in DOMAIN dag'
    PROVE  /\ n \in 1..Len(dag)' /\ dag'[n].type \in Kinds
           /\ dag'[n].parent \in Nat /\ dag'[n].run \in Nat
           /\ dag'[n].of[1] \in Nat /\ dag'[n].of[2] \in Nat /\ dag'[n].of \in Nat \X Nat
           /\ dag'[n].calls \in CallLists \cup {NoCalls} /\ dag'[n].told \in Nat
  <1>1. dag'[n] \in Node /\ n \in 1..Len(dag)'
    BY LengthsNext, SeqElement
  <1> QED BY <1>1 DEF Node, Kinds

-----------------------------------------------------------------------------
(* What a step keeps *)

Keeps == /\ Continues(dag', dag) /\ Continues(log', log) /\ DOMAIN runs \subseteq DOMAIN runs'
         /\ Len(jobs) <= Len(jobs)'
         /\ \A i \in DOMAIN log' \ DOMAIN log : log'[i].node \notin DOMAIN dag

LEMMA SentKept ==
    ASSUME TypeOK, TypeOK', Keeps, NEW n \in DOMAIN dag
    PROVE  Sent(n)' <=> Sent(n)
  BY Lengths, LengthsNext DEF Sent, Keeps, Continues

LEMMA NodeKept ==
    ASSUME TypeOK, NodesOK, TypeOK', Keeps, NEW n \in DOMAIN dag
    PROVE  NodeOK(n)'
  <1>1. NodeOK(n) /\ n \in DOMAIN dag' /\ dag'[n] = dag[n] /\ n \in 1..Len(dag)
    BY NodeType DEF NodesOK, Keeps, Continues
  <1>2. \A m \in DOMAIN dag : m \in DOMAIN dag' /\ dag'[m] = dag[m]
    BY DEF Keeps, Continues
  <1>3. DOMAIN dag = 1..Len(dag) /\ DOMAIN dag' = 1..Len(dag)' /\ Len(dag) \in Nat
        /\ DOMAIN runs \subseteq DOMAIN runs' /\ Len(dag)' \in Nat
    BY Lengths, LengthsNext DEF Keeps
  <1>4. /\ dag[n].run \in DOMAIN runs' /\ dag[n].parent \in 0..(n - 1)
        /\ dag[n].told \in 0..n
    BY <1>1, <1>3 DEF NodeOK
  <1>5. InvokeOK(n)'
    BY <1>1, <1>2, <1>3, <1>4 DEF NodeOK, InvokeOK, Is
  <1>6. CompleteOK(n)'
    BY <1>1, <1>2, <1>3, <1>4 DEF NodeOK, CompleteOK, Is
  <1>7. RequestOK(n)'
    BY <1>1, <1>2, <1>3, <1>4 DEF NodeOK, RequestOK, Is
  <1>8. ResponseOK(n)'
    <2> SUFFICES ASSUME dag[n].type = "response" PROVE ResponseOK(n)'
      BY <1>1 DEF ResponseOK
    <2>1. Is(dag[n].parent, "request", dag[n].run)
          /\ \A m \in (dag[n].parent + 1)..(n - 1) : dag[m].run = dag[n].run
                                                     => dag[m].type = "complete"
      BY <1>1 DEF NodeOK, ResponseOK
    <2>2. \A m \in (dag[n].parent + 1)..(n - 1) : m \in DOMAIN dag
      BY <1>1, <1>3, <1>4
    <2>3. Is(dag[n].parent, "request", dag[n].run)'
      BY <1>1, <1>2, <2>1 DEF Is
    <2> QED BY <1>1, <1>2, <2>1, <2>2, <2>3 DEF ResponseOK, Is
  <1> QED BY <1>1, <1>4, <1>5, <1>6, <1>7, <1>8 DEF NodeOK

LEMMA MessageKept ==
    ASSUME TypeOK, MessagesOK, TypeOK', Keeps, NEW i \in DOMAIN log
    PROVE  MessageOK(i)'
  <1>1. MessageOK(i) /\ i \in DOMAIN log' /\ log'[i] = log[i]
    BY DEF MessagesOK, Keeps, Continues
  <1>2. \A m \in DOMAIN dag : m \in DOMAIN dag' /\ dag'[m] = dag[m]
    BY DEF Keeps, Continues
  <1> QED BY <1>1, <1>2 DEF MessageOK, Is, Keeps

LEMMA AnsweredKept ==
    ASSUME TypeOK, NodesOK, Keeps, NEW a, NEW k, Answered(a, k)
    PROVE  Answered(a, k)'
  <1>1. PICK n \in DOMAIN dag : dag[n].type = "response" /\ dag[dag[n].parent].of = <<a, k>>
    BY DEF Answered
  <1>2. dag[n].parent \in DOMAIN dag
    BY <1>1 DEF NodesOK, NodeOK, ResponseOK, Is
  <1> QED BY <1>1, <1>2 DEF Answered, Keeps, Continues

\* A run that does not move, while nothing but completions is recorded for it.
Unmoved(r) == /\ runs'[r] = runs[r]
              /\ \A n \in DOMAIN dag' \ DOMAIN dag : dag'[n].run = r => dag'[n].type = "complete"

LEMMA RunKept ==
    ASSUME TypeOK, NodesOK, TypeOK', Keeps, NEW r \in DOMAIN runs, RunOK(r), Unmoved(r)
    PROVE  RunOK(r)'
  <1>1. DOMAIN dag = 1..Len(dag) /\ DOMAIN dag' = 1..Len(dag)' /\ Len(dag) \in Nat
        /\ Len(dag)' \in Nat /\ Len(jobs) \in Nat /\ Len(jobs)' \in Nat
    BY Lengths, LengthsNext
  <1>2. \A m \in DOMAIN dag : m \in DOMAIN dag' /\ dag'[m] = dag[m]
    BY DEF Keeps, Continues
  <1>3. runs[r].turn \in Nat /\ runs[r].answer \in 0..Len(dag) /\ runs[r].head \in 0..Len(dag)
        /\ runs[r].invoke \in 0..Len(dag)
    BY RunType, Lengths
  <1>4. runs'[r] = runs[r] /\ Len(jobs) <= Len(jobs)'
    BY DEF Unmoved, Keeps
  <1>5. /\ runs[r].turn <= Len(jobs)' + 1
        /\ runs[r].at \notin {"invoking", "failed"} => runs[r].turn <= Len(jobs)'
    BY <1>1, <1>3, <1>4 DEF RunOK
  <1>6. /\ (runs[r].answer # 0 => Is(runs[r].answer, "complete", r))'
        /\ (runs[r].invoke # 0 => Is(runs[r].invoke, "invoke", r))'
        /\ (~Is(runs[r].head, "invoke", r))'
    BY <1>1, <1>2, <1>3, <1>4 DEF RunOK, Is
  <1>7. (InCalls(r) => /\ runs[r].answer # 0 /\ runs[r].next \in 1..Len(Calls(r))
                       /\ runs[r].head # 0 /\ dag[runs[r].head].run = r)'
    BY <1>1, <1>2, <1>3, <1>4 DEF RunOK, InCalls, Calls
  <1>8. (runs[r].at = "requested" =>
           /\ Is(runs[r].head, "request", r)
           /\ dag[runs[r].head].of = <<runs[r].answer, runs[r].next>>
           /\ \A m \in (runs[r].head + 1)..Len(dag) : dag[m].run = r => dag[m].type = "complete")'
    <2> SUFFICES ASSUME runs[r].at = "requested"
                 PROVE  (/\ Is(runs[r].head, "request", r)
                         /\ dag[runs[r].head].of = <<runs[r].answer, runs[r].next>>
                         /\ \A m \in (runs[r].head + 1)..Len(dag) :
                                dag[m].run = r => dag[m].type = "complete")'
      BY <1>4
    <2>1. /\ Is(runs[r].head, "request", r)
          /\ dag[runs[r].head].of = <<runs[r].answer, runs[r].next>>
          /\ \A m \in (runs[r].head + 1)..Len(dag) : dag[m].run = r => dag[m].type = "complete"
      BY DEF RunOK
    <2>2. Is(runs[r].head, "request", r)' /\ dag'[runs'[r].head] = dag[runs[r].head]
      BY <1>2, <1>4, <2>1 DEF Is
    <2>3. ASSUME NEW m \in (runs[r].head + 1)..Len(dag)', dag'[m].run = r
          PROVE  dag'[m].type = "complete"
      <3>1. CASE m \in DOMAIN dag
        BY <1>1, <1>2, <1>3, <2>1, <2>3, <3>1
      <3>2. CASE m \notin DOMAIN dag
        BY <1>1, <1>3, <2>3, <3>2 DEF Unmoved
      <3> QED BY <3>1, <3>2
    <2> QED BY <1>4, <2>1, <2>2, <2>3
  <1>9. (runs[r].at = "delegating" => Calls(r)[runs[r].next] = "delegate")'
    BY <1>1, <1>2, <1>3, <1>4 DEF RunOK, InCalls, Calls
  <1> QED BY <1>4, <1>5, <1>6, <1>7, <1>8, <1>9 DEF RunOK

LEMMA CallsKept ==
    ASSUME TypeOK, NodesOK, TypeOK', Keeps, NEW r \in DOMAIN runs, CallsOK(r), Unmoved(r)
    PROVE  CallsOK(r)'
  <1> SUFFICES ASSUME NEW a \in Nat, NEW k \in Nat, a # 0, a = runs[r].answer, ~runs[r].late,
                      Over(r, k)', k \in DOMAIN dag'[a].calls, dag'[a].calls[k] = "tool"
               PROVE  Answered(a, k)'
    BY DEF CallsOK, Unmoved
  <1>1. a \in DOMAIN dag /\ dag'[a] = dag[a]
    BY RunType, Lengths DEF Keeps, Continues
  <1>2. Over(r, k)
    BY DEF Over, InCalls, Unmoved
  <1> QED BY <1>1, <1>2, AnsweredKept DEF CallsOK

LEMMA OwnKept ==
    ASSUME TypeOK, NodesOK, TypeOK', Keeps, NEW r \in DOMAIN runs, OwnOK(r), Unmoved(r)
    PROVE  OwnOK(r)'
  <1>1. \A n \in DOMAIN dag : /\ n \in DOMAIN dag' /\ dag'[n] = dag[n]
                              /\ Sent(n)' <=> Sent(n)
    BY SentKept DEF Keeps, Continues
  <1>2. \A n \in DOMAIN dag' : dag'[n].run = r => n \in DOMAIN dag \/ dag'[n].type = "complete"
    BY DEF Unmoved
  <1>3. runs'[r] = runs[r]
    BY DEF Unmoved
  <1> QED BY <1>1, <1>2, <1>3 DEF OwnOK, Front, Past

\* The parts of the invariant that nodes, messages and runs have to themselves: a step that
\* moves run r at most, begins run e at most, and adds what fits, keeps them.
LEMMA Kept ==
    ASSUME IInv, TypeOK', Keeps, NEW r, NEW e,
           \A q \in DOMAIN runs' : q \in DOMAIN runs \/ q = e,
           \A q \in DOMAIN runs \ {r, e} : Unmoved(q),
           \A n \in DOMAIN dag' \ DOMAIN dag : NodeOK(n)',
           \A i \in DOMAIN log' \ DOMAIN log : MessageOK(i)',
           \A q \in DOMAIN runs' : q \in {r, e} => RunOK(q)' /\ CallsOK(q)' /\ OwnOK(q)'
    PROVE  NodesOK' /\ MessagesOK' /\ RunsOK'
  <1>1. NodesOK'
    BY NodeKept DEF NodesOK, IInv
  <1>2. MessagesOK'
    BY MessageKept DEF MessagesOK, IInv
  <1>3. ASSUME NEW q \in DOMAIN runs' PROVE RunOK(q)' /\ CallsOK(q)' /\ OwnOK(q)'
    <2>1. CASE q \in {r, e}
      BY <2>1
    <2>2. CASE q \notin {r, e}
      <3>1. q \in DOMAIN runs /\ Unmoved(q)
        BY <2>2
      <3>2. RunOK(q) /\ CallsOK(q) /\ OwnOK(q)
        BY <3>1 DEF IInv, RunsOK
      <3> QED BY <3>1, <3>2, RunKept, CallsKept, OwnKept DEF IInv
    <2> QED BY <2>1, <2>2
  <1>4. RunsOK'
    BY <1>3 DEF RunsOK
  <1> QED BY <1>1, <1>2, <1>4

LEMMA ProcessesKept ==
    ASSUME IInv, TypeOK', Keeps, UNCHANGED <<sidecar, worker>>
    PROVE  ProcessesOK'
  <1>1. \A n, type, r : Is(n, type, r) => Is(n, type, r)'
    BY DEF Is, Keeps, Continues
  <1>2. DOMAIN runs \subseteq DOMAIN runs' /\ ProcessesOK
    BY DEF Keeps, IInv
  <1> QED BY <1>1, <1>2 DEF ProcessesOK, Busy, Is

\* No run takes its own completions again after it took another's.
OwnStays == \A q \in DOMAIN runs : runs'[q].own => runs[q].own

LEMMA ApartKept ==
    ASSUME IInv, TypeOK', Keeps, OwnStays, NEW n \in DOMAIN dag, NEW m \in DOMAIN dag
    PROVE  Apart(n, m)'
  <1>1. Apart(n, m) /\ dag[n].run \in DOMAIN runs
    BY DEF IInv, Once, NodesOK, NodeOK
  <1>2. /\ n \in DOMAIN dag' /\ dag'[n] = dag[n] /\ m \in DOMAIN dag' /\ dag'[m] = dag[m]
        /\ Sent(n)' <=> Sent(n)
    BY SentKept DEF IInv, Keeps, Continues
  <1> QED BY <1>1, <1>2 DEF Apart, Own, OwnStays

LEMMA OnceKept ==
    ASSUME IInv, TypeOK', Keeps, OwnStays, dag' = dag
    PROVE  Once'
  BY ApartKept DEF Once

\* One more node, which has to be apart from those before it.
LEMMA OnceMore ==
    ASSUME IInv, TypeOK', Keeps, OwnStays, NEW last, last = Len(dag) + 1, Len(dag)' = last,
           \A n \in DOMAIN dag : Apart(n, last)'
    PROVE  Once'
  <1>1. DOMAIN dag = 1..Len(dag) /\ DOMAIN dag' = 1..last /\ Len(dag) \in Nat
    BY Lengths, LengthsNext DEF IInv
  <1>2. ASSUME NEW n \in DOMAIN dag', NEW m \in DOMAIN dag' PROVE Apart(n, m)'
    <2>1. CASE n \in DOMAIN dag /\ m \in DOMAIN dag
      BY <2>1, ApartKept
    <2>2. CASE n \in DOMAIN dag /\ m \notin DOMAIN dag
      BY <1>1, <2>2
    <2>3. CASE n \notin DOMAIN dag
      <3>1. ~(n < m)
        BY <1>1, <2>3
      <3> QED BY <3>1 DEF Apart
    <2> QED BY <2>1, <2>2, <2>3
  <1> QED BY <1>2 DEF Once

LEMMA ConsumerType ==
    ASSUME TypeOK, NEW c \in Consumers
    PROVE  consumers[c] \in ConsumerRecord /\ consumers[c].seen \in 0..Len(log)
           /\ consumers[c].owed \subseteq 1..Len(log)
  BY TypeParts DEF ConsumerRecord

LEMMA RunConsumers ==
    ASSUME IInv, NEW r \in DOMAIN runs
    PROVE  /\ Invokes \in Consumers /\ Completes(r) \in Consumers /\ Requests \in Consumers
           /\ consumers[Invokes].seen \in Nat /\ consumers[Completes(r)].seen \in Nat
  <1>1. Invokes \in Consumers /\ Completes(r) \in Consumers /\ Requests \in Consumers
    BY Lengths DEF IInv, Bounds, Consumers, Completes
  <1> QED BY <1>1, ConsumerType, Lengths DEF IInv

\* What held an invoke after a step held it before, unless the step put it there.
LEMMA HoldsOld ==
    ASSUME IInv, Continues(dag', dag), Continues(log', log), NEW r \in DOMAIN runs,
           NEW place \in Places, NEW i \in Nat, Holds(r, place, i)',
           place = "busy" => sidecar' = sidecar, place # "busy" => i \in DOMAIN log,
           NEW s \in Nat, s = consumers'[Invokes].seen, consumers[Invokes].seen <= s,
           NEW t \in Nat, t = consumers'[Completes(r)].seen, consumers[Completes(r)].seen <= t
    PROVE  Holds(r, place, i) /\ InvokeAt(place, i)' = InvokeAt(place, i)
  <1>1. consumers[Invokes].seen \in Nat /\ consumers[Completes(r)].seen \in Nat
    BY RunConsumers
  <1>2. CASE place = "sent"
    <2>1. i \in DOMAIN log /\ log'[i] = log[i] /\ i > s
      BY <1>2 DEF Holds, Continues
    <2> QED BY <1>1, <1>2, <2>1 DEF Holds, InvokeAt
  <1>3. CASE place = "busy"
    <2>1. i = 0 /\ Busy(sidecar) /\ dag'[sidecar.node].run = r
      BY <1>3 DEF Holds, Busy
    <2>2. dag'[sidecar.node] = dag[sidecar.node]
      BY <2>1 DEF IInv, ProcessesOK, Is, Continues
    <2> QED BY <1>3, <2>1, <2>2 DEF Holds, InvokeAt
  <1>4. CASE place = "answered"
    <2>1. i \in DOMAIN log /\ log'[i] = log[i] /\ log[i].kind = "complete" /\ i > t
      BY <1>4 DEF Holds, Continues
    <2>2. log[i].node \in DOMAIN dag
      BY <2>1 DEF IInv, MessagesOK, MessageOK, Is
    <2>3. dag'[log[i].node] = dag[log[i].node]
      BY <2>2 DEF Continues
    <2> QED BY <1>1, <1>4, <2>1, <2>3 DEF Holds, InvokeAt
  <1> QED BY <1>2, <1>3, <1>4 DEF Places

\* What holds an invoke stays where it is, as long as a step neither sends nor takes one.
Holding == /\ Continues(dag', dag) /\ Continues(log', log)
           /\ \A i \in DOMAIN log' \ DOMAIN log : log'[i].kind \notin {"invoke", "complete"}
           /\ \A c \in Consumers : c.kind # "request" => consumers'[c] = consumers[c]
           /\ sidecar' = sidecar

LEMMA HoldsKept ==
    ASSUME IInv, Holding, NEW r \in DOMAIN runs, NEW place \in Places, NEW i \in Nat,
           Holds(r, place, i)'
    PROVE  Holds(r, place, i) /\ InvokeAt(place, i)' = InvokeAt(place, i)
  <1>1. consumers'[Invokes] = consumers[Invokes] /\ consumers'[Completes(r)] = consumers[Completes(r)]
    BY RunConsumers DEF Holding, Invokes, Completes
  <1>2. place # "busy" => i \in DOMAIN log
    BY DEF Holds, Holding, Continues, Places
  <1>3. PICK s, t : s = consumers'[Invokes].seen /\ t = consumers'[Completes(r)].seen
    OBVIOUS
  <1>4. s \in Nat /\ t \in Nat /\ consumers[Invokes].seen <= s /\ consumers[Completes(r)].seen <= t
    BY <1>1, <1>3, RunConsumers
  <1> QED BY <1>2, <1>3, <1>4, HoldsOld DEF Holding

\* Nothing holds an invoke of a run that does not exist yet.
LEMMA NoneHeld ==
    ASSUME IInv, Holding, NEW r, r \notin DOMAIN runs, NEW place, NEW i
    PROVE  ~Holds(r, place, i)'
  <1>1. \A j \in DOMAIN log' : log'[j].kind \in {"invoke", "complete"} => log'[j].run \in DOMAIN runs
    BY MessageType DEF IInv, Holding, Continues
  <1>2. Busy(sidecar) => dag'[sidecar.node].run \in DOMAIN runs
    BY DEF IInv, ProcessesOK, Is, Holding, Continues
  <1> QED BY <1>1, <1>2 DEF Holds, Holding

\* Runs that move while nothing holds their invoke keep the peace.
LEMMA QuietKept ==
    ASSUME IInv, TypeOK', Holding, faults' = 0 => faults = 0,
           faults' = 0 => \A c \in Consumers : consumers'[c].owed = {},
           \A q \in DOMAIN runs : \/ runs'[q] = runs[q]
                                  \/ runs[q].at # "awaiting" /\ runs'[q].own = runs[q].own,
           \A q \in DOMAIN runs' \ DOMAIN runs : runs'[q].own
    PROVE  Quiet'
  <1> SUFFICES ASSUME faults' = 0, NEW r \in DOMAIN runs' PROVE runs'[r].own /\ HeldOK(r)'
    BY DEF Quiet
  <1>1. CASE r \notin DOMAIN runs
    BY <1>1, NoneHeld DEF HeldOK
  <1>2. CASE r \in DOMAIN runs
    <2>1. runs[r].own /\ HeldOK(r)
      BY <1>2 DEF IInv, Quiet
    <2>2. ASSUME NEW p \in Places, NEW i \in Nat, Holds(r, p, i)'
          PROVE  /\ runs'[r].at = "awaiting" /\ InvokeAt(p, i)' = runs'[r].invoke
                 /\ \A q \in Places, j \in Nat : Holds(r, q, j)' => q = p /\ j = i
      <3>1. Holds(r, p, i) /\ InvokeAt(p, i)' = InvokeAt(p, i)
        BY <1>2, <2>2, HoldsKept
      <3>2. /\ runs[r].at = "awaiting" /\ InvokeAt(p, i) = runs[r].invoke
            /\ \A q \in Places, j \in Nat : Holds(r, q, j) => q = p /\ j = i
        BY <2>1, <3>1 DEF HeldOK
      <3>3. runs'[r] = runs[r]
        BY <1>2, <3>2
      <3> QED BY <1>2, <3>1, <3>2, <3>3, HoldsKept
    <2> QED BY <1>2, <2>1, <2>2 DEF HeldOK
  <1> QED BY <1>1, <1>2

-----------------------------------------------------------------------------
(* How runs move *)

LEMMA SetEffect ==
    ASSUME TypeOK, NEW r \in DOMAIN runs, NEW run, Set(r, run)
    PROVE  /\ DOMAIN runs' = DOMAIN runs /\ Len(runs)' = Len(runs) /\ runs'[r] = run
           /\ \A q \in DOMAIN runs \ {r} : runs'[q] = runs[q]
  <1>1. runs \in Seq(RunRecord \cup {run})
    BY TypeParts, SeqWiden
  <1> QED BY <1>1, SeqExcept DEF Set

LEMMA SetTyped ==
    ASSUME TypeOK, Grows, NEW r \in DOMAIN runs, NEW run, run \in RunRecord', Set(r, run)
    PROVE  runs' \in Seq(RunRecord')
  BY Widened, SeqExcept DEF Set

LEMMA NewRunTyped ==
    ASSUME Grows, NEW by, by \in 0..Len(runs)', NEW head, head \in 0..Len(dag)'
    PROVE  NewRun(by, head) \in RunRecord'
  BY ToolTurnsConstants DEF Grows, NewRun, None, RunRecord, Ats

LEMMA ProceedTyped ==
    ASSUME TypeOK, Grows, NEW run, run \in RunRecord', run.turn <= MaxTurns,
           dag[run.answer].told \in 0..Len(dag)'
    PROVE  Proceed(run) \in RunRecord'
  <1>1. CASE run.next < Len(dag[run.answer].calls)
    <2>1. Proceed(run) = [run EXCEPT !.at = "calling", !.next = run.next + 1]
      BY <1>1 DEF Proceed, RunRecord
    <2>2. run.next + 1 \in Nat /\ "calling" \in Ats
      BY DEF RunRecord, Ats
    <2> QED BY <2>1, <2>2 DEF RunRecord
  <1>2. CASE ~(run.next < Len(dag[run.answer].calls))
    <2>1. run.turn + 1 \in 1..(MaxTurns + 1)
      BY ToolTurnsConstants DEF RunRecord
    <2> QED BY <1>2, <2>1 DEF Proceed, RunRecord, Ats
  <1> QED BY <1>1, <1>2

\* What a run has to know before it goes on to its next call or its next turn.
MayProceed(r, run) ==
    /\ run \in RunRecord /\ Is(run.answer, "complete", r)
    /\ run.invoke # 0 => Is(run.invoke, "invoke", r)
    /\ run.head \in DOMAIN dag /\ dag[run.head].run = r /\ dag[run.head].type # "invoke"
    /\ run.turn <= Len(jobs) /\ run.next <= Len(dag[run.answer].calls)
    /\ \A a, k \in Nat :
           a = run.answer /\ ~run.late /\ k \in 1..run.next /\ dag[a].calls[k] = "tool"
           => Answered(a, k)
    /\ run.own => \A n \in DOMAIN dag : dag[n].run = r =>
           /\ dag[n].type \in {"request", "invoke"} /\ Sent(n) => dag[n].parent < run.head
           /\ dag[n].type = "request" => \/ dag[n].of[1] < run.answer
                                         \/ dag[n].of[1] = run.answer /\ dag[n].of[2] <= run.next
           /\ dag[n].type = "response" => dag[n].parent < run.head

LEMMA ProceedCalls ==
    ASSUME NEW run, NEW next, next = Proceed(run), run \in RunRecord'
    PROVE  /\ next.answer = run.answer /\ next.invoke = run.invoke /\ next.head = run.head
           /\ next.own = run.own /\ next.late = run.late
           /\ \/ /\ next.at = "calling" /\ next.next = run.next + 1 /\ next.turn = run.turn
                 /\ run.next < Len(dag[run.answer].calls)
              \/ /\ next.at = "invoking" /\ next.turn = run.turn + 1 /\ next.next = run.next
                 /\ ~(run.next < Len(dag[run.answer].calls))
  BY DEF Proceed, RunRecord

LEMMA ProceedOK ==
    ASSUME TypeOK, TypeOK', Keeps, NEW r \in DOMAIN runs', NEW run, runs'[r] = Proceed(run),
           run.answer \in DOMAIN dag, MayProceed(r, run)'
    PROVE  RunOK(r)' /\ CallsOK(r)' /\ OwnOK(r)'
  <1>1. run \in RunRecord' /\ run.next \in Nat /\ run.turn \in Nat /\ run.answer # 0
        /\ run.answer \in DOMAIN dag' /\ dag'[run.answer] = dag[run.answer]
        /\ run.answer \in Nat
    <2>1. run \in RunRecord'
      BY DEF MayProceed
    <2>2. run.next \in Nat /\ run.turn \in Nat
      BY <2>1, ToolTurnsConstants DEF RunRecord
    <2>3. run.answer \in Nat /\ run.answer # 0
      BY NodeType
    <2>4. run.answer \in DOMAIN dag' /\ dag'[run.answer] = dag[run.answer]
      BY DEF Keeps, Continues
    <2> QED BY <2>1, <2>2, <2>3, <2>4
  <1>2. PICK next : next = runs'[r]
    OBVIOUS
  <1>3. /\ next.answer = run.answer /\ next.invoke = run.invoke /\ next.head = run.head
        /\ next.own = run.own /\ next.late = run.late
        /\ \/ /\ next.at = "calling" /\ next.next = run.next + 1 /\ next.turn = run.turn
              /\ run.next < Len(dag[run.answer].calls)
           \/ /\ next.at = "invoking" /\ next.turn = run.turn + 1 /\ next.next = run.next
              /\ ~(run.next < Len(dag[run.answer].calls))
    BY <1>1, <1>2, ProceedCalls
  <1>4. Len(dag[run.answer].calls) \in Nat
        /\ DOMAIN dag[run.answer].calls = 1..Len(dag[run.answer].calls)
    BY NodeType, CallListType
  <1>5. RunOK(r)'
    <2>1. /\ next.turn <= Len(jobs)' + 1
          /\ next.at \notin {"invoking", "failed"} => next.turn <= Len(jobs)'
          /\ next.at \notin {"awaiting", "requested", "delegating"}
      BY <1>1, <1>3, LengthsNext DEF MayProceed
    <2>2. next.answer # 0 => Is(next.answer, "complete", r)'
      BY <1>3 DEF MayProceed, Is
    <2>3. next.invoke # 0 => Is(next.invoke, "invoke", r)'
      BY <1>3 DEF MayProceed, Is
    <2>4. ~Is(next.head, "invoke", r)'
      BY <1>3 DEF MayProceed, Is
    <2>5. next.at = "calling" => /\ next.answer # 0 /\ next.head # 0 /\ dag'[next.head].run = r
                                 /\ next.next \in 1..Len(dag'[next.answer].calls)
      BY <1>1, <1>3, <1>4, LengthsNext DEF MayProceed
    <2> QED BY <1>1, <1>2, <1>3, <2>1, <2>2, <2>3, <2>4, <2>5 DEF RunOK, InCalls, Calls, Is
  <1>6. CallsOK(r)'
    <2> SUFFICES ASSUME NEW a \in Nat, NEW k \in Nat, a # 0, a = next.answer, ~next.late,
                        Over(r, k)', k \in DOMAIN dag'[a].calls, dag'[a].calls[k] = "tool"
                 PROVE  Answered(a, k)'
      BY <1>2 DEF CallsOK
    <2>1. a = run.answer /\ ~run.late /\ k \in 1..run.next
      BY <1>1, <1>2, <1>3, <1>4 DEF Over, InCalls
    <2> QED BY <2>1 DEF MayProceed
  <1>7. OwnOK(r)'
    <2> SUFFICES ASSUME next.own, NEW n \in DOMAIN dag', dag'[n].run = r
                 PROVE  /\ dag'[n].type \in {"request", "invoke"} /\ Sent(n)'
                               => dag'[n].parent < next.head
                        /\ dag'[n].type = "request" => Past(n, r)'
                        /\ dag'[n].type = "response" => dag'[n].parent < next.head
      BY <1>2, <1>3 DEF OwnOK, Front
    <2>1. /\ dag'[n].type \in {"request", "invoke"} /\ Sent(n)' => dag'[n].parent < run.head
          /\ dag'[n].type = "request" => \/ dag'[n].of[1] < run.answer
                                         \/ dag'[n].of[1] = run.answer /\ dag'[n].of[2] <= run.next
          /\ dag'[n].type = "response" => dag'[n].parent < run.head
      BY <1>3 DEF MayProceed
    <2>2. dag'[n].of[2] \in Nat
      BY NodeTypeNext
    <2> QED BY <1>1, <1>2, <1>3, <2>1, <2>2 DEF Past
  <1> QED BY <1>5, <1>6, <1>7

-----------------------------------------------------------------------------
(* Steps of a run that touch nothing else *)

Elsewhere == <<log, consumers, jobs, dag, sidecar, worker, faults>>

LEMMA AloneGrows ==
    ASSUME TypeOK, UNCHANGED Elsewhere, Len(runs)' \in Nat, Len(runs) <= Len(runs)'
    PROVE  Grows
  BY Lengths DEF Grows, Elsewhere

LEMMA AloneTyped ==
    ASSUME TypeOK, UNCHANGED Elsewhere, Grows, runs' \in Seq(RunRecord')
    PROVE  TypeOK' /\ Keeps
  <1>1. TypeOK'
    BY Widened, TypeParts, TypePartsNext, AloneGrows DEF Elsewhere
  <1>2. DOMAIN runs \subseteq DOMAIN runs'
    BY <1>1, Lengths, LengthsNext DEF Grows
  <1>3. Continues(dag', dag) /\ Continues(log', log)
    BY SelfContinues DEF Elsewhere
  <1>4. Len(jobs) <= Len(jobs)' /\ \A i \in DOMAIN log' \ DOMAIN log : log'[i].node \notin DOMAIN dag
    BY Lengths DEF Elsewhere
  <1> QED BY <1>1, <1>2, <1>3, <1>4 DEF Keeps

LEMMA Alone ==
    ASSUME IInv, TypeOK', Keeps, UNCHANGED Elsewhere, Len(runs)' <= MaxRuns, NEW r, NEW e,
           \A q \in DOMAIN runs' : q \in DOMAIN runs \/ q = e,
           \A q \in DOMAIN runs \ {r} : runs'[q] = runs[q], e \notin DOMAIN runs,
           r \in DOMAIN runs => runs[r].at # "awaiting" /\ runs'[r].own = runs[r].own,
           e \in DOMAIN runs' => runs'[e].own,
           \A q \in DOMAIN runs' : q \in {r, e} => RunOK(q)' /\ CallsOK(q)' /\ OwnOK(q)'
    PROVE  IInv'
  <1>1. \A q \in DOMAIN runs \ {r, e} : Unmoved(q)
    BY DEF Unmoved, Elsewhere
  <1>2. NodesOK' /\ MessagesOK' /\ RunsOK'
    BY <1>1, Kept DEF Elsewhere
  <1>3. ProcessesOK'
    BY ProcessesKept DEF Elsewhere
  <1>4. Once'
    <2>1. OwnStays
      BY DEF OwnStays
    <2> QED BY <2>1, OnceKept DEF Elsewhere
  <1>5. Quiet'
    <2>1. Holding
      BY SelfContinues DEF Holding, Elsewhere
    <2>2. faults' = 0 => faults = 0 /\ \A c \in Consumers : consumers'[c].owed = {}
      BY DEF Elsewhere, IInv, Quiet
    <2> QED BY <2>1, <2>2, QuietKept
  <1>6. Bounds'
    BY DEF IInv, Bounds, Elsewhere
  <1> QED BY <1>2, <1>3, <1>4, <1>5, <1>6 DEF IInv

\* The same for a step that moves one run.
LEMMA MoveTyped ==
    ASSUME IInv, UNCHANGED Elsewhere, NEW r \in DOMAIN runs, NEW run, Set(r, run),
           run \in RunRecord'
    PROVE  TypeOK' /\ Keeps /\ runs'[r] = run /\ DOMAIN runs' = DOMAIN runs
  <1>1. Grows
    BY SetEffect, AloneGrows, Lengths DEF IInv
  <1> QED BY <1>1, SetTyped, AloneTyped, SetEffect DEF IInv

LEMMA Move ==
    ASSUME IInv, TypeOK', Keeps, UNCHANGED Elsewhere, NEW r \in DOMAIN runs, NEW run, Set(r, run),
           runs[r].at # "awaiting", run.own = runs[r].own,
           RunOK(r)', CallsOK(r)', OwnOK(r)'
    PROVE  IInv'
  <1>1. DOMAIN runs' = DOMAIN runs /\ Len(runs)' <= MaxRuns /\ runs'[r] = run
        /\ \A q \in DOMAIN runs \ {r} : runs'[q] = runs[q]
    BY SetEffect DEF IInv, Bounds
  <1>2. 0 \notin DOMAIN runs
    BY Lengths DEF IInv
  <1> QED BY <1>1, <1>2, Alone

\* A run that ends without an answer keeps what is known of it.
LEMMA FailedOK ==
    ASSUME IInv, TypeOK', UNCHANGED <<log, jobs, dag>>, NEW r \in DOMAIN runs, r \in DOMAIN runs',
           runs'[r] = [runs[r] EXCEPT !.at = "failed"]
    PROVE  RunOK(r)' /\ CallsOK(r)' /\ OwnOK(r)'
  <1>1. PICK next : next = runs'[r]
    OBVIOUS
  <1>2. /\ next.at = "failed" /\ next.turn = runs[r].turn /\ next.answer = runs[r].answer
        /\ next.invoke = runs[r].invoke /\ next.head = runs[r].head /\ next.own = runs[r].own
        /\ next.next = runs[r].next
    BY <1>1, RunType DEF RunRecord, IInv
  <1>3. RunOK(r) /\ OwnOK(r)
    BY DEF IInv, RunsOK
  <1>4. RunOK(r)'
    BY <1>1, <1>2, <1>3 DEF RunOK, InCalls, Is
  <1>5. CallsOK(r)'
    BY <1>1, <1>2 DEF CallsOK, Over, InCalls
  <1>6. OwnOK(r)'
    BY <1>1, <1>2, <1>3 DEF OwnOK, Past, Front, Sent
  <1> QED BY <1>4, <1>5, <1>6

LEMMA FailsInv ==
    ASSUME IInv, NEW r \in DOMAIN runs, runs[r].at # "awaiting", UNCHANGED Elsewhere,
           Set(r, [runs[r] EXCEPT !.at = "failed"])
    PROVE  IInv'
  <1>1. PICK run : run = [runs[r] EXCEPT !.at = "failed"]
    OBVIOUS
  <1>2. Grows
    BY SetEffect, AloneGrows, Lengths DEF IInv
  <1>3. run \in RunRecord'
    <2>1. runs[r] \in RunRecord'
      BY <1>2, RunType, Widened DEF IInv
    <2> QED BY <1>1, <2>1 DEF RunRecord, Ats
  <1>4. TypeOK' /\ Keeps /\ runs'[r] = run /\ DOMAIN runs' = DOMAIN runs
    BY <1>1, <1>3, MoveTyped
  <1>5. RunOK(r)' /\ CallsOK(r)' /\ OwnOK(r)'
    BY <1>1, <1>4, FailedOK DEF Elsewhere
  <1>6. run.own = runs[r].own
    BY <1>1, RunType DEF RunRecord, IInv
  <1> QED BY <1>1, <1>4, <1>5, <1>6, Move

LEMMA BuildFailsInv == ASSUME IInv, NEW r \in DOMAIN runs, BuildFails(r) PROVE IInv'
  BY FailsInv DEF BuildFails, Elsewhere

LEMMA RejectCallInv == ASSUME IInv, NEW r \in DOMAIN runs, RejectCall(r) PROVE IInv'
  BY FailsInv DEF RejectCall, Elsewhere

\* What is known of a run in calls: all that it needs to go on, but the answer of its call.
LEMMA InCallsFacts ==
    ASSUME IInv, NEW r \in DOMAIN runs, InCalls(r)
    PROVE  /\ Is(runs[r].answer, "complete", r) /\ runs[r].answer \in DOMAIN dag
           /\ runs[r].answer # 0 /\ runs[r].invoke # 0 => Is(runs[r].invoke, "invoke", r)
           /\ runs[r].head \in DOMAIN dag /\ dag[runs[r].head].run = r
           /\ dag[runs[r].head].type # "invoke"
           /\ runs[r].turn <= Len(jobs) /\ runs[r].turn <= MaxTurns
           /\ runs[r].next \in 1..Len(Calls(r)) /\ DOMAIN Calls(r) = 1..Len(Calls(r))
           /\ Calls(r)[runs[r].next] \in {"tool", "delegate"}
           /\ dag[runs[r].answer].told \in 0..Len(dag)
  <1>1. RunOK(r) /\ runs[r].turn \in Nat /\ Len(jobs) <= MaxTurns
    BY RunType, Lengths DEF IInv, RunsOK, Bounds
  <1>2. /\ runs[r].answer # 0 /\ runs[r].next \in 1..Len(Calls(r)) /\ runs[r].head # 0
        /\ dag[runs[r].head].run = r /\ Is(runs[r].answer, "complete", r)
        /\ runs[r].turn <= Len(jobs) /\ ~Is(runs[r].head, "invoke", r)
        /\ runs[r].invoke # 0 => Is(runs[r].invoke, "invoke", r)
    BY <1>1 DEF RunOK, InCalls
  <1>3. runs[r].answer \in DOMAIN dag /\ runs[r].head \in DOMAIN dag
    BY <1>2, RunType, Lengths DEF IInv
  <1>4. DOMAIN Calls(r) = 1..Len(Calls(r)) /\ Calls(r)[runs[r].next] \in {"tool", "delegate"}
    BY <1>2, <1>3, NodeType, CallListType DEF IInv, Calls
  <1>5. dag[runs[r].answer].told \in 0..Len(dag)
    BY <1>3, NodeType, Lengths DEF IInv, NodesOK, NodeOK
  <1>6. runs[r].turn <= MaxTurns
    BY <1>1, <1>2, Lengths DEF IInv
  <1> QED BY <1>2, <1>3, <1>4, <1>5, <1>6 DEF Is

LEMMA OwnFacts ==
    ASSUME IInv, NEW r \in DOMAIN runs, InCalls(r), runs[r].own, NEW n \in DOMAIN dag,
           dag[n].run = r
    PROVE  /\ dag[n].type \in {"request", "invoke"} /\ Sent(n) => dag[n].parent < runs[r].head
           /\ dag[n].type = "request" => Past(n, r)
           /\ dag[n].type = "request" =>
                  \/ dag[n].of[1] < runs[r].answer
                  \/ dag[n].of[1] = runs[r].answer /\ dag[n].of[2] <= runs[r].next
           /\ dag[n].type = "response" => dag[n].parent < runs[r].head
  BY DEF IInv, RunsOK, OwnOK, Past, Front, InCalls

\* A call is over: the run may go on if its call had an answer, was no tool's, or came too
\* late, and what the step recorded for it is behind the head of its chain.
LEMMA CallOver ==
    ASSUME IInv, TypeOK', Keeps, NEW r \in DOMAIN runs, InCalls(r), NEW run, run \in RunRecord',
           run.answer = runs[r].answer, run.invoke = runs[r].invoke,
           run.own = runs[r].own, run.next = runs[r].next, run.turn = runs[r].turn,
           runs[r].head <= run.head, run.head \in DOMAIN dag', dag'[run.head].run = r,
           dag'[run.head].type # "invoke", ~run.late => ~runs[r].late,
           NEW answer, NEW next, answer = run.answer, next = run.next,
           ~run.late /\ Calls(r)[next] = "tool" => Answered(answer, next)',
           \A n \in DOMAIN dag' \ DOMAIN dag : dag'[n].run = r =>
               /\ dag'[n].type \in {"request", "invoke"} /\ Sent(n)' => dag'[n].parent < run.head
               /\ dag'[n].type = "request" => dag'[n].of = <<answer, next>>
               /\ dag'[n].type = "response" => dag'[n].parent < run.head
    PROVE  MayProceed(r, run)'
  <1>1. \A n \in DOMAIN dag : n \in DOMAIN dag' /\ dag'[n] = dag[n]
    BY DEF Keeps, Continues
  <1>2. /\ run.turn \in Nat /\ Len(jobs) \in Nat /\ Len(jobs)' \in Nat /\ Len(jobs) <= Len(jobs)'
        /\ run.head \in Nat /\ runs[r].head \in Nat /\ run.next \in Nat
        /\ run.next \in 1..Len(Calls(r))
    <2>1. Len(jobs) \in Nat /\ Len(jobs)' \in Nat /\ Len(dag) \in Nat /\ DOMAIN dag' = 1..Len(dag)'
          /\ Len(dag)' \in Nat
      BY Lengths, LengthsNext DEF IInv
    <2>2. /\ runs[r].turn \in 1..(MaxTurns + 1) /\ MaxTurns \in Nat /\ runs[r].next \in Nat
          /\ runs[r].head \in 0..Len(dag)
      BY RunType, ToolTurnsConstants DEF IInv
    <2>3. runs[r].next \in 1..Len(Calls(r))
      BY InCallsFacts
    <2> QED BY <2>1, <2>2, <2>3 DEF Keeps
  <1>3. /\ Is(run.answer, "complete", r)' /\ (run.invoke # 0 => Is(run.invoke, "invoke", r))'
        /\ run.turn <= Len(jobs)' /\ run.next <= Len(dag'[run.answer].calls)
    <2>1. /\ Is(runs[r].answer, "complete", r) /\ runs[r].answer \in DOMAIN dag
          /\ runs[r].invoke # 0 => Is(runs[r].invoke, "invoke", r)
          /\ runs[r].turn <= Len(jobs)
      BY InCallsFacts
    <2>2. run.turn <= Len(jobs)'
      BY <1>2, <2>1
    <2>3. run.next <= Len(dag'[run.answer].calls)
      BY <1>1, <1>2, <2>1 DEF Calls
    <2> QED BY <1>1, <2>1, <2>2, <2>3 DEF Is
  <1>4. ASSUME NEW a \in Nat, NEW k \in Nat, a = run.answer, ~run.late, k \in 1..run.next,
               dag'[a].calls[k] = "tool"
        PROVE  Answered(a, k)'
    <2>1. a \in DOMAIN dag /\ dag'[a] = dag[a] /\ k \in DOMAIN dag[a].calls /\ a # 0
      <3>1. /\ runs[r].answer \in DOMAIN dag /\ runs[r].answer # 0
            /\ runs[r].next \in 1..Len(Calls(r)) /\ DOMAIN Calls(r) = 1..Len(Calls(r))
            /\ Len(Calls(r)) \in Nat
        BY InCallsFacts
      <3>2. a = runs[r].answer /\ dag'[a] = dag[a]
        BY <1>1, <1>4, <3>1
      <3>3. k \in DOMAIN Calls(r)
        <4>1. run.next \in 1..Len(Calls(r)) /\ k \in 1..run.next
          BY <1>2, <1>4
        <4>2. k \in 1..Len(Calls(r))
          BY <3>1, <4>1
        <4> QED BY <3>1, <4>2
      <3> QED BY <3>1, <3>2, <3>3 DEF Calls
    <2>2. CASE k = next
      BY <1>4, <2>1, <2>2 DEF Calls
    <2>3. CASE k # next
      <3>1. k < runs[r].next
        BY <1>2, <1>4, <2>3
      <3>2. Answered(a, k)
        BY <1>4, <2>1, <3>1 DEF IInv, RunsOK, CallsOK, Over
      <3> QED BY <3>2, AnsweredKept DEF IInv
    <2> QED BY <2>2, <2>3
  <1>5. ASSUME run.own, NEW n \in DOMAIN dag', dag'[n].run = r
        PROVE  /\ dag'[n].type \in {"request", "invoke"} /\ Sent(n)' => dag'[n].parent < run.head
               /\ dag'[n].type = "request" =>
                      \/ dag'[n].of[1] < run.answer
                      \/ dag'[n].of[1] = run.answer /\ dag'[n].of[2] <= run.next
               /\ dag'[n].type = "response" => dag'[n].parent < run.head
    <2>1. CASE n \in DOMAIN dag
      <3>1. dag'[n] = dag[n] /\ (Sent(n)' <=> Sent(n)) /\ dag[n].parent \in Nat
        BY <1>1, <2>1, SentKept, NodeType DEF IInv
      <3>2. /\ dag[n].type \in {"request", "invoke"} /\ Sent(n) => dag[n].parent < runs[r].head
            /\ dag[n].type = "request" =>
                   \/ dag[n].of[1] < runs[r].answer
                   \/ dag[n].of[1] = runs[r].answer /\ dag[n].of[2] <= runs[r].next
            /\ dag[n].type = "response" => dag[n].parent < runs[r].head
        BY <1>5, <2>1, <3>1, OwnFacts
      <3> QED BY <1>2, <3>1, <3>2
    <2>2. CASE n \notin DOMAIN dag
      BY <1>2, <1>5, <2>2
    <2> QED BY <2>1, <2>2
  <1>6. (\A a, k \in Nat :
           a = run.answer /\ ~run.late /\ k \in 1..run.next /\ dag[a].calls[k] = "tool"
           => Answered(a, k))'
    BY <1>4
  <1>7. (run.own => \A n \in DOMAIN dag : dag[n].run = r =>
           /\ dag[n].type \in {"request", "invoke"} /\ Sent(n) => dag[n].parent < run.head
           /\ dag[n].type = "request" => \/ dag[n].of[1] < run.answer
                                         \/ dag[n].of[1] = run.answer /\ dag[n].of[2] <= run.next
           /\ dag[n].type = "response" => dag[n].parent < run.head)'
    BY <1>5
  <1> QED BY <1>3, <1>6, <1>7 DEF MayProceed

LEMMA CallOverInv ==
    ASSUME IInv, NEW r \in DOMAIN runs, InCalls(r), UNCHANGED Elsewhere, NEW late \in BOOLEAN,
           Set(r, Proceed([runs[r] EXCEPT !.late = late])),
           ~late => ~runs[r].late /\ Calls(r)[runs[r].next] # "tool"
    PROVE  IInv'
  <1>1. PICK run : run = [runs[r] EXCEPT !.late = late]
    OBVIOUS
  <1>2. Grows
    BY SetEffect, AloneGrows, Lengths DEF IInv
  <1>3. runs[r] \in RunRecord'
    BY <1>2, RunType, Widened DEF IInv
  <1>4. run \in RunRecord'
    BY <1>1, <1>3 DEF RunRecord
  <1>5. /\ run.answer = runs[r].answer /\ run.invoke = runs[r].invoke /\ run.head = runs[r].head
        /\ run.own = runs[r].own /\ run.next = runs[r].next /\ run.turn = runs[r].turn
        /\ run.late = late
    BY <1>1, <1>3 DEF RunRecord
  <1>6. Proceed(run) \in RunRecord'
    BY <1>2, <1>4, <1>5, InCallsFacts, ProceedTyped, Lengths DEF IInv, Elsewhere
  <1>7. PICK next : next = Proceed(run)
    OBVIOUS
  <1>8. TypeOK' /\ Keeps /\ runs'[r] = next /\ DOMAIN runs' = DOMAIN runs
    BY <1>1, <1>6, <1>7, MoveTyped
  <1>9. MayProceed(r, run)'
    <2>1. PICK answer, call : answer = run.answer /\ call = run.next
      OBVIOUS
    <2>2. dag' = dag /\ runs[r].head \in Nat
      BY RunType, Lengths DEF Elsewhere, IInv
    <2>3. /\ runs[r].head <= run.head /\ run.head \in DOMAIN dag' /\ dag'[run.head].run = r
          /\ dag'[run.head].type # "invoke" /\ (~run.late => ~runs[r].late)
          /\ (~run.late => Calls(r)[call] # "tool")
      BY <1>5, <2>1, <2>2, InCallsFacts
    <2> QED BY <1>4, <1>5, <1>8, <2>1, <2>2, <2>3, CallOver
  <1>10. RunOK(r)' /\ CallsOK(r)' /\ OwnOK(r)'
    BY <1>5, <1>7, <1>8, <1>9, InCallsFacts, ProceedOK DEF IInv
  <1>11. next.own = runs[r].own /\ runs[r].at # "awaiting"
    BY <1>4, <1>5, <1>7, ProceedCalls DEF InCalls
  <1> QED BY <1>1, <1>7, <1>8, <1>10, <1>11, Move

LEMMA ResponseTimeoutInv == ASSUME IInv, NEW r \in DOMAIN runs, ResponseTimeout(r) PROVE IInv'
  BY CallOverInv DEF ResponseTimeout, Elsewhere, InCalls

LEMMA EndDelegationInv ==
    ASSUME IInv, NEW r \in DOMAIN runs, NEW d \in DOMAIN runs, EndDelegation(r, d)
    PROVE  IInv'
  <1>1. runs[r].at = "delegating" /\ InCalls(r)
    BY DEF EndDelegation, Delegation, InCalls
  <1>2. Calls(r)[runs[r].next] = "delegate" /\ runs[r] \in RunRecord
    BY <1>1, RunType DEF IInv, RunsOK, RunOK
  <1>3. PICK late : late = runs[r].late
    OBVIOUS
  <1>4. runs[r] = [runs[r] EXCEPT !.late = late] /\ late \in BOOLEAN
    BY <1>2, <1>3 DEF RunRecord
  <1> QED BY <1>1, <1>2, <1>3, <1>4, CallOverInv DEF EndDelegation, Elsewhere

-----------------------------------------------------------------------------
(* Steps that begin a run *)

LEMMA NewRunOK ==
    ASSUME IInv, TypeOK', dag' = dag, jobs' = jobs, NEW e \in DOMAIN runs', e \notin DOMAIN runs,
           runs'[e].at = "invoking", runs'[e].turn = 1, runs'[e].answer = 0, runs'[e].invoke = 0
    PROVE  RunOK(e)' /\ CallsOK(e)' /\ OwnOK(e)'
  <1>1. \A n \in DOMAIN dag : dag[n].run # e
    BY DEF IInv, NodesOK, NodeOK
  <1>2. RunOK(e)'
    BY <1>1, Lengths DEF RunOK, InCalls, Is, IInv
  <1>3. CallsOK(e)'
    BY DEF CallsOK
  <1>4. OwnOK(e)'
    BY <1>1 DEF OwnOK
  <1> QED BY <1>2, <1>3, <1>4

\* Of the runs before, one at most moves; the new one stands at the end.
LEMMA BeginTyped ==
    ASSUME IInv, UNCHANGED Elsewhere, NEW base, NEW run, NEW e, e = Len(runs) + 1,
           base \in Seq(RunRecord \cup {base[r] : r \in DOMAIN base}), Len(base) = Len(runs),
           DOMAIN base = DOMAIN runs, runs' = Append(base, run)
    PROVE  /\ Grows /\ Len(runs)' = e /\ DOMAIN runs' = DOMAIN runs \cup {e}
           /\ \A q \in DOMAIN runs : runs'[q] = base[q]
           /\ runs'[e] = run /\ e \notin DOMAIN runs /\ e # 0
  <1>1. PICK S : S = RunRecord \cup {base[r] : r \in DOMAIN base} \cup {run}
    OBVIOUS
  <1>2. base \in Seq(S) /\ run \in S
    BY <1>1, SeqWiden
  <1>3. /\ Len(runs)' = e /\ DOMAIN runs' = DOMAIN runs \cup {e}
        /\ \A q \in DOMAIN runs : runs'[q] = base[q]
        /\ runs'[e] = run
    BY <1>2, SeqAppend
  <1>4. Len(runs) \in Nat /\ DOMAIN runs = 1..Len(runs)
    BY Lengths DEF IInv
  <1>5. Grows
    BY <1>3, <1>4, AloneGrows DEF IInv
  <1> QED BY <1>3, <1>4, <1>5

LEMMA StartRunInv == ASSUME IInv, StartRun PROVE IInv'
  <1>1. PICK run : run = [NewRun(0, Len(dag)) EXCEPT !.state = TipState]
    OBVIOUS
  <1>2. PICK e : e = Len(runs) + 1
    OBVIOUS
  <1>3. runs' = Append(runs, run) /\ UNCHANGED Elsewhere /\ Len(runs) < MaxRuns
    BY <1>1 DEF StartRun, Elsewhere
  <1>4. runs \in Seq(RunRecord \cup {runs[r] : r \in DOMAIN runs})
    BY TypeParts, SeqWiden DEF IInv
  <1>5. /\ Grows /\ Len(runs)' = e /\ DOMAIN runs' = DOMAIN runs \cup {e}
        /\ \A q \in DOMAIN runs : runs'[q] = runs[q]
        /\ runs'[e] = run /\ e \notin DOMAIN runs /\ e # 0
    BY <1>2, <1>3, <1>4, BeginTyped
  <1>6. TipState \in 0..Len(dag)
    <2>1. CASE dag = <<>> \/ dag[Len(dag)].type \notin {"invoke", "complete"}
      BY <2>1, Lengths DEF TipState, None, IInv
    <2>2. CASE dag # <<>> /\ dag[Len(dag)].type \in {"invoke", "complete"}
      <3>1. Len(dag) # 0 /\ dag \in Seq(Node)
        BY <2>2, TypeParts, EmptySeq DEF IInv
      <3>2. Len(dag) \in DOMAIN dag
        BY <3>1, Lengths DEF IInv
      <3> QED BY <2>2, <3>2, Lengths DEF TipState, IInv, NodesOK, NodeOK
    <2> QED BY <2>1, <2>2
  <1>7. /\ NewRun(0, Len(dag)) \in RunRecord'
        /\ run \in RunRecord' /\ run.at = "invoking" /\ run.turn = 1 /\ run.answer = 0
        /\ run.invoke = 0 /\ run.own
    <2>1. 0 \in 0..Len(runs)' /\ Len(dag) \in 0..Len(dag)' /\ TipState \in 0..Len(dag)'
      BY <1>3, <1>5, <1>6, Lengths DEF Elsewhere, IInv, Grows
    <2>2. NewRun(0, Len(dag)) \in RunRecord'
      BY <1>5, <2>1, NewRunTyped
    <2>3. run \in RunRecord'
      BY <1>1, <2>1, <2>2 DEF RunRecord
    <2> QED BY <1>1, <2>2, <2>3 DEF NewRun
  <1>8. runs' \in Seq(RunRecord')
    BY <1>3, <1>5, <1>7, Widened, SeqAppend DEF IInv
  <1>9. TypeOK' /\ Keeps
    BY <1>3, <1>5, <1>8, AloneTyped DEF IInv
  <1>10. RunOK(e)' /\ CallsOK(e)' /\ OwnOK(e)'
    BY <1>3, <1>5, <1>7, <1>9, NewRunOK DEF Elsewhere
  <1>11. Len(runs)' <= MaxRuns /\ 0 \notin DOMAIN runs'
    BY <1>2, <1>3, <1>5, Lengths DEF IInv
  <1> QED BY <1>3, <1>5, <1>7, <1>9, <1>10, <1>11, Alone

\* A run that delegates a call waits for the new run with what it has.
LEMMA DelegatingOK ==
    ASSUME IInv, TypeOK', UNCHANGED Elsewhere, NEW r \in DOMAIN runs, Asks(r, "delegate"),
           r \in DOMAIN runs', runs'[r] = [runs[r] EXCEPT !.at = "delegating"]
    PROVE  RunOK(r)' /\ CallsOK(r)' /\ OwnOK(r)'
  <1>1. PICK next : next = runs'[r]
    OBVIOUS
  <1>2. /\ next.at = "delegating" /\ next.turn = runs[r].turn /\ next.answer = runs[r].answer
        /\ next.invoke = runs[r].invoke /\ next.head = runs[r].head /\ next.own = runs[r].own
        /\ next.next = runs[r].next /\ next.late = runs[r].late
    BY <1>1, RunType DEF RunRecord, IInv
  <1>3. RunOK(r) /\ CallsOK(r) /\ OwnOK(r) /\ runs[r].at = "calling"
        /\ dag[runs[r].answer].calls[runs[r].next] = "delegate"
    BY DEF IInv, RunsOK, Asks, Calls
  <1>4. RunOK(r)'
    BY <1>1, <1>2, <1>3 DEF RunOK, InCalls, Is, Calls, Elsewhere
  <1>5. CallsOK(r)'
    <2>1. \A a, k : Answered(a, k)' <=> Answered(a, k)
      BY DEF Answered, Elsewhere
    <2>2. \A k \in Nat : Over(r, k)' <=> Over(r, k)
      BY <1>1, <1>2, <1>3 DEF Over, InCalls
    <2> QED BY <1>1, <1>2, <1>3, <2>1, <2>2 DEF CallsOK, Elsewhere
  <1>6. OwnOK(r)'
    BY <1>1, <1>2, <1>3 DEF OwnOK, Past, Front, Sent, Elsewhere
  <1> QED BY <1>4, <1>5, <1>6

LEMMA DelegateInv == ASSUME IInv, NEW r \in DOMAIN runs, Delegate(r) PROVE IInv'
  <1>1. PICK run : run = NewRun(r, runs[r].head)
    OBVIOUS
  <1>2. PICK e : e = Len(runs) + 1
    OBVIOUS
  <1>3. PICK base : base = [runs EXCEPT ![r].at = "delegating"]
    OBVIOUS
  <1>4. runs' = Append(base, run) /\ UNCHANGED Elsewhere /\ Len(runs) < MaxRuns
        /\ Asks(r, "delegate")
    BY <1>1, <1>3 DEF Delegate, Elsewhere
  <1>5. PICK moved : moved = [runs[r] EXCEPT !.at = "delegating"]
    OBVIOUS
  <1>6. base = [runs EXCEPT ![r] = moved]
    BY <1>3, <1>5
  <1>7. moved \in RunRecord /\ moved.own = runs[r].own
    BY <1>5, RunType DEF RunRecord, Ats, IInv
  <1>8. base \in Seq(RunRecord) /\ Len(base) = Len(runs) /\ DOMAIN base = DOMAIN runs
        /\ \A q \in DOMAIN runs : base[q] = IF q = r THEN moved ELSE runs[q]
    BY <1>6, <1>7, TypeParts, SeqExcept DEF IInv
  <1>9. base \in Seq(RunRecord \cup {base[q] : q \in DOMAIN base})
    BY <1>8, SeqWiden
  <1>10. /\ Grows /\ Len(runs)' = e /\ DOMAIN runs' = DOMAIN runs \cup {e}
         /\ \A q \in DOMAIN runs : runs'[q] = base[q]
         /\ runs'[e] = run /\ e \notin DOMAIN runs /\ e # 0
    BY <1>2, <1>4, <1>8, <1>9, BeginTyped
  <1>11. /\ run \in RunRecord' /\ run.at = "invoking" /\ run.turn = 1 /\ run.answer = 0
         /\ run.invoke = 0 /\ run.own
    <2>1. r \in 0..Len(runs)' /\ runs[r].head \in 0..Len(dag)'
      BY <1>4, <1>10, Lengths, RunType DEF Elsewhere, IInv, Grows
    <2>2. run \in RunRecord'
      BY <1>1, <1>10, <2>1, NewRunTyped
    <2> QED BY <1>1, <2>2 DEF NewRun
  <1>12. runs' \in Seq(RunRecord')
    BY <1>4, <1>8, <1>10, <1>11, Widened, SeqWiden, SeqAppend DEF IInv
  <1>13. TypeOK' /\ Keeps
    BY <1>4, <1>10, <1>12, AloneTyped DEF IInv
  <1>14. RunOK(e)' /\ CallsOK(e)' /\ OwnOK(e)'
    BY <1>4, <1>10, <1>11, <1>13, NewRunOK DEF Elsewhere
  <1>15. RunOK(r)' /\ CallsOK(r)' /\ OwnOK(r)'
    BY <1>4, <1>5, <1>8, <1>10, <1>13, DelegatingOK
  <1>16. Len(runs)' <= MaxRuns /\ runs[r].at # "awaiting"
         /\ runs'[r].own = runs[r].own
         /\ \A q \in DOMAIN runs \ {r} : runs'[q] = runs[q]
    BY <1>2, <1>4, <1>7, <1>8, <1>10, Lengths DEF IInv, Asks
  <1> QED BY <1>4, <1>10, <1>11, <1>13, <1>14, <1>15, <1>16, Alone

-----------------------------------------------------------------------------
(* Steps that record a node *)

LEMMA InheritType ==
    ASSUME TypeOK, NEW parent \in 0..Len(dag), NEW told \in Nat
    PROVE  Inherit(parent, told) \in Nat
  <1>1. parent # 0 => parent \in DOMAIN dag
    BY Lengths
  <1>2. parent # 0 => dag[parent].state \in Nat
    BY <1>1, NodeType
  <1>3. CASE told # None
    BY <1>3 DEF Inherit
  <1>4. CASE told = None /\ parent = 0
    BY <1>4 DEF Inherit, None
  <1>5. CASE told = None /\ parent # 0
    BY <1>2, <1>5 DEF Inherit
  <1> QED BY <1>3, <1>4, <1>5

LEMMA NodeAppended ==
    ASSUME TypeOK, NEW node \in Node, dag' = Append(dag, node), NEW last, last = Recorded
    PROVE  /\ dag' \in Seq(Node) /\ Len(dag)' = last /\ last \in Nat /\ last # 0
           /\ last = Len(dag) + 1
           /\ DOMAIN dag' = DOMAIN dag \cup {last} /\ last \notin DOMAIN dag
           /\ Continues(dag', dag) /\ DOMAIN dag = 1..(last - 1) /\ dag'[last] = node
  <1>1. dag \in Seq(Node) /\ Len(dag) \in Nat /\ DOMAIN dag = 1..Len(dag)
    BY TypeParts, Lengths
  <1>2. /\ dag' \in Seq(Node) /\ Len(dag)' = last /\ DOMAIN dag' = DOMAIN dag \cup {last}
        /\ Continues(dag', dag) /\ dag'[last] = node
    BY <1>1, SeqAppend, AppendContinues DEF Recorded
  <1> QED BY <1>1, <1>2 DEF Recorded

LEMMA PublishEffect ==
    ASSUME TypeOK, Grows, NEW m, m \in MessageRecord', Publish(m)
    PROVE  /\ log' \in Seq(MessageRecord') /\ Len(log)' = Len(log) + 1
           /\ DOMAIN log' = DOMAIN log \cup {Len(log) + 1} /\ Len(log) + 1 \notin DOMAIN log
           /\ Continues(log', log) /\ log'[Len(log) + 1] = m
  <1>1. log \in Seq(MessageRecord') /\ Len(log) \in Nat /\ DOMAIN log = 1..Len(log)
    BY Widened, Lengths
  <1> QED BY <1>1, SeqAppend, AppendContinues DEF Publish

LEMMA PublishLength ==
    ASSUME TypeOK, NEW m, Publish(m)
    PROVE  Len(log)' = Len(log) + 1 /\ Len(log) \in Nat
  <1>1. log \in Seq(MessageRecord \cup {m})
    BY TypeParts, SeqWiden
  <1> QED BY <1>1, Lengths, SeqAppend DEF Publish

\* A node that a run makes its chain go on with stands apart from those before.
LEMMA NextApart ==
    ASSUME IInv, TypeOK', Keeps, OwnStays, NEW r \in DOMAIN runs,
           NEW last, last = Len(dag) + 1, Len(dag)' = last,
           dag'[last].run = r, dag'[last].parent = runs[r].head,
           runs[r].at \notin {"awaiting", "done", "failed"},
           dag'[last].type = "request" => /\ dag'[last].of = <<runs[r].answer, runs[r].next>>
                                          /\ runs[r].at = "calling"
    PROVE  Once'
  <1>1. ASSUME NEW n \in DOMAIN dag PROVE Apart(n, last)'
    <2>1. n \in DOMAIN dag' /\ dag'[n] = dag[n] /\ (Sent(n)' <=> Sent(n))
      BY SentKept DEF IInv, Keeps, Continues
    <2> SUFFICES ASSUME (Own(n) /\ dag[last].run = dag[n].run)'
                 PROVE  (/\ dag[n].type = "request" /\ dag[last].type = "request"
                               => dag[n].of # dag[last].of
                         /\ dag[n].type = "response" /\ dag[last].type = "response"
                               => dag[n].parent # dag[last].parent
                         /\ dag[n].type \in {"request", "invoke"} /\ dag[n].parent # 0 /\ Sent(n)
                               => dag[last].parent # dag[n].parent)'
      BY DEF Apart
    <2>2. dag[n].run = r /\ runs'[r].own
      BY <2>1 DEF Own
    <2>3. OwnOK(r) /\ runs[r].own
      BY <2>2 DEF IInv, RunsOK, OwnStays
    <2>4. /\ dag[n].type \in {"request", "invoke"} /\ Sent(n) => dag[n].parent < runs[r].head
          /\ dag[n].type = "request" => Past(n, r)
          /\ dag[n].type = "response" => dag[n].parent < runs[r].head
      BY <2>3, <2>2 DEF OwnOK, Front
    <2>5. dag[n].parent \in Nat /\ runs[r].head \in Nat /\ dag[n].of[1] \in Nat
          /\ runs[r].answer \in Nat /\ dag[n].of \in Nat \X Nat
      BY NodeType, RunType, Lengths DEF IInv
    <2>6. ASSUME dag[n].type = "request", dag'[last].type = "request"
          PROVE  dag[n].of # dag'[last].of
      BY <2>4, <2>5, <2>6 DEF Past
    <2> QED BY <2>1, <2>4, <2>5, <2>6
  <1> QED BY <1>1, OnceMore

\* What a step that records one node and moves run r leaves.
RecordStep(r, last) ==
    /\ dag' \in Seq(Node) /\ Len(dag)' = last /\ last \in Nat /\ last # 0 /\ last = Len(dag) + 1
    /\ DOMAIN dag' = DOMAIN dag \cup {last} /\ last \notin DOMAIN dag
    /\ Continues(dag', dag) /\ DOMAIN dag = 1..(last - 1)
    /\ DOMAIN runs' = DOMAIN runs /\ Len(runs)' = Len(runs) /\ Len(runs) \in Nat
    /\ \A q \in DOMAIN runs \ {r} : runs'[q] = runs[q]
    /\ dag'[last].run = r

LEMMA RecordGrows ==
    ASSUME IInv, NEW r, NEW last, RecordStep(r, last),
           Len(log)' = Len(log) \/ Len(log)' = Len(log) + 1,
           Len(jobs)' = Len(jobs) \/ Len(jobs)' = Len(jobs) + 1
    PROVE  Grows
  BY Lengths DEF IInv, Grows, RecordStep

LEMMA RecordKeeps ==
    ASSUME IInv, Grows, NEW r, NEW last, RecordStep(r, last), Continues(log', log),
           \A i \in DOMAIN log' \ DOMAIN log : log'[i].node \in {0, last}
    PROVE  Keeps
  BY Lengths DEF IInv, Keeps, Grows, RecordStep

\* The parts of the invariant after such a step, from those of the node, the run and the
\* message that are new.
LEMMA RecordParts ==
    ASSUME IInv, TypeOK', Keeps, NEW r, NEW last, RecordStep(r, last),
           NodeOK(last)', \A i \in DOMAIN log' \ DOMAIN log : MessageOK(i)',
           r \in DOMAIN runs => RunOK(r)' /\ CallsOK(r)' /\ OwnOK(r)',
           UNCHANGED <<sidecar, worker>>
    PROVE  NodesOK' /\ MessagesOK' /\ RunsOK' /\ ProcessesOK'
  <1>1. \A q \in DOMAIN runs \ {r} : Unmoved(q)
    BY DEF RecordStep, Unmoved
  <1>2. \A n \in DOMAIN dag' \ DOMAIN dag : n = last
    BY DEF RecordStep
  <1>3. NodesOK' /\ MessagesOK' /\ RunsOK'
    <2>1. \A n \in DOMAIN dag' \ DOMAIN dag : NodeOK(n)'
      BY <1>2
    <2>2. \A q \in DOMAIN runs' : q \in {r, r} => RunOK(q)' /\ CallsOK(q)' /\ OwnOK(q)'
      BY DEF RecordStep
    <2>3. \A q \in DOMAIN runs' : q \in DOMAIN runs \/ q = r
      BY DEF RecordStep
    <2>4. \A q \in DOMAIN runs \ {r, r} : Unmoved(q)
      BY <1>1
    <2> QED BY <2>1, <2>2, <2>3, <2>4, Kept
  <1> QED BY <1>3, ProcessesKept

-----------------------------------------------------------------------------
(* Requests *)

LEMMA RequestNode ==
    ASSUME IInv, TypeOK', Keeps, NEW r \in DOMAIN runs, InCalls(r),
           NEW last, RecordStep(r, last), dag'[last].type = "request",
           dag'[last].parent = runs[r].head, dag'[last].of = <<runs[r].answer, runs[r].next>>,
           dag'[last].told = runs[r].state
    PROVE  NodeOK(last)'
  <1>1. /\ Is(runs[r].answer, "complete", r) /\ runs[r].head \in DOMAIN dag
        /\ dag[runs[r].head].run = r /\ dag[runs[r].head].type # "invoke"
        /\ runs[r].state \in 0..Len(dag)
    BY InCallsFacts, RunType DEF IInv
  <1>2. \A n \in DOMAIN dag : n \in DOMAIN dag' /\ dag'[n] = dag[n] /\ n \in Nat /\ n < last /\ n # 0
    BY DEF Keeps, Continues, RecordStep
  <1>3. r \in DOMAIN runs' /\ dag'[last].parent \in 0..(last - 1) /\ dag'[last].told \in 0..last
        /\ dag'[last].run = r
    BY <1>1, <1>2, Lengths DEF RecordStep, IInv
  <1>4. RequestOK(last)'
    BY <1>1, <1>2, <1>3 DEF RequestOK, Is
  <1>5. InvokeOK(last)' /\ CompleteOK(last)' /\ ResponseOK(last)'
    BY DEF InvokeOK, CompleteOK, ResponseOK
  <1> QED BY <1>3, <1>4, <1>5 DEF NodeOK

LEMMA RequestedOK ==
    ASSUME IInv, TypeOK', Keeps, NEW r \in DOMAIN runs, Asks(r, "tool"),
           NEW last, RecordStep(r, last), dag'[last].type = "request",
           dag'[last].parent = runs[r].head, dag'[last].of = <<runs[r].answer, runs[r].next>>,
           runs'[r] = [runs[r] EXCEPT !.at = "requested", !.head = last]
    PROVE  RunOK(r)' /\ CallsOK(r)' /\ OwnOK(r)'
  <1>1. PICK next : next = runs'[r]
    OBVIOUS
  <1>2. /\ next.at = "requested" /\ next.turn = runs[r].turn /\ next.answer = runs[r].answer
        /\ next.invoke = runs[r].invoke /\ next.head = last /\ next.own = runs[r].own
        /\ next.next = runs[r].next /\ next.late = runs[r].late
    BY <1>1, RunType DEF RunRecord, IInv
  <1>3. RunOK(r) /\ CallsOK(r) /\ OwnOK(r) /\ runs[r].at = "calling" /\ InCalls(r)
        /\ dag[runs[r].answer].calls[runs[r].next] = "tool"
    BY DEF IInv, RunsOK, Asks, Calls, InCalls
  <1>4. \A n \in DOMAIN dag : n \in DOMAIN dag' /\ dag'[n] = dag[n] /\ n \in Nat /\ n < last
    BY DEF Keeps, Continues, RecordStep
  <1>5. /\ Is(next.answer, "complete", r)' /\ next.answer # 0
        /\ (next.invoke # 0 => Is(next.invoke, "invoke", r))'
        /\ next.turn <= Len(jobs)' /\ next.next \in 1..Len(dag'[next.answer].calls)
    <2>1. next.turn <= Len(jobs) /\ next.turn \in Nat /\ Len(jobs) <= Len(jobs)'
      BY <1>2, <1>3, InCallsFacts, RunType DEF IInv, Keeps
    <2>2. Len(jobs) \in Nat /\ Len(jobs)' \in Nat
      BY Lengths, LengthsNext DEF IInv
    <2> QED BY <1>2, <1>3, <1>4, <2>1, <2>2, InCallsFacts DEF Is, Calls
  <1>6. RunOK(r)'
    <2>1. Is(next.head, "request", r)' /\ dag'[next.head].of = <<next.answer, next.next>>
          /\ next.head # 0 /\ dag'[next.head].run = r
      BY <1>2 DEF Is, RecordStep
    <2>2. \A m \in (next.head + 1)..Len(dag)' : FALSE
      BY <1>2 DEF RecordStep
    <2>3. next.turn <= Len(jobs)' + 1
      BY <1>5, LengthsNext, <1>2, RunType DEF IInv
    <2> QED BY <1>1, <1>2, <1>5, <2>1, <2>2, <2>3 DEF RunOK, InCalls, Calls, Is
  <1>7. CallsOK(r)'
    <2> SUFFICES ASSUME NEW a \in Nat, NEW k \in Nat, a # 0, a = next.answer, ~next.late,
                        Over(r, k)', k \in DOMAIN dag'[a].calls, dag'[a].calls[k] = "tool"
                 PROVE  Answered(a, k)'
      BY <1>1 DEF CallsOK
    <2>1. a \in DOMAIN dag /\ dag'[a] = dag[a]
      BY <1>2, <1>3, <1>4, InCallsFacts
    <2>2. Over(r, k)
      BY <1>1, <1>2, <1>3 DEF Over, InCalls
    <2> QED BY <1>2, <1>3, <2>1, <2>2, AnsweredKept DEF CallsOK, IInv
  <1>8. OwnOK(r)'
    <2> SUFFICES ASSUME runs[r].own, NEW n \in DOMAIN dag', dag'[n].run = r
                 PROVE  /\ dag'[n].type \in {"request", "invoke"} /\ Sent(n)'
                               => dag'[n].parent < last
                        /\ dag'[n].type = "request" => Past(n, r)'
                        /\ dag'[n].type = "response" => dag'[n].parent < last
      BY <1>1, <1>2 DEF OwnOK, Front
    <2>1. runs[r].head \in Nat /\ runs[r].head < last
      BY <1>3, <1>4, InCallsFacts
    <2>2. CASE n = last
      <3>1. runs[r].next \in Nat
        BY RunType DEF IInv
      <3> QED BY <1>1, <1>2, <2>1, <2>2, <3>1 DEF Past
    <2>3. CASE n \in DOMAIN dag
      <3>1. /\ dag[n].type \in {"request", "invoke"} /\ Sent(n) => dag[n].parent < runs[r].head
            /\ dag[n].type = "request" => Past(n, r)
            /\ dag[n].type = "response" => dag[n].parent < runs[r].head
        BY <1>3, <1>4, <2>3, OwnFacts
      <3>2. dag[n].parent \in Nat /\ last \in Nat
        BY <2>3, NodeType DEF IInv, RecordStep
      <3>3. dag'[n].type = "request" => Past(n, r)'
        BY <1>1, <1>2, <1>4, <2>3, <3>1 DEF Past
      <3>4. Sent(n)' => Sent(n)
        BY <2>3, SentKept DEF IInv
      <3> QED BY <1>4, <2>1, <2>3, <3>1, <3>2, <3>3, <3>4
    <2> QED BY <2>2, <2>3 DEF RecordStep
  <1> QED BY <1>6, <1>7, <1>8

LEMMA RecordTyped ==
    ASSUME IInv, Grows, NEW r, NEW last, RecordStep(r, last),
           log' \in Seq(MessageRecord'), runs' \in Seq(RunRecord'), jobs' \in Seq(JobRecord'),
           UNCHANGED <<consumers, worker>>, sidecar' \in ProcessOK', faults' \in 0..MaxFaults
    PROVE  TypeOK'
  BY Widened, TypePartsNext DEF IInv, RecordStep

LEMMA FaultTyped == ASSUME TypeOK, Fault PROVE faults' \in 0..MaxFaults /\ faults' # 0
  BY TypeParts, Lengths DEF Fault

LEMMA FaultQuiet == ASSUME faults' # 0 PROVE Quiet'
  BY DEF Quiet

\* A new message of a step that records node last, or answers one.
LEMMA PublishKeeps ==
    ASSUME TypeOK, Grows, NEW m, m \in MessageRecord', Publish(m), NEW at, at = Len(log) + 1
    PROVE  /\ log' \in Seq(MessageRecord') /\ Continues(log', log) /\ log'[at] = m
           /\ DOMAIN log' = DOMAIN log \cup {at} /\ at \notin DOMAIN log /\ at \in Nat
           /\ \A i \in DOMAIN log' \ DOMAIN log : i = at
  <1>1. /\ log' \in Seq(MessageRecord') /\ Continues(log', log)
        /\ DOMAIN log' = DOMAIN log \cup {Len(log) + 1} /\ Len(log) + 1 \notin DOMAIN log
        /\ log'[Len(log) + 1] = m
    BY PublishEffect
  <1>2. Len(log) \in Nat
    BY Lengths
  <1> QED BY <1>1, <1>2

\* The queue and the sidecar hold what they held when the message is no invoke or completion.
LEMMA QuietRecord ==
    ASSUME IInv, TypeOK', Continues(dag', dag), Continues(log', log),
           UNCHANGED <<consumers, sidecar, faults>>,
           \A i \in DOMAIN log' \ DOMAIN log : log'[i].kind \notin {"invoke", "complete"},
           NEW r \in DOMAIN runs, runs[r].at # "awaiting", runs'[r].own = runs[r].own,
           DOMAIN runs' = DOMAIN runs, \A q \in DOMAIN runs \ {r} : runs'[q] = runs[q]
    PROVE  Quiet'
  <1>1. Holding
    BY DEF Holding
  <1>2. faults' = 0 => faults = 0 /\ \A c \in Consumers : consumers'[c].owed = {}
    BY DEF IInv, Quiet
  <1> QED BY <1>1, <1>2, QuietKept

LEMMA RequestEffect ==
    ASSUME IInv, NEW r \in DOMAIN runs, Asks(r, "tool"),
           Record("request", runs[r].head, r, <<runs[r].answer, runs[r].next>>, NoCalls,
                  runs[r].state),
           NEW run, Set(r, run), NEW last, last = Recorded
    PROVE  /\ RecordStep(r, last) /\ runs'[r] = run /\ dag'[last].type = "request"
           /\ dag'[last].parent = runs[r].head /\ dag'[last].told = runs[r].state
           /\ dag'[last].of = <<runs[r].answer, runs[r].next>>
           /\ InCalls(r) /\ runs[r].at = "calling"
  <1>1. PICK type, head, of, calls, told :
            /\ head = runs[r].head /\ of = <<runs[r].answer, runs[r].next>>
            /\ told = runs[r].state /\ type = "request" /\ calls = NoCalls
    OBVIOUS
  <1>2. head \in 0..Len(dag) /\ of \in Nat \X Nat /\ told \in Nat /\ type \in Kinds
        /\ calls \in CallLists \cup {NoCalls} /\ TypeOK
    BY <1>1, RunType, Lengths DEF IInv, Kinds
  <1>3. PICK node : /\ dag' = Append(dag, node)
                    /\ node = [type |-> type, parent |-> head, run |-> r, of |-> of,
                               calls |-> calls, told |-> told, state |-> Inherit(head, told)]
    BY <1>1 DEF Record
  <1>4. /\ dag' \in Seq(Node) /\ Len(dag)' = last /\ last \in Nat /\ last # 0
        /\ last = Len(dag) + 1
        /\ DOMAIN dag' = DOMAIN dag \cup {last} /\ last \notin DOMAIN dag
        /\ Continues(dag', dag) /\ DOMAIN dag = 1..(last - 1)
        /\ dag'[last].type = type /\ dag'[last].parent = head /\ dag'[last].run = r
        /\ dag'[last].of = of /\ dag'[last].calls = calls /\ dag'[last].told = told
    <2>1. Inherit(head, told) \in Nat
      BY <1>2, InheritType DEF IInv
    <2>2. head \in Nat /\ r \in Nat
      BY <1>2, Lengths DEF IInv
    <2>3. node \in Node
      BY <1>2, <1>3, <2>1, <2>2 DEF Node, Kinds
    <2>4. /\ dag' \in Seq(Node) /\ Len(dag)' = last /\ last \in Nat /\ last # 0
          /\ last = Len(dag) + 1
          /\ DOMAIN dag' = DOMAIN dag \cup {last} /\ last \notin DOMAIN dag
          /\ Continues(dag', dag) /\ DOMAIN dag = 1..(last - 1) /\ dag'[last] = node
      BY <1>2, <1>3, <2>3, NodeAppended DEF IInv
    <2> QED BY <1>3, <2>4
  <1>5. /\ DOMAIN runs' = DOMAIN runs /\ Len(runs)' = Len(runs) /\ runs'[r] = run
        /\ \A q \in DOMAIN runs \ {r} : runs'[q] = runs[q]
    BY SetEffect DEF IInv
  <1> QED BY <1>1, <1>4, <1>5, Lengths DEF RecordStep, IInv, Asks, InCalls

LEMMA RequestSentInv ==
    ASSUME IInv, NEW r \in DOMAIN runs, Asks(r, "tool"),
           Record("request", runs[r].head, r, <<runs[r].answer, runs[r].next>>, NoCalls,
                  runs[r].state),
           Publish(Message("request", r, Recorded, 0)),
           Set(r, [runs[r] EXCEPT !.at = "requested", !.head = Recorded]),
           UNCHANGED <<consumers, jobs, sidecar, worker, faults>>
    PROVE  IInv'
  <1>1. PICK last, at : last = Recorded /\ at = Len(log) + 1
    OBVIOUS
  <1>2. PICK run : run = [runs[r] EXCEPT !.at = "requested", !.head = last]
    OBVIOUS
  <1>3. PICK m : m = Message("request", r, last, 0)
    OBVIOUS
  <1>4. /\ RecordStep(r, last) /\ runs'[r] = run /\ dag'[last].type = "request"
        /\ dag'[last].parent = runs[r].head /\ dag'[last].told = runs[r].state
        /\ dag'[last].of = <<runs[r].answer, runs[r].next>>
        /\ InCalls(r) /\ runs[r].at = "calling"
    BY <1>1, <1>2, RequestEffect
  <1>5. Grows
    BY <1>1, <1>3, <1>4, PublishLength, RecordGrows DEF IInv
  <1>6. run \in RunRecord' /\ run.own = runs[r].own
    <2>1. runs[r] \in RunRecord' /\ last \in 0..Len(dag)'
      BY <1>4, <1>5, RunType, Widened DEF IInv, RecordStep
    <2> QED BY <1>2, <2>1 DEF RunRecord, Ats
  <1>7. runs' \in Seq(RunRecord')
    BY <1>1, <1>2, <1>5, <1>6, SetTyped DEF IInv
  <1>8. m \in MessageRecord'
    <2>1. r \in 1..Len(runs)' /\ last \in 0..Len(dag)' /\ 0 \in 0..Len(dag)'
      BY <1>4, Lengths DEF IInv, RecordStep
    <2> QED BY <1>3, <2>1 DEF Message, MessageRecord, Kinds
  <1>9. /\ log' \in Seq(MessageRecord') /\ Continues(log', log) /\ log'[at] = m
        /\ DOMAIN log' = DOMAIN log \cup {at} /\ at \notin DOMAIN log
        /\ \A i \in DOMAIN log' \ DOMAIN log : i = at
    BY <1>1, <1>3, <1>5, <1>8, PublishKeeps DEF IInv
  <1>10. m.kind = "request" /\ m.node = last /\ m.run = r
    BY <1>3 DEF Message
  <1>11. TypeOK'
    BY <1>4, <1>5, <1>7, <1>9, RecordTyped, Widened, TypeParts DEF IInv
  <1>12. Keeps
    BY <1>4, <1>5, <1>9, <1>10, RecordKeeps
  <1>13. NodeOK(last)'
    BY <1>4, <1>11, <1>12, RequestNode
  <1>14. RunOK(r)' /\ CallsOK(r)' /\ OwnOK(r)'
    BY <1>2, <1>4, <1>11, <1>12, RequestedOK
  <1>15. \A i \in DOMAIN log' \ DOMAIN log : MessageOK(i)'
    BY <1>4, <1>9, <1>10 DEF MessageOK, Is, RecordStep
  <1>16. NodesOK' /\ MessagesOK' /\ RunsOK' /\ ProcessesOK'
    BY <1>4, <1>11, <1>12, <1>13, <1>14, <1>15, RecordParts
  <1>17. OwnStays
    BY <1>4, <1>6 DEF OwnStays, RecordStep
  <1>18. Once'
    BY <1>4, <1>11, <1>12, <1>17, NextApart DEF RecordStep
  <1>19. Quiet'
    BY <1>4, <1>6, <1>9, <1>10, <1>11, QuietRecord DEF RecordStep
  <1>20. Bounds'
    BY <1>4 DEF IInv, Bounds, RecordStep
  <1> QED BY <1>11, <1>16, <1>18, <1>19, <1>20 DEF IInv

LEMMA RequestFailsInv ==
    ASSUME IInv, NEW r \in DOMAIN runs, Asks(r, "tool"),
           Record("request", runs[r].head, r, <<runs[r].answer, runs[r].next>>, NoCalls,
                  runs[r].state),
           Fault, UNCHANGED log, Set(r, Proceed([runs[r] EXCEPT !.late = TRUE])),
           UNCHANGED <<consumers, jobs, sidecar, worker>>
    PROVE  IInv'
  <1>1. PICK last : last = Recorded
    OBVIOUS
  <1>2. PICK run : run = [runs[r] EXCEPT !.late = TRUE]
    OBVIOUS
  <1>3. PICK next : next = Proceed(run)
    OBVIOUS
  <1>4. /\ RecordStep(r, last) /\ runs'[r] = next /\ dag'[last].type = "request"
        /\ dag'[last].parent = runs[r].head /\ dag'[last].told = runs[r].state
        /\ dag'[last].of = <<runs[r].answer, runs[r].next>>
        /\ InCalls(r) /\ runs[r].at = "calling"
    BY <1>1, <1>2, <1>3, RequestEffect
  <1>5. Grows
    BY <1>1, <1>4, RecordGrows DEF IInv
  <1>6. runs[r] \in RunRecord'
    BY <1>4, <1>5, RunType, Widened DEF IInv
  <1>7. run \in RunRecord'
    BY <1>2, <1>6 DEF RunRecord
  <1>8. /\ run.answer = runs[r].answer /\ run.invoke = runs[r].invoke /\ run.head = runs[r].head
        /\ run.own = runs[r].own /\ run.next = runs[r].next /\ run.turn = runs[r].turn /\ run.late
    BY <1>2, <1>6 DEF RunRecord
  <1>9. next \in RunRecord' /\ next.own = runs[r].own
    <2>1. dag[run.answer].told \in 0..Len(dag)'
      <3>1. dag[run.answer].told \in 0..Len(dag)
        BY <1>4, <1>8, InCallsFacts
      <3>2. Len(dag) \in Nat /\ Len(dag)' \in Nat /\ Len(dag) <= Len(dag)'
        BY <1>5, Lengths, LengthsNext DEF IInv, Grows
      <3> QED BY <3>1, <3>2
    <2> QED BY <1>3, <1>4, <1>5, <1>7, <1>8, <2>1, InCallsFacts, ProceedTyped, ProceedCalls
            DEF IInv
  <1>10. runs' \in Seq(RunRecord')
    BY <1>2, <1>3, <1>5, <1>9, SetTyped DEF IInv
  <1>11. faults' \in 0..MaxFaults /\ faults' # 0
    BY FaultTyped DEF IInv
  <1>12. TypeOK'
    BY <1>4, <1>5, <1>10, <1>11, RecordTyped, Widened DEF IInv
  <1>13. Keeps
    BY <1>4, <1>5, RecordKeeps, SelfContinues
  <1>14. NodeOK(last)'
    BY <1>4, <1>12, <1>13, RequestNode
  <1>15. MayProceed(r, run)'
    <2>1. PICK answer, call : answer = run.answer /\ call = run.next
      OBVIOUS
    <2>2. /\ runs[r].head <= run.head /\ run.head \in DOMAIN dag' /\ dag'[run.head].run = r
          /\ dag'[run.head].type # "invoke"
      <3>1. runs[r].head \in DOMAIN dag /\ dag[runs[r].head].run = r
            /\ dag[runs[r].head].type # "invoke" /\ runs[r].head \in Nat
        BY <1>4, InCallsFacts, Lengths DEF IInv
      <3>2. runs[r].head \in DOMAIN dag' /\ dag'[runs[r].head] = dag[runs[r].head]
        BY <1>13, <3>1 DEF Keeps, Continues
      <3> QED BY <1>8, <3>1, <3>2
    <2>3. ~Sent(last)'
      BY <1>4, MessageType, Lengths DEF Sent, RecordStep, IInv
    <2>4. \A n \in DOMAIN dag' \ DOMAIN dag : n = last
      BY <1>4 DEF RecordStep
    <2> QED BY <1>4, <1>7, <1>8, <1>12, <1>13, <2>1, <2>2, <2>3, <2>4, CallOver
  <1>16. RunOK(r)' /\ CallsOK(r)' /\ OwnOK(r)'
    BY <1>3, <1>4, <1>8, <1>12, <1>13, <1>15, InCallsFacts, ProceedOK DEF IInv, RecordStep
  <1>17. NodesOK' /\ MessagesOK' /\ RunsOK' /\ ProcessesOK'
    BY <1>4, <1>12, <1>13, <1>14, <1>16, RecordParts
  <1>18. OwnStays
    BY <1>4, <1>9 DEF OwnStays, RecordStep
  <1>19. Once'
    BY <1>4, <1>12, <1>13, <1>18, NextApart DEF RecordStep
  <1>20. Bounds'
    BY <1>4 DEF IInv, Bounds, RecordStep
  <1> QED BY <1>11, <1>12, <1>17, <1>19, <1>20, FaultQuiet DEF IInv

LEMMA SendRequestInv == ASSUME IInv, NEW r \in DOMAIN runs, SendRequest(r) PROVE IInv'
  BY RequestSentInv, RequestFailsInv DEF SendRequest

-----------------------------------------------------------------------------
(* Responses *)

LEMMA ResponseNode ==
    ASSUME IInv, TypeOK', Keeps, NEW r \in DOMAIN runs, runs[r].at = "requested",
           NEW last, RecordStep(r, last), dag'[last].type = "response",
           dag'[last].parent = runs[r].head, dag'[last].told = dag[runs[r].head].told
    PROVE  NodeOK(last)' /\ \A a, k : dag[runs[r].head].of = <<a, k>> => Answered(a, k)'
  <1>1. /\ Is(runs[r].head, "request", r)
        /\ \A m \in (runs[r].head + 1)..Len(dag) : dag[m].run = r => dag[m].type = "complete"
    BY DEF IInv, RunsOK, RunOK
  <1>2. \A n \in DOMAIN dag : n \in DOMAIN dag' /\ dag'[n] = dag[n] /\ n \in Nat /\ n < last /\ n # 0
    BY DEF Keeps, Continues, RecordStep
  <1>3. runs[r].head \in DOMAIN dag /\ dag[runs[r].head].told \in 0..runs[r].head
    BY <1>1 DEF Is, IInv, NodesOK, NodeOK
  <1>4. r \in DOMAIN runs' /\ dag'[last].parent \in 0..(last - 1) /\ dag'[last].told \in 0..last
        /\ dag'[last].run = r
    BY <1>2, <1>3 DEF RecordStep
  <1>5. ResponseOK(last)'
    <2>1. dag'[runs[r].head].type = "request" /\ dag'[runs[r].head].run = r
      BY <1>1, <1>2, <1>3 DEF Is, IInv
    <2>2. \A m \in (runs[r].head + 1)..(last - 1) : dag'[m].run = r => dag'[m].type = "complete"
      BY <1>1, <1>2, <1>3 DEF RecordStep
    <2> QED BY <1>2, <1>3, <1>4, <2>1, <2>2 DEF ResponseOK, Is
  <1>6. InvokeOK(last)' /\ CompleteOK(last)' /\ RequestOK(last)'
    BY DEF InvokeOK, CompleteOK, RequestOK
  <1>7. ASSUME NEW a, NEW k, dag[runs[r].head].of = <<a, k>> PROVE Answered(a, k)'
    <2>1. last \in DOMAIN dag' /\ dag'[dag'[last].parent].of = <<a, k>>
      BY <1>2, <1>3, <1>7 DEF RecordStep
    <2> QED BY <2>1 DEF Answered
  <1> QED BY <1>4, <1>5, <1>6, <1>7 DEF NodeOK

LEMMA ReceiveResponseInv ==
    ASSUME IInv, NEW r \in DOMAIN runs, NEW i \in DOMAIN log, ReceiveResponse(r, i) PROVE IInv'
  <1>1. PICK last, head : last = Recorded /\ head = runs[r].head
    OBVIOUS
  <1>2. PICK run : run = [runs[r] EXCEPT !.head = last]
    OBVIOUS
  <1>3. PICK next : next = Proceed(run)
    OBVIOUS
  <1>4. /\ runs[r].at = "requested" /\ log[i].request = head /\ Set(r, next)
        /\ UNCHANGED <<log, consumers, jobs, sidecar, worker, faults>> /\ InCalls(r)
    BY <1>1, <1>2, <1>3 DEF ReceiveResponse, FirstResponse, ResponseTo, InCalls
  <1>5. /\ Is(head, "request", r) /\ dag[head].of = <<runs[r].answer, runs[r].next>>
        /\ head \in DOMAIN dag
    BY <1>1, <1>4 DEF IInv, RunsOK, RunOK, Is
  <1>6. PICK type, of, calls, told : /\ type = "response" /\ of = NoOf /\ calls = NoCalls
                                     /\ told = dag[head].told
    OBVIOUS
  <1>7. RecordStep(r, last) /\ runs'[r] = next /\ dag'[last].type = "response"
        /\ dag'[last].parent = head /\ dag'[last].told = dag[head].told
    <2>1. head \in 0..Len(dag) /\ of \in Nat \X Nat /\ told \in Nat /\ type \in Kinds
          /\ calls \in CallLists \cup {NoCalls} /\ TypeOK /\ last = Recorded
      BY <1>1, <1>5, <1>6, NodeType, Lengths DEF IInv, Kinds, NoOf
    <2>2. PICK node : /\ dag' = Append(dag, node)
                      /\ node = [type |-> type, parent |-> head, run |-> r, of |-> of,
                                 calls |-> calls, told |-> told, state |-> Inherit(head, told)]
      BY <1>4, <1>6 DEF ReceiveResponse, Record
    <2>3. /\ dag' \in Seq(Node) /\ Len(dag)' = last /\ last \in Nat /\ last # 0
          /\ last = Len(dag) + 1
          /\ DOMAIN dag' = DOMAIN dag \cup {last} /\ last \notin DOMAIN dag
          /\ Continues(dag', dag) /\ DOMAIN dag = 1..(last - 1)
          /\ dag'[last].type = type /\ dag'[last].parent = head /\ dag'[last].run = r
          /\ dag'[last].of = of /\ dag'[last].calls = calls /\ dag'[last].told = told
      <3>1. Inherit(head, told) \in Nat
        BY <2>1, InheritType DEF IInv
      <3>2. head \in Nat /\ r \in Nat
        BY <2>1, Lengths DEF IInv
      <3>3. node \in Node
        BY <2>1, <2>2, <3>1, <3>2 DEF Node, Kinds
      <3>4. /\ dag' \in Seq(Node) /\ Len(dag)' = last /\ last \in Nat /\ last # 0
            /\ last = Len(dag) + 1
            /\ DOMAIN dag' = DOMAIN dag \cup {last} /\ last \notin DOMAIN dag
            /\ Continues(dag', dag) /\ DOMAIN dag = 1..(last - 1) /\ dag'[last] = node
        BY <2>1, <2>2, <3>3, NodeAppended DEF IInv
      <3> QED BY <2>2, <3>4
    <2>4. /\ DOMAIN runs' = DOMAIN runs /\ Len(runs)' = Len(runs) /\ runs'[r] = next
          /\ \A q \in DOMAIN runs \ {r} : runs'[q] = runs[q]
      BY <1>4, SetEffect DEF IInv
    <2> QED BY <1>6, <2>3, <2>4, Lengths DEF RecordStep, IInv
  <1>8. Grows
    BY <1>4, <1>7, RecordGrows DEF IInv
  <1>9. runs[r] \in RunRecord' /\ last \in 0..Len(dag)'
    BY <1>7, <1>8, RunType, Widened DEF IInv, RecordStep
  <1>10. run \in RunRecord'
    BY <1>2, <1>9 DEF RunRecord
  <1>11. /\ run.answer = runs[r].answer /\ run.invoke = runs[r].invoke /\ run.head = last
         /\ run.own = runs[r].own /\ run.next = runs[r].next /\ run.turn = runs[r].turn
         /\ run.late = runs[r].late
    BY <1>2, <1>9 DEF RunRecord
  <1>12. next \in RunRecord' /\ next.own = runs[r].own
    <2>1. dag[run.answer].told \in 0..Len(dag)'
      <3>1. dag[run.answer].told \in 0..Len(dag)
        BY <1>4, <1>11, InCallsFacts
      <3>2. Len(dag) \in Nat /\ Len(dag)' \in Nat /\ Len(dag) <= Len(dag)'
        BY <1>8, Lengths, LengthsNext DEF IInv, Grows
      <3> QED BY <3>1, <3>2
    <2> QED BY <1>3, <1>4, <1>8, <1>10, <1>11, <2>1, InCallsFacts, ProceedTyped, ProceedCalls
            DEF IInv
  <1>13. runs' \in Seq(RunRecord')
    BY <1>4, <1>8, <1>12, SetTyped DEF IInv
  <1>14. TypeOK'
    BY <1>4, <1>7, <1>8, <1>13, RecordTyped, Widened, TypeParts DEF IInv
  <1>15. Keeps
    BY <1>4, <1>7, <1>8, RecordKeeps, SelfContinues
  <1>16. NodeOK(last)' /\ \A a, k : dag[head].of = <<a, k>> => Answered(a, k)'
    BY <1>1, <1>4, <1>7, <1>14, <1>15, ResponseNode
  <1>17. MayProceed(r, run)'
    <2>1. PICK answer, call : answer = run.answer /\ call = run.next
      OBVIOUS
    <2>2. /\ head <= run.head /\ run.head \in DOMAIN dag' /\ dag'[run.head].run = r
          /\ dag'[run.head].type # "invoke" /\ head < last
      BY <1>5, <1>7, <1>11 DEF RecordStep
    <2>3. Answered(answer, call)'
      BY <1>5, <1>11, <1>16, <2>1
    <2>4. \A n \in DOMAIN dag' \ DOMAIN dag : n = last
      BY <1>7 DEF RecordStep
    <2> QED BY <1>1, <1>4, <1>7, <1>10, <1>11, <1>14, <1>15, <2>1, <2>2, <2>3, <2>4, CallOver
  <1>18. RunOK(r)' /\ CallsOK(r)' /\ OwnOK(r)'
    BY <1>3, <1>4, <1>7, <1>11, <1>14, <1>15, <1>17, InCallsFacts, ProceedOK DEF IInv, RecordStep
  <1>19. NodesOK' /\ MessagesOK' /\ RunsOK' /\ ProcessesOK'
    BY <1>4, <1>7, <1>14, <1>15, <1>16, <1>18, RecordParts
  <1>20. OwnStays
    BY <1>7, <1>12 DEF OwnStays, RecordStep
  <1>21. Once'
    BY <1>1, <1>4, <1>7, <1>14, <1>15, <1>20, NextApart DEF RecordStep
  <1>22. Quiet'
    BY <1>4, <1>7, <1>12, <1>14, SelfContinues, QuietRecord DEF RecordStep
  <1>23. Bounds'
    BY <1>4, <1>7 DEF IInv, Bounds, RecordStep
  <1> QED BY <1>14, <1>19, <1>21, <1>22, <1>23 DEF IInv

-----------------------------------------------------------------------------
(* Invokes *)

LEMMA InvokeEffect ==
    ASSUME IInv, NEW r \in DOMAIN runs,
           Record("invoke", runs[r].head, r, NoOf, NoCalls, runs[r].state),
           NEW run, Set(r, run), NEW last, last = Recorded
    PROVE  /\ RecordStep(r, last) /\ runs'[r] = run /\ dag'[last].type = "invoke"
           /\ dag'[last].parent = runs[r].head /\ dag'[last].told = runs[r].state
  <1>1. PICK type, head, of, calls, told :
            /\ head = runs[r].head /\ of = NoOf /\ told = runs[r].state
            /\ type = "invoke" /\ calls = NoCalls
    OBVIOUS
  <1>2. head \in 0..Len(dag) /\ of \in Nat \X Nat /\ told \in Nat /\ type \in Kinds
        /\ calls \in CallLists \cup {NoCalls} /\ TypeOK /\ last = Recorded
    BY <1>1, RunType, Lengths DEF IInv, Kinds, NoOf
  <1>3. PICK node : /\ dag' = Append(dag, node)
                    /\ node = [type |-> type, parent |-> head, run |-> r, of |-> of,
                               calls |-> calls, told |-> told, state |-> Inherit(head, told)]
    BY <1>1 DEF Record
  <1>4. /\ dag' \in Seq(Node) /\ Len(dag)' = last /\ last \in Nat /\ last # 0
        /\ last = Len(dag) + 1
        /\ DOMAIN dag' = DOMAIN dag \cup {last} /\ last \notin DOMAIN dag
        /\ Continues(dag', dag) /\ DOMAIN dag = 1..(last - 1)
        /\ dag'[last].type = type /\ dag'[last].parent = head /\ dag'[last].run = r
        /\ dag'[last].of = of /\ dag'[last].calls = calls /\ dag'[last].told = told
    <2>1. Inherit(head, told) \in Nat
      BY <1>2, InheritType DEF IInv
    <2>2. head \in Nat /\ r \in Nat
      BY <1>2, Lengths DEF IInv
    <2>3. node \in Node
      BY <1>2, <1>3, <2>1, <2>2 DEF Node, Kinds
    <2>4. /\ dag' \in Seq(Node) /\ Len(dag)' = last /\ last \in Nat /\ last # 0
          /\ last = Len(dag) + 1
          /\ DOMAIN dag' = DOMAIN dag \cup {last} /\ last \notin DOMAIN dag
          /\ Continues(dag', dag) /\ DOMAIN dag = 1..(last - 1) /\ dag'[last] = node
      BY <1>2, <1>3, <2>3, NodeAppended DEF IInv
    <2> QED BY <1>3, <2>4
  <1>5. /\ DOMAIN runs' = DOMAIN runs /\ Len(runs)' = Len(runs) /\ runs'[r] = run
        /\ \A q \in DOMAIN runs \ {r} : runs'[q] = runs[q]
    BY SetEffect DEF IInv
  <1> QED BY <1>1, <1>4, <1>5, Lengths DEF RecordStep, IInv

LEMMA InvokeNode ==
    ASSUME IInv, TypeOK', Keeps, NEW r \in DOMAIN runs, NEW last, RecordStep(r, last),
           dag'[last].type = "invoke", dag'[last].parent = runs[r].head,
           dag'[last].told = runs[r].state
    PROVE  NodeOK(last)'
  <1>1. ~Is(runs[r].head, "invoke", r) /\ runs[r].state \in 0..Len(dag)
        /\ runs[r].head \in 0..Len(dag)
    BY RunType DEF IInv, RunsOK, RunOK
  <1>2. \A n \in DOMAIN dag : n \in DOMAIN dag' /\ dag'[n] = dag[n] /\ n \in Nat /\ n < last
    BY DEF Keeps, Continues, RecordStep
  <1>3. r \in DOMAIN runs' /\ dag'[last].parent \in 0..(last - 1) /\ dag'[last].told \in 0..last
        /\ dag'[last].run = r
    BY <1>1, Lengths DEF RecordStep, IInv
  <1>4. InvokeOK(last)'
    <2>1. ~(runs[r].head \in DOMAIN dag' /\ dag'[runs[r].head].type = "invoke"
            /\ dag'[runs[r].head].run = r)
      BY <1>1, <1>2, Lengths DEF Is, RecordStep, IInv
    <2> QED BY <1>3, <2>1 DEF InvokeOK, Is
  <1>5. RequestOK(last)' /\ CompleteOK(last)' /\ ResponseOK(last)'
    BY DEF RequestOK, CompleteOK, ResponseOK
  <1> QED BY <1>3, <1>4, <1>5 DEF NodeOK

LEMMA InvokedOK ==
    ASSUME IInv, TypeOK', Keeps, NEW r \in DOMAIN runs, runs[r].at = "invoking",
           Len(jobs)' = Len(jobs) + 1, NEW last, RecordStep(r, last), dag'[last].type = "invoke",
           dag'[last].parent = runs[r].head, NEW next, runs'[r] = next,
           next.at \in {"awaiting", "failed"}, next.turn = runs[r].turn,
           next.answer = runs[r].answer, next.invoke = last, next.head = runs[r].head,
           next.own = runs[r].own, next.next = runs[r].next, next.late = runs[r].late
    PROVE  RunOK(r)' /\ CallsOK(r)' /\ OwnOK(r)'
  <1>1. next = runs'[r]
    OBVIOUS
  <1>2. /\ next.at \in {"awaiting", "failed"} /\ next.turn = runs[r].turn
        /\ next.answer = runs[r].answer
        /\ next.invoke = last /\ next.head = runs[r].head /\ next.own = runs[r].own
        /\ next.next = runs[r].next /\ next.late = runs[r].late
    OBVIOUS
  <1>3. RunOK(r) /\ CallsOK(r) /\ OwnOK(r)
    BY DEF IInv, RunsOK
  <1>4. \A n \in DOMAIN dag : n \in DOMAIN dag' /\ dag'[n] = dag[n] /\ n \in Nat /\ n < last
    BY DEF Keeps, Continues, RecordStep
  <1>5. /\ runs[r].turn \in Nat /\ Len(jobs) \in Nat /\ runs[r].answer \in 0..Len(dag)
        /\ runs[r].head \in 0..Len(dag) /\ DOMAIN dag = 1..Len(dag) /\ Len(dag) \in Nat
        /\ last = Len(dag) + 1 /\ runs[r].next \in Nat
    BY RunType, Lengths DEF IInv, RecordStep
  <1>6. RunOK(r)'
    <2>1. next.turn <= Len(jobs)' /\ next.turn <= Len(jobs)' + 1
      BY <1>2, <1>3, <1>5 DEF RunOK
    <2>2. next.answer # 0 => Is(next.answer, "complete", r)'
      BY <1>2, <1>3, <1>4, <1>5 DEF RunOK, Is
    <2>3. Is(next.invoke, "invoke", r)' /\ next.invoke # 0
      BY <1>2 DEF Is, RecordStep
    <2>4. ~Is(next.head, "invoke", r)'
      BY <1>2, <1>3, <1>4, <1>5 DEF RunOK, Is, RecordStep
    <2>5. next.turn > 1 => next.answer # 0
      BY <1>2, <1>3 DEF RunOK
    <2> QED BY <1>1, <1>2, <2>1, <2>2, <2>3, <2>4, <2>5 DEF RunOK, InCalls, Is
  <1>7. CallsOK(r)'
    <2> SUFFICES ASSUME NEW a \in Nat, NEW k \in Nat, a # 0, a = next.answer, ~next.late,
                        Over(r, k)', k \in DOMAIN dag'[a].calls, dag'[a].calls[k] = "tool"
                 PROVE  Answered(a, k)'
      BY <1>1 DEF CallsOK
    <2>1. a \in DOMAIN dag /\ dag'[a] = dag[a]
      BY <1>2, <1>4, <1>5
    <2>2. Over(r, k)
      BY <1>1, <1>2 DEF Over, InCalls
    <2> QED BY <1>2, <1>3, <2>1, <2>2, AnsweredKept DEF CallsOK, IInv
  <1>8. OwnOK(r)'
    <2>1. ASSUME runs[r].own, NEW n \in DOMAIN dag', dag'[n].run = r
          PROVE  /\ /\ dag'[n].type \in {"request", "invoke"} /\ Sent(n)' /\ next.at = "awaiting"
                    => dag'[n].parent < last
                 /\ dag'[n].type = "request" => Past(n, r)'
                 /\ dag'[n].type = "response" => dag'[n].parent < next.head
      <3>1. CASE n = last
        BY <1>5, <3>1
      <3>2. CASE n \in DOMAIN dag
        <4>1. /\ dag[n].type \in {"request", "invoke"} /\ Sent(n) => dag[n].parent < runs[r].head
              /\ dag[n].type = "request" => Past(n, r)
              /\ dag[n].type = "response" => dag[n].parent < runs[r].head
          BY <1>3, <1>4, <2>1, <3>2 DEF OwnOK, Front
        <4>2. dag[n].parent \in Nat /\ last \in Nat
          BY <3>2, NodeType DEF IInv, RecordStep
        <4>3. dag'[n].type = "request" => Past(n, r)'
          BY <1>1, <1>2, <1>4, <3>2, <4>1 DEF Past
        <4>4. Sent(n)' => Sent(n)
          BY <3>2, SentKept DEF IInv
        <4> QED BY <1>2, <1>4, <1>5, <3>2, <4>1, <4>2, <4>3, <4>4
      <3> QED BY <3>1, <3>2 DEF RecordStep
    <2>2. next.answer < last /\ next.head < last
      BY <1>2, <1>5
    <2> QED BY <1>1, <1>2, <2>1, <2>2 DEF OwnOK, Front
  <1> QED BY <1>6, <1>7, <1>8

\* Nothing holds an invoke of a run that waits for none.
LEMMA HeldWhenAwaiting ==
    ASSUME IInv, faults = 0, NEW r \in DOMAIN runs, NEW place \in Places, NEW i \in Nat,
           Holds(r, place, i)
    PROVE  /\ runs[r].at = "awaiting" /\ InvokeAt(place, i) = runs[r].invoke
           /\ \A p \in Places, j \in Nat : Holds(r, p, j) => p = place /\ j = i
  BY DEF IInv, Quiet, HeldOK

LEMMA InvokeSentQuiet ==
    ASSUME IInv, TypeOK', Continues(dag', dag), Continues(log', log),
           UNCHANGED <<consumers, sidecar, faults>>,
           NEW r \in DOMAIN runs, runs[r].at = "invoking", NEW last, NEW at,
           DOMAIN log' = DOMAIN log \cup {at}, at \in Nat, at \notin DOMAIN log,
           log'[at].kind = "invoke", log'[at].run = r, log'[at].node = last,
           runs'[r].at = "awaiting", runs'[r].own = runs[r].own, runs'[r].invoke = last,
           DOMAIN runs' = DOMAIN runs, \A q \in DOMAIN runs \ {r} : runs'[q] = runs[q]
    PROVE  Quiet'
  <1> SUFFICES ASSUME faults = 0, NEW q \in DOMAIN runs PROVE runs'[q].own /\ HeldOK(q)'
    BY DEF Quiet, IInv
  <1>1. runs'[q].own
    BY DEF Quiet, IInv
  <1>2. PICK s, t : s = consumers'[Invokes].seen /\ t = consumers'[Completes(q)].seen
    OBVIOUS
  <1>3. s \in Nat /\ t \in Nat /\ consumers[Invokes].seen <= s /\ consumers[Completes(q)].seen <= t
    BY <1>2, RunConsumers
  <1>4. ASSUME NEW place \in Places, NEW i \in Nat, Holds(q, place, i)'
        PROVE  \/ q = r /\ place = "sent" /\ i = at
               \/ Holds(q, place, i) /\ InvokeAt(place, i)' = InvokeAt(place, i)
    <2>1. CASE place = "busy" \/ i \in DOMAIN log
      BY <1>2, <1>3, <1>4, <2>1, HoldsOld
    <2>2. CASE place # "busy" /\ i \notin DOMAIN log
      BY <1>4, <2>2 DEF Holds, Places
    <2> QED BY <2>1, <2>2
  <1>5. CASE q # r
    <2>1. ASSUME NEW place \in Places, NEW i \in Nat, Holds(q, place, i)'
          PROVE  /\ runs'[q].at = "awaiting" /\ InvokeAt(place, i)' = runs'[q].invoke
                 /\ \A p \in Places, j \in Nat : Holds(q, p, j)' => p = place /\ j = i
      BY <1>4, <1>5, <2>1, HeldWhenAwaiting
    <2> QED BY <1>1, <2>1 DEF HeldOK
  <1>6. CASE q = r
    <2>1. \A place \in Places, i \in Nat : Holds(r, place, i)' => place = "sent" /\ i = at
      BY <1>4, <1>6, HeldWhenAwaiting
    <2>2. InvokeAt("sent", at)' = last
      BY DEF InvokeAt
    <2>3. ASSUME NEW place \in Places, NEW i \in Nat, Holds(q, place, i)'
          PROVE  /\ runs'[q].at = "awaiting" /\ InvokeAt(place, i)' = runs'[q].invoke
                 /\ \A p \in Places, j \in Nat : Holds(q, p, j)' => p = place /\ j = i
      <3>1. place = "sent" /\ i = at
        BY <1>6, <2>1, <2>3
      <3>2. InvokeAt(place, i)' = last
        BY <3>1 DEF InvokeAt
      <3> QED BY <1>6, <2>1, <3>1, <3>2
    <2> QED BY <1>1, <2>3 DEF HeldOK
  <1> QED BY <1>5, <1>6

LEMMA SendInvokeInv == ASSUME IInv, NEW r \in DOMAIN runs, SendInvoke(r) PROVE IInv'
  <1>1. PICK last, at, job, status :
            /\ last = Recorded /\ at = Len(log) + 1 /\ job = Len(jobs) + 1
            /\ \/ /\ status = "awaiting" /\ Publish(Message("invoke", r, last, 0))
                  /\ UNCHANGED faults
               \/ status = "failed" /\ Fault /\ UNCHANGED log
            /\ Set(r, [runs[r] EXCEPT !.at = status, !.invoke = last, !.job = job])
    BY DEF SendInvoke
  <1>2. PICK run : run = [runs[r] EXCEPT !.at = status, !.invoke = last, !.job = job]
    OBVIOUS
  <1>3. PICK m : m = Message("invoke", r, last, 0)
    OBVIOUS
  <1>4. /\ runs[r].at = "invoking" /\ Len(jobs) < MaxTurns
        /\ jobs' = Append(jobs, [run |-> r, status |-> "Running"])
        /\ Record("invoke", runs[r].head, r, NoOf, NoCalls, runs[r].state)
        /\ UNCHANGED <<consumers, sidecar, worker>>
    BY DEF SendInvoke
  <1>5. /\ RecordStep(r, last) /\ runs'[r] = run /\ dag'[last].type = "invoke"
        /\ dag'[last].parent = runs[r].head /\ dag'[last].told = runs[r].state
    BY <1>1, <1>2, <1>4, InvokeEffect
  <1>6. [run |-> r, status |-> "Running"] \in JobRecord
    BY Lengths DEF JobRecord, IInv
  <1>7. Len(jobs)' = Len(jobs) + 1 /\ Len(jobs) \in Nat
    BY <1>4, <1>6, TypeParts, SeqAppend, Lengths DEF IInv
  <1>8. Len(log)' = Len(log) \/ Len(log)' = Len(log) + 1
    BY <1>1, PublishLength DEF IInv
  <1>9. Grows
    BY <1>5, <1>7, <1>8, RecordGrows
  <1>10. jobs' \in Seq(JobRecord')
    <2>1. [run |-> r, status |-> "Running"] \in JobRecord' /\ jobs \in Seq(JobRecord')
      BY <1>6, <1>9, Widened DEF IInv
    <2> QED BY <1>4, <2>1, SeqAppend
  <1>11. run \in RunRecord' /\ run.own = runs[r].own /\ run.at = status /\ run.invoke = last
    <2>1. runs[r] \in RunRecord' /\ last \in 0..Len(dag)' /\ job \in 0..Len(jobs)'
          /\ status \in Ats
      BY <1>1, <1>5, <1>7, <1>9, RunType, Widened DEF IInv, RecordStep, Ats
    <2> QED BY <1>2, <2>1 DEF RunRecord
  <1>12. runs' \in Seq(RunRecord')
    BY <1>1, <1>2, <1>9, <1>11, SetTyped DEF IInv
  <1>13. m \in MessageRecord' /\ m.kind = "invoke" /\ m.node = last /\ m.run = r
    <2>1. r \in 1..Len(runs)' /\ last \in 0..Len(dag)' /\ 0 \in 0..Len(dag)'
      BY <1>5, Lengths DEF IInv, RecordStep
    <2> QED BY <1>3, <2>1 DEF Message, MessageRecord, Kinds
  <1>14. status = "awaiting" =>
             /\ log' \in Seq(MessageRecord') /\ Continues(log', log) /\ log'[at] = m
             /\ DOMAIN log' = DOMAIN log \cup {at} /\ at \notin DOMAIN log /\ at \in Nat
             /\ \A i \in DOMAIN log' \ DOMAIN log : i = at
    BY <1>1, <1>3, <1>9, <1>13, PublishKeeps DEF IInv
  <1>15. status = "failed" => log' = log /\ faults' \in 0..MaxFaults /\ faults' # 0
    BY <1>1, FaultTyped DEF IInv
  <1>16. status = "awaiting" => faults' = faults
    BY <1>1
  <1>17. log' \in Seq(MessageRecord') /\ Continues(log', log) /\ faults' \in 0..MaxFaults
         /\ \A i \in DOMAIN log' \ DOMAIN log : log'[i] = m
    BY <1>1, <1>9, <1>14, <1>15, <1>16, Widened, TypeParts, SelfContinues DEF IInv
  <1>18. TypeOK'
    BY <1>4, <1>5, <1>9, <1>10, <1>12, <1>17, RecordTyped, Widened DEF IInv
  <1>19. Keeps
    BY <1>5, <1>9, <1>13, <1>17, RecordKeeps
  <1>20. NodeOK(last)'
    BY <1>5, <1>18, <1>19, InvokeNode
  <1>21. RunOK(r)' /\ CallsOK(r)' /\ OwnOK(r)'
    <2>1. /\ run.at \in {"awaiting", "failed"} /\ run.turn = runs[r].turn
          /\ run.answer = runs[r].answer /\ run.invoke = last /\ run.head = runs[r].head
          /\ run.own = runs[r].own /\ run.next = runs[r].next /\ run.late = runs[r].late
      BY <1>1, <1>2, RunType DEF RunRecord, IInv
    <2> QED BY <1>4, <1>5, <1>7, <1>18, <1>19, <2>1, InvokedOK
  <1>22. \A i \in DOMAIN log' \ DOMAIN log : MessageOK(i)'
    BY <1>5, <1>13, <1>17 DEF MessageOK, Is, RecordStep
  <1>23. NodesOK' /\ MessagesOK' /\ RunsOK' /\ ProcessesOK'
    BY <1>4, <1>5, <1>18, <1>19, <1>20, <1>21, <1>22, RecordParts
  <1>24. OwnStays
    BY <1>5, <1>11 DEF OwnStays, RecordStep
  <1>25. Once'
    BY <1>4, <1>5, <1>18, <1>19, <1>24, NextApart DEF RecordStep
  <1>26. Quiet'
    <2>1. CASE status = "awaiting"
      BY <1>4, <1>5, <1>11, <1>13, <1>14, <1>16, <1>18, <2>1, InvokeSentQuiet DEF RecordStep
    <2>2. CASE status = "failed"
      BY <1>15, <2>2, FaultQuiet
    <2> QED BY <1>1, <2>1, <2>2
  <1>27. Bounds'
    BY <1>4, <1>5, <1>7, Lengths DEF IInv, Bounds, RecordStep
  <1> QED BY <1>18, <1>23, <1>25, <1>26, <1>27 DEF IInv

-----------------------------------------------------------------------------
(* Completions *)

LEMMA CompleteSentQuiet ==
    ASSUME IInv, TypeOK', Continues(dag', dag), Continues(log', log),
           UNCHANGED <<consumers, runs, faults>>, Busy(sidecar), ~Busy(sidecar'),
           NEW r \in DOMAIN runs, NEW node, node = sidecar.node, dag[node].run = r,
           NEW last, NEW at, DOMAIN log' = DOMAIN log \cup {at}, at \in Nat, at \notin DOMAIN log,
           log'[at].kind = "complete", log'[at].run = r, log'[at].node = last,
           dag'[last].of[1] = node
    PROVE  Quiet'
  <1> SUFFICES ASSUME faults = 0, NEW q \in DOMAIN runs PROVE runs[q].own /\ HeldOK(q)'
    BY DEF Quiet, IInv
  <1>1. runs[q].own
    BY DEF Quiet, IInv
  <1>2. PICK s, t : s = consumers'[Invokes].seen /\ t = consumers'[Completes(q)].seen
    OBVIOUS
  <1>3. s \in Nat /\ t \in Nat /\ consumers[Invokes].seen <= s /\ consumers[Completes(q)].seen <= t
    BY <1>2, RunConsumers
  <1>4. ASSUME NEW place \in Places, NEW i \in Nat, Holds(q, place, i)'
        PROVE  /\ place # "busy"
               /\ \/ q = r /\ place = "answered" /\ i = at
                  \/ Holds(q, place, i) /\ InvokeAt(place, i)' = InvokeAt(place, i)
    <2>1. place # "busy"
      BY <1>4 DEF Holds, Busy
    <2>2. CASE i \in DOMAIN log
      BY <1>2, <1>3, <1>4, <2>1, <2>2, HoldsOld
    <2>3. CASE i \notin DOMAIN log
      BY <1>4, <2>1, <2>3 DEF Holds, Places
    <2> QED BY <2>1, <2>2, <2>3
  <1>5. CASE q # r
    <2>1. ASSUME NEW place \in Places, NEW i \in Nat, Holds(q, place, i)'
          PROVE  /\ runs[q].at = "awaiting" /\ InvokeAt(place, i)' = runs[q].invoke
                 /\ \A p \in Places, j \in Nat : Holds(q, p, j)' => p = place /\ j = i
      BY <1>4, <1>5, <2>1, HeldWhenAwaiting
    <2> QED BY <1>1, <2>1 DEF HeldOK
  <1>6. CASE q = r
    <2>1. Holds(r, "busy", 0) /\ "busy" \in Places /\ 0 \in Nat /\ InvokeAt("busy", 0) = node
      BY DEF Holds, Places, InvokeAt
    <2>2. runs[r].at = "awaiting" /\ node = runs[r].invoke
      BY <2>1, HeldWhenAwaiting
    <2>3. \A place \in Places, i \in Nat : Holds(r, place, i)' => place = "answered" /\ i = at
      BY <1>4, <1>6, <2>1, HeldWhenAwaiting
    <2>4. ASSUME NEW place \in Places, NEW i \in Nat, Holds(q, place, i)'
          PROVE  /\ runs[q].at = "awaiting" /\ InvokeAt(place, i)' = runs[q].invoke
                 /\ \A p \in Places, j \in Nat : Holds(q, p, j)' => p = place /\ j = i
      <3>1. place = "answered" /\ i = at
        BY <1>6, <2>3, <2>4
      <3>2. InvokeAt(place, i)' = node
        BY <3>1 DEF InvokeAt
      <3> QED BY <1>6, <2>2, <2>3, <3>1, <3>2
    <2> QED BY <1>1, <2>4 DEF HeldOK
  <1> QED BY <1>5, <1>6

LEMMA CompleteEffect ==
    ASSUME TypeOK, NEW r \in DOMAIN runs, NEW node \in DOMAIN dag, NEW last, last = Recorded,
           NEW parent \in {0, node}, NEW calls \in CallLists \cup {NoCalls},
           NEW told \in {0, last}, Record("complete", parent, r, <<node, 0>>, calls, told),
           runs' = runs
    PROVE  /\ RecordStep(r, last) /\ dag'[last].type = "complete"
           /\ dag'[last].parent = parent /\ dag'[last].told = told
           /\ dag'[last].of = <<node, 0>>
  <1>1. PICK type, of : type = "complete" /\ of = <<node, 0>>
    OBVIOUS
  <1>2. parent \in 0..Len(dag) /\ of \in Nat \X Nat /\ told \in Nat /\ type \in Kinds
    BY <1>1, Lengths DEF Kinds, Recorded
  <1>3. PICK entry : /\ dag' = Append(dag, entry)
                     /\ entry = [type |-> type, parent |-> parent, run |-> r, of |-> of,
                                 calls |-> calls, told |-> told,
                                 state |-> Inherit(parent, told)]
    BY <1>1 DEF Record
  <1>4. /\ dag' \in Seq(Node) /\ Len(dag)' = last /\ last \in Nat /\ last # 0
        /\ last = Len(dag) + 1
        /\ DOMAIN dag' = DOMAIN dag \cup {last} /\ last \notin DOMAIN dag
        /\ Continues(dag', dag) /\ DOMAIN dag = 1..(last - 1)
        /\ dag'[last].type = type /\ dag'[last].parent = parent /\ dag'[last].run = r
        /\ dag'[last].of = of /\ dag'[last].calls = calls /\ dag'[last].told = told
    <2>1. Inherit(parent, told) \in Nat
      BY <1>2, InheritType DEF IInv
    <2>2. parent \in Nat /\ r \in Nat
      BY <1>2, Lengths DEF IInv
    <2>3. entry \in Node
      BY <1>2, <1>3, <2>1, <2>2 DEF Node, Kinds
    <2>4. /\ dag' \in Seq(Node) /\ Len(dag)' = last /\ last \in Nat /\ last # 0
          /\ last = Len(dag) + 1
          /\ DOMAIN dag' = DOMAIN dag \cup {last} /\ last \notin DOMAIN dag
          /\ Continues(dag', dag) /\ DOMAIN dag = 1..(last - 1) /\ dag'[last] = entry
      BY <1>2, <1>3, <2>3, NodeAppended DEF IInv
    <2> QED BY <1>3, <2>4
  <1> QED BY <1>1, <1>4, Lengths DEF RecordStep

LEMMA CompleteInv ==
    ASSUME IInv, Busy(sidecar), NEW node, node = sidecar.node, NEW r, r = dag[node].run,
           NEW last, last = Recorded, NEW parent \in {0, node},
           NEW calls \in CallLists \cup {NoCalls}, NEW told \in {0, last},
           Record("complete", parent, r, <<node, 0>>, calls, told),
           Publish(Message("complete", r, last, 0)), sidecar' = Idle,
           UNCHANGED <<consumers, runs, jobs, worker, faults>>
    PROVE  IInv'
  <1>1. Is(node, "invoke", r) /\ r \in DOMAIN runs /\ node \in DOMAIN dag
    BY DEF IInv, ProcessesOK, Is, NodesOK, NodeOK
  <1>2. PICK at, m, type, of : /\ at = Len(log) + 1 /\ m = Message("complete", r, last, 0)
                               /\ type = "complete" /\ of = <<node, 0>>
    OBVIOUS
  <1>3. RecordStep(r, last) /\ dag'[last].type = "complete"
        /\ dag'[last].parent = parent /\ dag'[last].told = told /\ dag'[last].of = <<node, 0>>
    BY <1>1, CompleteEffect DEF IInv
  <1>4. Grows
    BY <1>2, <1>3, PublishLength, RecordGrows DEF IInv
  <1>5. m \in MessageRecord' /\ m.kind = "complete" /\ m.node = last /\ m.run = r
    <2>1. r \in 1..Len(runs)' /\ last \in 0..Len(dag)' /\ 0 \in 0..Len(dag)'
      BY <1>1, <1>3, Lengths DEF IInv, RecordStep
    <2> QED BY <1>2, <2>1 DEF Message, MessageRecord, Kinds
  <1>6. /\ log' \in Seq(MessageRecord') /\ Continues(log', log) /\ log'[at] = m
        /\ DOMAIN log' = DOMAIN log \cup {at} /\ at \notin DOMAIN log /\ at \in Nat
        /\ \A i \in DOMAIN log' \ DOMAIN log : i = at
    BY <1>2, <1>4, <1>5, PublishKeeps DEF IInv
  <1>7. TypeOK'
    <2>1. sidecar' \in ProcessOK' /\ runs' \in Seq(RunRecord')
      BY <1>3, <1>4, Widened DEF Idle, ProcessOK, RecordStep, IInv
    <2> QED BY <1>3, <1>4, <1>6, <2>1, RecordTyped, Widened, TypeParts DEF IInv
  <1>8. Keeps
    BY <1>3, <1>4, <1>5, <1>6, RecordKeeps
  <1>9. \A n \in DOMAIN dag : n \in DOMAIN dag' /\ dag'[n] = dag[n] /\ n \in Nat /\ n < last
    BY <1>3, <1>8 DEF Keeps, Continues, RecordStep
  <1>10. NodeOK(last)'
    <2>1. CompleteOK(last)'
      BY <1>1, <1>3, <1>9 DEF CompleteOK, Is, RecordStep
    <2>2. InvokeOK(last)' /\ RequestOK(last)' /\ ResponseOK(last)'
      BY <1>3 DEF InvokeOK, RequestOK, ResponseOK
    <2>3. r \in DOMAIN runs' /\ dag'[last].parent \in 0..(last - 1) /\ dag'[last].told \in 0..last
          /\ dag'[last].run = r
      BY <1>1, <1>3, <1>9 DEF RecordStep
    <2> QED BY <2>1, <2>2, <2>3 DEF NodeOK
  <1>11. NodesOK' /\ MessagesOK' /\ RunsOK'
    <2>1. \A i \in DOMAIN log' \ DOMAIN log : MessageOK(i)'
      BY <1>3, <1>5, <1>6 DEF MessageOK, Is, RecordStep
    <2>2. \A n \in DOMAIN dag' \ DOMAIN dag : n = last
      BY <1>3 DEF RecordStep
    <2>3. \A q \in DOMAIN runs : Unmoved(q)
      BY <1>3, <2>2 DEF Unmoved
    <2>4. 0 \notin DOMAIN runs
      BY Lengths DEF IInv
    <2>5. \A n \in DOMAIN dag' \ DOMAIN dag : NodeOK(n)'
      BY <1>10, <2>2
    <2>6. \A q \in DOMAIN runs' : q \in {0, 0} => RunOK(q)' /\ CallsOK(q)' /\ OwnOK(q)'
      BY <2>4
    <2>7. \A q \in DOMAIN runs' : q \in DOMAIN runs \/ q = 0
      OBVIOUS
    <2>8. \A q \in DOMAIN runs \ {0, 0} : Unmoved(q)
      BY <2>3
    <2> QED BY <1>7, <1>8, <2>1, <2>5, <2>6, <2>7, <2>8, Kept
  <1>12. ProcessesOK'
    <2>1. ~Busy(sidecar')
      BY DEF Busy, Idle
    <2>2. Busy(worker) => \E q \in DOMAIN runs' : worker.node \in DOMAIN dag'
              /\ dag'[worker.node].type = "request" /\ dag'[worker.node].run = q
      BY <1>9 DEF IInv, ProcessesOK, Is
    <2> QED BY <2>1, <2>2 DEF ProcessesOK, Is, Busy
  <1>13. Once'
    <2>1. OwnStays
      BY DEF OwnStays
    <2>2. ASSUME NEW n \in DOMAIN dag PROVE Apart(n, last)'
      <3>1. dag'[n] = dag[n] /\ NodeOK(n)
        BY <1>9 DEF IInv, NodesOK
      <3>2. ASSUME dag[n].run = r, dag[n].type \in {"request", "invoke"}, dag[n].parent # 0
            PROVE  parent # dag[n].parent
        BY <1>1, <3>1, <3>2 DEF NodeOK, RequestOK, InvokeOK, Is
      <3> QED BY <1>3, <3>1, <3>2 DEF Apart, RecordStep
    <2> QED BY <1>3, <1>7, <1>8, <2>1, <2>2, OnceMore DEF RecordStep
  <1>14. Quiet'
    <2>1. ~Busy(sidecar')
      BY DEF Busy, Idle
    <2>2. dag'[last].of[1] = node
      BY <1>3
    <2> QED BY <1>1, <1>3, <1>5, <1>6, <1>7, <2>1, <2>2, CompleteSentQuiet DEF RecordStep
  <1>15. Bounds'
    BY DEF IInv, Bounds
  <1> QED BY <1>7, <1>11, <1>12, <1>13, <1>14, <1>15 DEF IInv

LEMMA SendCompleteInv ==
    ASSUME IInv, NEW calls \in CallLists \cup {NoCalls}, SendComplete(calls)
    PROVE  IInv'
  <1>1. PICK node, last : node = sidecar.node /\ last = Recorded
    OBVIOUS
  <1>2. PICK r, told : r = dag[node].run /\ told = last
    OBVIOUS
  <1>3. /\ Busy(sidecar) /\ Record("complete", node, r, <<node, 0>>, calls, told)
        /\ Publish(Message("complete", r, last, 0)) /\ sidecar' = Idle
        /\ UNCHANGED <<consumers, runs, jobs, worker, faults>>
    BY <1>1, <1>2 DEF SendComplete
  <1> QED BY <1>1, <1>2, <1>3, CompleteInv

LEMMA SendErrorCompleteInv == ASSUME IInv, SendErrorComplete PROVE IInv'
  <1>1. PICK node, last : node = sidecar.node /\ last = Recorded
    OBVIOUS
  <1>2. PICK r, calls : r = dag[node].run /\ calls = NoCalls
    OBVIOUS
  <1>3. /\ Busy(sidecar) /\ Record("complete", 0, r, <<node, 0>>, calls, 0)
        /\ Publish(Message("complete", r, last, 0)) /\ sidecar' = Idle
        /\ UNCHANGED <<consumers, runs, jobs, worker, faults>>
    BY <1>1, <1>2 DEF SendErrorComplete, None
  <1> QED BY <1>1, <1>2, <1>3, CompleteInv

-----------------------------------------------------------------------------
(* Steps of the queue, the sidecar and the worker *)

LEMMA LaterType ==
    ASSUME NEW i \in Nat, NEW j \in Nat
    PROVE  Later(i, j) \in {i, j} /\ i <= Later(i, j) /\ j <= Later(i, j)
  BY DEF Later

LEMMA FetchEffect ==
    ASSUME TypeOK, NEW c \in Consumers, NEW i \in DOMAIN log, NEW acked \in BOOLEAN,
           Fetch(c, i, acked)
    PROVE  /\ consumers' \in [Consumers -> ConsumerRecord]
           /\ \A d \in Consumers \ {c} : consumers'[d] = consumers[d]
           /\ i <= consumers'[c].seen /\ consumers[c].seen <= consumers'[c].seen
           /\ consumers'[c].seen \in Nat
           /\ acked => consumers'[c].owed \subseteq consumers[c].owed
  <1>1. PICK new : new = [made |-> TRUE, seen |-> Later(consumers[c].seen, i),
                          owed |-> IF acked THEN consumers[c].owed \ {i}
                                            ELSE consumers[c].owed \cup {i}]
    OBVIOUS
  <1>2. consumers' = [consumers EXCEPT ![c] = new]
    BY <1>1 DEF Fetch
  <1>3. i \in 1..Len(log) /\ Len(log) \in Nat /\ consumers[c].seen \in 0..Len(log)
        /\ consumers[c].owed \subseteq 1..Len(log)
    BY ConsumerType, Lengths
  <1>4. Later(consumers[c].seen, i) \in 0..Len(log) /\ i <= Later(consumers[c].seen, i)
        /\ consumers[c].seen <= Later(consumers[c].seen, i)
    BY <1>3, LaterType
  <1>5. new \in ConsumerRecord /\ i <= new.seen /\ consumers[c].seen <= new.seen
        /\ new.seen \in Nat /\ (acked => new.owed \subseteq consumers[c].owed)
    BY <1>1, <1>3, <1>4 DEF ConsumerRecord
  <1>6. consumers \in [Consumers -> ConsumerRecord]
    BY TypeParts
  <1> QED BY <1>2, <1>5, <1>6

LEMMA ReceiveEffect ==
    ASSUME IInv, NEW c \in Consumers, NEW i \in DOMAIN log, Receive(c, i)
    PROVE  /\ consumers' \in [Consumers -> ConsumerRecord]
           /\ \A d \in Consumers \ {c} : consumers'[d] = consumers[d]
           /\ i <= consumers'[c].seen /\ consumers[c].seen <= consumers'[c].seen
           /\ consumers'[c].seen \in Nat /\ consumers[c].seen \in Nat
           /\ c.kind \in {"any", log[i].kind} /\ c.run \in {0, log[i].run}
           /\ faults' \in 0..MaxFaults
           /\ faults' = 0 => /\ faults = 0 /\ i > consumers[c].seen
                             /\ \A d \in Consumers : consumers'[d].owed = {}
  <1>1. Delivers(c, i) /\ faults \in 0..MaxFaults /\ MaxFaults \in Nat
    BY TypeParts, Lengths DEF Receive, IInv
  <1>2. c.kind \in {"any", log[i].kind} /\ c.run \in {0, log[i].run}
    BY <1>1 DEF Delivers, Filter
  <1>3. consumers[c].seen \in Nat
    BY ConsumerType, Lengths DEF IInv
  <1>4. CASE Fetch(c, i, TRUE) /\ UNCHANGED faults
    <2>1. /\ consumers' \in [Consumers -> ConsumerRecord]
          /\ \A d \in Consumers \ {c} : consumers'[d] = consumers[d]
          /\ i <= consumers'[c].seen /\ consumers[c].seen <= consumers'[c].seen
          /\ consumers'[c].seen \in Nat /\ consumers'[c].owed \subseteq consumers[c].owed
      BY <1>4, FetchEffect DEF IInv
    <2>2. faults = 0 => \A d \in Consumers : consumers[d].owed = {}
      BY DEF IInv, Quiet
    <2>3. faults = 0 => i > consumers[c].seen
      BY <1>1, <2>2 DEF Delivers
    <2> QED BY <1>1, <1>2, <1>3, <1>4, <2>1, <2>2, <2>3
  <1>5. CASE Fetch(c, i, FALSE) /\ faults < MaxFaults /\ faults' = faults + 1
    <2>1. /\ consumers' \in [Consumers -> ConsumerRecord]
          /\ \A d \in Consumers \ {c} : consumers'[d] = consumers[d]
          /\ i <= consumers'[c].seen /\ consumers[c].seen <= consumers'[c].seen
          /\ consumers'[c].seen \in Nat
      BY <1>5, FetchEffect DEF IInv
    <2>2. faults' \in 0..MaxFaults /\ faults' # 0
      BY <1>1, <1>5
    <2> QED BY <1>2, <1>3, <2>1, <2>2
  <1> QED BY <1>1, <1>4, <1>5 DEF Receive

LEMMA ExpireEffect ==
    ASSUME TypeOK, NEW c \in Consumers, Expire(c)
    PROVE  /\ consumers' \in [Consumers -> ConsumerRecord]
           /\ \A d \in Consumers \ {c} : consumers'[d] = consumers[d]
  <1>1. Unmade \in ConsumerRecord
    BY Lengths DEF Unmade, ConsumerRecord
  <1> QED BY <1>1, TypeParts DEF Expire

\* A step that leaves stream, runs, jobs and nodes alone keeps what is known of them.
LEMMA StillTyped ==
    ASSUME IInv, UNCHANGED <<log, runs, jobs, dag>>, consumers' \in [Consumers -> ConsumerRecord],
           sidecar' \in ProcessOK, worker' \in ProcessOK, faults' \in 0..MaxFaults
    PROVE  TypeOK' /\ Keeps
  <1>1. Grows
    BY Lengths DEF Grows, IInv
  <1>2. TypeOK'
    <2>1. ConsumerRecord' = ConsumerRecord /\ ProcessOK' = ProcessOK
      BY DEF ConsumerRecord, ProcessOK
    <2> QED BY <1>1, <2>1, Widened, TypeParts, TypePartsNext DEF IInv
  <1>3. Keeps
    BY SelfContinues, Lengths DEF Keeps, IInv
  <1> QED BY <1>2, <1>3

LEMMA Still ==
    ASSUME IInv, UNCHANGED <<log, runs, jobs, dag>>, TypeOK', Keeps, ProcessesOK', Quiet'
    PROVE  IInv'
  <1>1. 0 \notin DOMAIN runs
    BY Lengths DEF IInv
  <1>2. NodesOK' /\ MessagesOK' /\ RunsOK'
    <2>1. \A q \in DOMAIN runs \ {0, 0} : Unmoved(q)
      BY DEF Unmoved
    <2>2. \A q \in DOMAIN runs' : q \in {0, 0} => RunOK(q)' /\ CallsOK(q)' /\ OwnOK(q)'
      BY <1>1
    <2>3. /\ \A q \in DOMAIN runs' : q \in DOMAIN runs \/ q = 0
          /\ \A n \in DOMAIN dag' \ DOMAIN dag : NodeOK(n)'
          /\ \A i \in DOMAIN log' \ DOMAIN log : MessageOK(i)'
      OBVIOUS
    <2> QED BY <2>1, <2>2, <2>3, Kept
  <1>3. Once'
    BY OnceKept DEF OwnStays
  <1>4. Bounds'
    BY DEF IInv, Bounds
  <1> QED BY <1>2, <1>3, <1>4 DEF IInv

\* What was held is held, as the sidecar has not moved and the step took no invoke or completion.
LEMMA StillQuiet ==
    ASSUME IInv, TypeOK', UNCHANGED <<log, runs, dag, sidecar>>, faults' = 0 => faults = 0,
           faults' = 0 => \A c \in Consumers : consumers'[c].owed = {},
           \A c \in Consumers \ {Requests} : consumers'[c] = consumers[c]
    PROVE  Quiet'
  <1>1. Holding
    <2>1. \A c \in Consumers : c.kind # "request" => consumers'[c] = consumers[c]
      BY DEF Requests
    <2> QED BY <2>1, SelfContinues DEF Holding
  <1> QED BY <1>1, QuietKept

LEMMA IdleTyped == ASSUME TypeOK PROVE Idle \in ProcessOK /\ Idle \in ProcessOK' /\ ~Busy(Idle)
  BY Lengths, LengthsNext DEF Idle, ProcessOK, Busy

LEMMA TakenTyped ==
    ASSUME TypeOK, NEW i \in DOMAIN log, NEW process,
           process = [at |-> "busy", node |-> log[i].node]
    PROVE  process \in ProcessOK /\ process.node = log[i].node
  BY MessageType DEF ProcessOK

LEMMA TakeRequestInv == ASSUME IInv, NEW i \in DOMAIN log, TakeRequest(i) PROVE IInv'
  <1>1. Requests \in Consumers
    BY DEF Consumers
  <1>2. Receive(Requests, i) /\ UNCHANGED <<log, runs, jobs, dag, sidecar>>
        /\ worker' = [at |-> "busy", node |-> log[i].node]
    BY DEF TakeRequest
  <1>3. /\ consumers' \in [Consumers -> ConsumerRecord]
        /\ \A d \in Consumers \ {Requests} : consumers'[d] = consumers[d]
        /\ Requests.kind \in {"any", log[i].kind} /\ faults' \in 0..MaxFaults
        /\ faults' = 0 => faults = 0 /\ \A d \in Consumers : consumers'[d].owed = {}
    BY <1>1, <1>2, ReceiveEffect
  <1>4. worker' \in ProcessOK /\ worker'.node = log[i].node
    BY <1>2, TakenTyped DEF IInv
  <1>5. TypeOK' /\ Keeps
    BY <1>2, <1>3, <1>4, TypeParts, StillTyped DEF IInv
  <1>6. ProcessesOK'
    <2>1. log[i].kind = "request"
      BY <1>3 DEF Requests
    <2>2. Is(log[i].node, "request", log[i].run) /\ log[i].run \in DOMAIN runs
      BY <2>1, MessageType DEF IInv, MessagesOK, MessageOK
    <2>3. Busy(sidecar) => \E r \in DOMAIN runs : Is(sidecar.node, "invoke", r)
      BY DEF IInv, ProcessesOK
    <2> QED BY <1>2, <1>4, <2>2, <2>3 DEF ProcessesOK, Is, Busy
  <1>7. Quiet'
    BY <1>2, <1>3, <1>5, StillQuiet
  <1> QED BY <1>2, <1>5, <1>6, <1>7, Still

LEMMA WorkerRestartsInv == ASSUME IInv, WorkerRestarts PROVE IInv'
  <1>1. UNCHANGED <<log, runs, jobs, dag, sidecar>> /\ worker' = Idle
    BY DEF WorkerRestarts
  <1>2. faults' \in 0..MaxFaults /\ faults' # 0
    BY FaultTyped DEF WorkerRestarts, IInv
  <1>3. consumers' \in [Consumers -> ConsumerRecord]
    <2>1. Requests \in Consumers
      BY DEF Consumers
    <2> QED BY <2>1, TypeParts, ExpireEffect DEF WorkerRestarts, IInv
  <1>4. worker' \in ProcessOK /\ ~Busy(worker')
    BY <1>1, IdleTyped DEF IInv
  <1>5. TypeOK' /\ Keeps
    BY <1>1, <1>2, <1>3, <1>4, TypeParts, StillTyped DEF IInv
  <1>6. ProcessesOK'
    BY <1>1, <1>4 DEF IInv, ProcessesOK, Is, Busy
  <1> QED BY <1>1, <1>2, <1>5, <1>6, FaultQuiet, Still

LEMMA SidecarRestartsInv == ASSUME IInv, SidecarRestarts PROVE IInv'
  <1>1. UNCHANGED <<log, runs, jobs, dag, worker>> /\ sidecar' = Idle
    BY DEF SidecarRestarts
  <1>2. faults' \in 0..MaxFaults /\ faults' # 0
    BY FaultTyped DEF SidecarRestarts, IInv
  <1>3. consumers' \in [Consumers -> ConsumerRecord]
    <2>1. Invokes \in Consumers
      BY DEF Consumers
    <2> QED BY <2>1, TypeParts, ExpireEffect DEF SidecarRestarts, IInv
  <1>4. sidecar' \in ProcessOK /\ ~Busy(sidecar')
    BY <1>1, IdleTyped DEF IInv
  <1>5. TypeOK' /\ Keeps
    BY <1>1, <1>2, <1>3, <1>4, TypeParts, StillTyped DEF IInv
  <1>6. ProcessesOK'
    BY <1>1, <1>4 DEF IInv, ProcessesOK, Is, Busy
  <1> QED BY <1>1, <1>2, <1>5, <1>6, FaultQuiet, Still

LEMMA ConsumerExpiresInv == ASSUME IInv, NEW c \in Consumers, ConsumerExpires(c) PROVE IInv'
  <1>1. UNCHANGED <<log, runs, jobs, dag, sidecar, worker>>
    BY DEF ConsumerExpires
  <1>2. faults' \in 0..MaxFaults /\ faults' # 0
    BY FaultTyped DEF ConsumerExpires, IInv
  <1>3. consumers' \in [Consumers -> ConsumerRecord]
    BY ExpireEffect DEF ConsumerExpires, IInv
  <1>4. TypeOK' /\ Keeps
    BY <1>1, <1>2, <1>3, TypeParts, StillTyped DEF IInv
  <1>5. ProcessesOK'
    BY <1>1, <1>4, ProcessesKept
  <1> QED BY <1>1, <1>2, <1>4, <1>5, FaultQuiet, Still

\* Without faults a taken invoke is no longer in the stream, but with the sidecar.
LEMMA InvokeTakenQuiet ==
    ASSUME IInv, TypeOK', UNCHANGED <<log, runs, dag, faults>>, NEW i \in DOMAIN log,
           \A c \in Consumers : consumers'[c].owed = {}, faults = 0,
           \A c \in Consumers \ {Invokes} : consumers'[c] = consumers[c],
           NEW s \in Nat, s = consumers'[Invokes].seen, consumers[Invokes].seen <= s, i <= s,
           i > consumers[Invokes].seen, Is(log[i].node, "invoke", log[i].run),
           log[i].kind = "invoke", sidecar'.node = log[i].node
    PROVE  Quiet'
  <1> SUFFICES ASSUME NEW q \in DOMAIN runs PROVE runs[q].own /\ HeldOK(q)'
    BY DEF Quiet, IInv
  <1>1. runs[q].own
    BY DEF Quiet, IInv
  <1>2. i \in Nat /\ Completes(q) \in Consumers /\ Completes(q) # Invokes
    BY RunConsumers, Lengths DEF IInv, Completes, Invokes
  <1>3. PICK t : t = consumers'[Completes(q)].seen
    OBVIOUS
  <1>4. t \in Nat /\ consumers[Completes(q)].seen <= t
    BY <1>2, <1>3, RunConsumers
  <1>5. Continues(dag', dag) /\ Continues(log', log)
    BY SelfContinues
  <1>6. ASSUME NEW place \in Places, NEW j \in Nat, Holds(q, place, j)'
        PROVE  \/ /\ place = "busy" /\ j = 0 /\ Holds(q, "sent", i)
                  /\ InvokeAt(place, j)' = InvokeAt("sent", i)
               \/ /\ place # "busy" /\ Holds(q, place, j) /\ ~(place = "sent" /\ j = i)
                  /\ InvokeAt(place, j)' = InvokeAt(place, j)
    <2>1. CASE place = "busy"
      <3>1. j = 0 /\ dag[log[i].node].run = q
        BY <1>6, <2>1 DEF Holds
      <3> QED BY <2>1, <3>1 DEF Holds, InvokeAt, Is
    <2>2. CASE place # "busy"
      <3>1. j \in DOMAIN log /\ (place = "sent" => j > s)
        BY <1>6, <2>2 DEF Holds, Places
      <3>2. Holds(q, place, j) /\ InvokeAt(place, j)' = InvokeAt(place, j)
        BY <1>3, <1>4, <1>5, <1>6, <2>2, <3>1, HoldsOld
      <3> QED BY <1>2, <2>2, <3>1, <3>2
    <2> QED BY <2>1, <2>2
  <1>7. "sent" \in Places
    BY DEF Places
  <1>8. ASSUME NEW place \in Places, NEW j \in Nat, Holds(q, place, j)'
        PROVE  /\ runs[q].at = "awaiting" /\ InvokeAt(place, j)' = runs[q].invoke
               /\ \A p \in Places, k \in Nat : Holds(q, p, k)' => p = place /\ k = j
    BY <1>2, <1>6, <1>7, <1>8, HeldWhenAwaiting
  <1> QED BY <1>1, <1>8 DEF HeldOK

LEMMA TakeInvokeInv == ASSUME IInv, NEW i \in DOMAIN log, TakeInvoke(i) PROVE IInv'
  <1>1. Invokes \in Consumers
    BY DEF Consumers
  <1>2. Receive(Invokes, i) /\ UNCHANGED <<log, runs, jobs, dag, worker>>
        /\ sidecar' = [at |-> "busy", node |-> log[i].node]
    BY DEF TakeInvoke
  <1>3. PICK s : s = consumers'[Invokes].seen
    OBVIOUS
  <1>4. /\ consumers' \in [Consumers -> ConsumerRecord]
        /\ \A d \in Consumers \ {Invokes} : consumers'[d] = consumers[d]
        /\ Invokes.kind \in {"any", log[i].kind} /\ faults' \in 0..MaxFaults
        /\ i <= s /\ consumers[Invokes].seen <= s /\ s \in Nat
        /\ faults' = 0 => /\ faults = 0 /\ i > consumers[Invokes].seen
                          /\ \A d \in Consumers : consumers'[d].owed = {}
    BY <1>1, <1>2, <1>3, ReceiveEffect
  <1>5. sidecar' \in ProcessOK /\ sidecar'.node = log[i].node
    BY <1>2, TakenTyped DEF IInv
  <1>6. TypeOK' /\ Keeps
    BY <1>2, <1>4, <1>5, TypeParts, StillTyped DEF IInv
  <1>7. log[i].kind = "invoke"
    BY <1>4 DEF Invokes
  <1>8. Is(log[i].node, "invoke", log[i].run) /\ log[i].run \in DOMAIN runs
    BY <1>7, MessageType DEF IInv, MessagesOK, MessageOK
  <1>9. ProcessesOK'
    <2>1. Busy(worker) => \E r \in DOMAIN runs : Is(worker.node, "request", r)
      BY DEF IInv, ProcessesOK
    <2> QED BY <1>2, <1>5, <1>8, <2>1 DEF ProcessesOK, Is, Busy
  <1>10. Quiet'
    <2>1. CASE faults' = 0
      BY <1>2, <1>3, <1>4, <1>5, <1>6, <1>7, <1>8, <2>1, InvokeTakenQuiet
    <2> QED BY <2>1, FaultQuiet
  <1> QED BY <1>2, <1>6, <1>9, <1>10, Still

\* The worker's answer names a request, which is all that the harness reads of it.
LEMMA SendResponseInv == ASSUME IInv, SendResponse PROVE IInv'
  <1>1. PICK request, r, at : request = worker.node /\ r = dag[worker.node].run
                              /\ at = Len(log) + 1
    OBVIOUS
  <1>2. PICK m : m = Message("response", r, 0, request)
    OBVIOUS
  <1>3. /\ Busy(worker) /\ Publish(m) /\ worker' = Idle
        /\ UNCHANGED <<consumers, runs, jobs, dag, sidecar, faults>>
    BY <1>1, <1>2 DEF SendResponse
  <1>4. Is(request, "request", r) /\ r \in DOMAIN runs /\ request \in DOMAIN dag
    BY <1>1, <1>3 DEF IInv, ProcessesOK, Is, NodesOK, NodeOK
  <1>5. Grows
    BY <1>3, PublishLength, Lengths DEF Grows, IInv
  <1>6. m \in MessageRecord' /\ m.kind = "response" /\ m.node = 0 /\ m.request = request
    <2>1. r \in 1..Len(runs)' /\ request \in 0..Len(dag)' /\ 0 \in 0..Len(dag)'
      BY <1>3, <1>4, Lengths DEF IInv
    <2> QED BY <1>2, <2>1 DEF Message, MessageRecord, Kinds
  <1>7. /\ log' \in Seq(MessageRecord') /\ Continues(log', log) /\ log'[at] = m
        /\ DOMAIN log' = DOMAIN log \cup {at} /\ at \notin DOMAIN log /\ at \in Nat
        /\ \A i \in DOMAIN log' \ DOMAIN log : i = at
    BY <1>1, <1>3, <1>5, <1>6, PublishKeeps DEF IInv
  <1>8. worker' \in ProcessOK' /\ ~Busy(worker')
    BY <1>3, <1>5 DEF Idle, ProcessOK, Busy, Grows
  <1>9. TypeOK'
    <2>1. dag' \in Seq(Node) /\ faults' \in 0..MaxFaults
      BY <1>3, TypeParts DEF IInv
    <2> QED BY <1>3, <1>5, <1>7, <1>8, <2>1, Widened, TypePartsNext DEF IInv
  <1>10. Keeps
    <2>1. 0 \notin DOMAIN dag
      BY Lengths DEF IInv
    <2> QED BY <1>3, <1>6, <1>7, <2>1, SelfContinues, Lengths DEF Keeps, IInv
  <1>11. NodesOK' /\ MessagesOK' /\ RunsOK'
    <2>1. \A i \in DOMAIN log' \ DOMAIN log : MessageOK(i)'
      BY <1>3, <1>4, <1>6, <1>7 DEF MessageOK, Is
    <2>2. \A q \in DOMAIN runs \ {0, 0} : Unmoved(q)
      BY <1>3 DEF Unmoved
    <2>3. \A q \in DOMAIN runs' : q \in {0, 0} => RunOK(q)' /\ CallsOK(q)' /\ OwnOK(q)'
      BY <1>3, Lengths DEF IInv
    <2>4. /\ \A q \in DOMAIN runs' : q \in DOMAIN runs \/ q = 0
          /\ \A n \in DOMAIN dag' \ DOMAIN dag : NodeOK(n)'
      BY <1>3
    <2> QED BY <1>9, <1>10, <2>1, <2>2, <2>3, <2>4, Kept
  <1>12. ProcessesOK'
    BY <1>3, <1>8 DEF IInv, ProcessesOK, Is, Busy
  <1>13. Once'
    BY <1>3, <1>9, <1>10, OnceKept DEF OwnStays
  <1>14. Quiet'
    <2>1. Holding
      BY <1>3, <1>6, <1>7, SelfContinues DEF Holding
    <2>2. faults = 0 => \A c \in Consumers : consumers[c].owed = {}
      BY DEF IInv, Quiet
    <2> QED BY <1>3, <1>9, <2>1, <2>2, QuietKept
  <1>15. Bounds'
    BY <1>3 DEF IInv, Bounds
  <1> QED BY <1>9, <1>11, <1>12, <1>13, <1>14, <1>15 DEF IInv

-----------------------------------------------------------------------------
(* A run takes a completion *)

LEMMA CompletionFacts ==
    ASSUME IInv, NEW r \in DOMAIN runs, runs[r].at = "awaiting", NEW i \in DOMAIN log,
           Completes(r).kind \in {"any", log[i].kind}, Completes(r).run \in {0, log[i].run},
           NEW n, n = log[i].node
    PROVE  /\ log[i].kind = "complete" /\ log[i].run = r /\ Is(n, "complete", r)
           /\ n \in DOMAIN dag /\ n \in Nat /\ n # 0 /\ n <= Len(dag)
           /\ Is(dag[n].of[1], "invoke", r) /\ dag[n].of[1] < n /\ dag[n].of[1] \in Nat
           /\ dag[n].told \in 0..Len(dag)
           /\ runs[r].invoke # 0 /\ Is(runs[r].invoke, "invoke", r)
           /\ runs[r].turn <= Len(jobs) /\ runs[r].turn <= MaxTurns
           /\ ~Is(runs[r].head, "invoke", r)
  <1>1. log[i].kind = "complete" /\ log[i].run = r
    BY RunType DEF Completes, IInv
  <1>2. Is(n, "complete", r)
    BY <1>1 DEF IInv, MessagesOK, MessageOK
  <1>3. n \in DOMAIN dag /\ n \in Nat /\ n # 0 /\ n <= Len(dag)
    BY <1>2, Lengths DEF Is, IInv
  <1>4. NodeOK(n) /\ dag[n].of[1] \in Nat
    BY <1>3, NodeType DEF IInv, NodesOK
  <1>5. Is(dag[n].of[1], "invoke", r) /\ dag[n].of[1] < n
    BY <1>2, <1>4 DEF NodeOK, CompleteOK, Is
  <1>6. dag[n].told \in 0..Len(dag)
    <2>1. dag[n].told \in 0..n
      BY <1>4 DEF NodeOK
    <2>2. Len(dag) \in Nat
      BY Lengths DEF IInv
    <2> QED BY <1>3, <2>1, <2>2
  <1>7. RunOK(r)
    BY DEF IInv, RunsOK
  <1>8. runs[r].invoke # 0 /\ Is(runs[r].invoke, "invoke", r) /\ runs[r].turn <= Len(jobs)
        /\ ~Is(runs[r].head, "invoke", r)
    BY <1>7 DEF RunOK
  <1>9. runs[r].turn <= MaxTurns
    BY <1>8, RunType, Lengths DEF IInv, Bounds
  <1> QED BY <1>1, <1>2, <1>3, <1>4, <1>5, <1>6, <1>8, <1>9

\* All that its own turn recorded lies before the completion that answers it.
LEMMA OwnBefore ==
    ASSUME IInv, NEW r \in DOMAIN runs, runs[r].at = "awaiting", runs[r].own,
           NEW n \in DOMAIN dag, dag[n].of[1] = runs[r].invoke, dag[n].of[1] < n,
           NEW m \in DOMAIN dag, dag[m].run = r
    PROVE  /\ dag[m].type \in {"request", "invoke"} /\ Sent(m) => dag[m].parent < n
           /\ dag[m].type = "request" => dag[m].of[1] < n
           /\ dag[m].type = "response" => dag[m].parent < runs[r].head /\ dag[m].parent < n
  <1>0. TypeOK
    BY DEF IInv
  <1>a. runs[r].answer \in Nat /\ runs[r].invoke \in Nat /\ runs[r].head \in Nat
    <2>1. Len(dag) \in Nat
      BY <1>0, Lengths
    <2>2. /\ runs[r].answer \in 0..Len(dag) /\ runs[r].invoke \in 0..Len(dag)
          /\ runs[r].head \in 0..Len(dag)
      BY <1>0, RunType
    <2> QED BY <2>1, <2>2
  <1>b. dag[m].parent \in Nat /\ dag[m].of[1] \in Nat
    BY <1>0, NodeType
  <1>c. n \in Nat
    BY <1>0, Lengths
  <1>1. /\ runs[r].answer \in Nat /\ runs[r].invoke \in Nat /\ runs[r].head \in Nat
        /\ n \in Nat /\ dag[m].parent \in Nat /\ dag[m].of[1] \in Nat
    BY <1>a, <1>b, <1>c
  <1>2. OwnOK(r)
    BY DEF IInv, RunsOK
  <1>3. runs[r].answer < runs[r].invoke /\ runs[r].head < runs[r].invoke
    BY <1>2 DEF OwnOK
  <1>4. /\ dag[m].type \in {"request", "invoke"} /\ Sent(m) => dag[m].parent < runs[r].invoke
        /\ dag[m].type = "request" => Past(m, r)
        /\ dag[m].type = "response" => dag[m].parent < runs[r].head
    BY <1>2 DEF OwnOK, Front
  <1>5. dag[m].type = "request" => dag[m].of[1] <= runs[r].answer
    BY <1>1, <1>4 DEF Past
  <1> QED BY <1>1, <1>3, <1>4, <1>5

LEMMA CompletionQuiet ==
    ASSUME IInv, TypeOK', UNCHANGED <<log, dag, sidecar, faults>>, faults = 0,
           \A c \in Consumers : consumers'[c].owed = {},
           NEW r \in DOMAIN runs, NEW i \in DOMAIN log,
           log[i].kind = "complete", log[i].run = r, i > consumers[Completes(r)].seen,
           \A c \in Consumers \ {Completes(r)} : consumers'[c] = consumers[c],
           NEW s \in Nat, s = consumers'[Completes(r)].seen,
           consumers[Completes(r)].seen <= s, i <= s,
           DOMAIN runs' = DOMAIN runs, \A q \in DOMAIN runs \ {r} : runs'[q] = runs[q],
           dag[log[i].node].of[1] = runs[r].invoke => runs'[r].own = runs[r].own
    PROVE  Quiet'
  <1> SUFFICES ASSUME NEW q \in DOMAIN runs PROVE runs'[q].own /\ HeldOK(q)'
    BY DEF Quiet
  <1>1. /\ Completes(q) \in Consumers /\ Invokes \in Consumers
        /\ Invokes # Completes(r) /\ (q # r => Completes(q) # Completes(r)) /\ i \in Nat
    BY RunConsumers, Lengths DEF IInv, Completes, Invokes
  <1>2. PICK t, u : t = consumers'[Invokes].seen /\ u = consumers'[Completes(q)].seen
    OBVIOUS
  <1>3. /\ t \in Nat /\ consumers[Invokes].seen <= t /\ u \in Nat
        /\ consumers[Completes(q)].seen <= u /\ (q = r => u = s)
    BY <1>1, <1>2, RunConsumers
  <1>4. Continues(dag', dag) /\ Continues(log', log)
    BY SelfContinues
  <1>5. ASSUME NEW place \in Places, NEW j \in Nat, Holds(q, place, j)'
        PROVE  /\ Holds(q, place, j) /\ InvokeAt(place, j)' = InvokeAt(place, j)
               /\ q = r => ~(place = "answered" /\ j = i)
    <2>1. place # "busy" => j \in DOMAIN log
      BY <1>5 DEF Holds, Places
    <2>2. Holds(q, place, j) /\ InvokeAt(place, j)' = InvokeAt(place, j)
      BY <1>2, <1>3, <1>4, <1>5, <2>1, HoldsOld
    <2>3. q = r /\ place = "answered" => j > s
      BY <1>2, <1>3, <1>5 DEF Holds
    <2> QED BY <1>1, <2>2, <2>3
  <1>6. Holds(r, "answered", i) /\ "answered" \in Places
        /\ InvokeAt("answered", i) = dag[log[i].node].of[1]
    BY DEF Holds, Places, InvokeAt
  <1>7. runs'[q].own
    <2>1. runs[q].own /\ runs[r].own
      BY DEF IInv, Quiet
    <2>2. dag[log[i].node].of[1] = runs[r].invoke
      BY <1>1, <1>6, HeldWhenAwaiting
    <2> QED BY <2>1, <2>2
  <1>8. ASSUME NEW place \in Places, NEW j \in Nat, Holds(q, place, j)'
        PROVE  /\ runs'[q].at = "awaiting" /\ InvokeAt(place, j)' = runs'[q].invoke
               /\ \A p \in Places, k \in Nat : Holds(q, p, k)' => p = place /\ k = j
    <2>1. q # r
      BY <1>1, <1>5, <1>6, <1>8, HeldWhenAwaiting
    <2> QED BY <1>5, <1>8, <2>1, HeldWhenAwaiting
  <1> QED BY <1>7, <1>8 DEF HeldOK

\* The rest of the invariant, once the run itself is where it should be.
LEMMA TakenInv ==
    ASSUME IInv, NEW r \in DOMAIN runs, runs[r].at = "awaiting", NEW i \in DOMAIN log,
           Receive(Completes(r), i), UNCHANGED <<log, dag, sidecar, worker>>,
           jobs' \in Seq(JobRecord), Len(jobs)' = Len(jobs),
           NEW run, Set(r, run), run \in RunRecord',
           NEW own, run.own = own, own => runs[r].own,
           dag[log[i].node].of[1] = runs[r].invoke => own = runs[r].own,
           TypeOK' /\ Keeps => RunOK(r)' /\ CallsOK(r)' /\ OwnOK(r)'
    PROVE  IInv'
  <1>1. Completes(r) \in Consumers
    BY RunConsumers
  <1>2. PICK s : s = consumers'[Completes(r)].seen
    OBVIOUS
  <1>3. /\ consumers' \in [Consumers -> ConsumerRecord]
        /\ \A d \in Consumers \ {Completes(r)} : consumers'[d] = consumers[d]
        /\ i <= s /\ consumers[Completes(r)].seen <= s /\ s \in Nat
        /\ Completes(r).kind \in {"any", log[i].kind} /\ Completes(r).run \in {0, log[i].run}
        /\ faults' \in 0..MaxFaults
        /\ faults' = 0 => /\ faults = 0 /\ i > consumers[Completes(r)].seen
                          /\ \A d \in Consumers : consumers'[d].owed = {}
    BY <1>1, <1>2, ReceiveEffect
  <1>4. log[i].kind = "complete" /\ log[i].run = r
    BY <1>3, CompletionFacts
  <1>5. DOMAIN runs' = DOMAIN runs /\ Len(runs)' = Len(runs) /\ runs'[r] = run
        /\ \A q \in DOMAIN runs \ {r} : runs'[q] = runs[q]
    BY SetEffect DEF IInv
  <1>6. Grows
    BY <1>5, Lengths DEF Grows, IInv
  <1>7. TypeOK'
    <2>1. runs' \in Seq(RunRecord')
      BY <1>6, SetTyped DEF IInv
    <2>2. ConsumerRecord' = ConsumerRecord /\ JobRecord' = JobRecord
      BY <1>5 DEF ConsumerRecord, JobRecord
    <2> QED BY <1>3, <1>6, <2>1, <2>2, Widened, TypeParts, TypePartsNext DEF IInv
  <1>8. Keeps
    BY <1>5, SelfContinues, Lengths DEF Keeps, IInv
  <1>9. NodesOK' /\ MessagesOK' /\ RunsOK'
    <2>1. \A q \in DOMAIN runs \ {r, r} : Unmoved(q)
      BY <1>5 DEF Unmoved
    <2>2. \A q \in DOMAIN runs' : q \in {r, r} => RunOK(q)' /\ CallsOK(q)' /\ OwnOK(q)'
      BY <1>7, <1>8
    <2>3. /\ \A q \in DOMAIN runs' : q \in DOMAIN runs \/ q = r
          /\ \A n \in DOMAIN dag' \ DOMAIN dag : NodeOK(n)'
          /\ \A j \in DOMAIN log' \ DOMAIN log : MessageOK(j)'
      BY <1>5
    <2> QED BY <1>7, <1>8, <2>1, <2>2, <2>3, Kept
  <1>10. ProcessesOK'
    BY <1>7, <1>8, ProcessesKept
  <1>11. Once'
    BY <1>5, <1>7, <1>8, OnceKept DEF OwnStays
  <1>12. Quiet'
    <2>1. CASE faults' = 0
      BY <1>2, <1>3, <1>4, <1>5, <1>7, <2>1, CompletionQuiet
    <2> QED BY <2>1, FaultQuiet
  <1>13. Bounds'
    BY <1>5 DEF IInv, Bounds
  <1> QED BY <1>7, <1>9, <1>10, <1>11, <1>12, <1>13 DEF IInv

\* The turn was the last one of its run.
LEMMA CompletedInv ==
    ASSUME IInv, NEW r \in DOMAIN runs, runs[r].at = "awaiting", NEW i \in DOMAIN log,
           Receive(Completes(r), i), UNCHANGED <<log, dag, sidecar, worker>>,
           Completed(r, log[i].node)
    PROVE  IInv'
  <1>1. PICK n, own, job : /\ n = log[i].node /\ own = (runs[r].own /\ Answers(r, n))
                           /\ job = runs[r].job
    OBVIOUS
  <1>2. PICK run : run = [runs[r] EXCEPT !.at = "done", !.answer = n, !.own = own]
    OBVIOUS
  <1>3. Set(r, run)
    BY <1>1, <1>2 DEF Completed
  <1>4. Completes(r).kind \in {"any", log[i].kind} /\ Completes(r).run \in {0, log[i].run}
    BY RunConsumers, ReceiveEffect
  <1>5. /\ Is(n, "complete", r) /\ n \in DOMAIN dag /\ n \in Nat /\ n # 0 /\ n <= Len(dag)
        /\ dag[n].of[1] < n /\ runs[r].invoke # 0 /\ Is(runs[r].invoke, "invoke", r)
        /\ runs[r].turn <= Len(jobs) /\ ~Is(runs[r].head, "invoke", r)
    BY <1>1, <1>4, CompletionFacts
  <1>6. own \in BOOLEAN /\ (own => runs[r].own /\ dag[n].of[1] = runs[r].invoke)
        /\ (dag[n].of[1] = runs[r].invoke => own = runs[r].own)
    BY <1>1, RunType, Zenon DEF Answers, IInv
  <1>7. jobs' \in Seq(JobRecord) /\ Len(jobs)' = Len(jobs)
    <2>1. PICK moved : moved = [jobs[job] EXCEPT !.status = "Completed"]
      OBVIOUS
    <2>2. jobs' = [jobs EXCEPT ![job] = moved]
      BY <1>1, <2>1 DEF Completed
    <2>3. job \in DOMAIN jobs => moved \in JobRecord
      <3>1. job \in DOMAIN jobs => jobs[job] \in JobRecord
        BY TypeParts, SeqElement DEF IInv
      <3> QED BY <2>1, <3>1 DEF JobRecord
    <2>4. jobs \in Seq(JobRecord)
      BY TypeParts DEF IInv
    <2>5. [jobs EXCEPT ![job] = moved] \in Seq(JobRecord)
          /\ Len([jobs EXCEPT ![job] = moved]) = Len(jobs)
      BY <2>3, <2>4, SeqExcept
    <2> QED BY <2>2, <2>5
  <1>8. run \in RunRecord' /\ runs'[r] = run
    <2>1. Len(runs)' = Len(runs) /\ runs'[r] = run
      BY <1>3, SetEffect DEF IInv
    <2>2. RunRecord' = RunRecord
      BY <1>7, <2>1 DEF RunRecord
    <2>3. runs[r] \in RunRecord /\ n \in 0..Len(dag)
      BY <1>5, RunType, Lengths DEF IInv
    <2>4. run \in RunRecord
      BY <1>2, <1>6, <2>3 DEF RunRecord, Ats
    <2> QED BY <2>1, <2>2, <2>4
  <1>9. /\ run.at = "done" /\ run.answer = n /\ run.own = own /\ run.turn = runs[r].turn
        /\ run.invoke = runs[r].invoke /\ run.head = runs[r].head /\ run.next = runs[r].next
    BY <1>2, RunType DEF RunRecord, IInv
  <1>10. ASSUME TypeOK', Keeps PROVE RunOK(r)' /\ CallsOK(r)' /\ OwnOK(r)'
    <2>1. RunOK(r)'
      <3>1. run.turn <= Len(jobs)' /\ run.turn <= Len(jobs)' + 1
        BY <1>5, <1>7, <1>9, RunType, Lengths DEF IInv
      <3>2. Is(run.answer, "complete", r) /\ Is(run.invoke, "invoke", r)
            /\ ~Is(run.head, "invoke", r) /\ run.answer # 0
        BY <1>5, <1>9
      <3> QED BY <1>8, <1>9, <3>1, <3>2 DEF RunOK, InCalls, Is
    <2>2. CallsOK(r)'
      BY <1>8, <1>9 DEF CallsOK, Over, InCalls
    <2>3. OwnOK(r)'
      <3>1. ASSUME own, NEW m \in DOMAIN dag, dag[m].run = r
            PROVE  /\ dag[m].type = "request" => dag[m].of[1] < n
                   /\ dag[m].type = "response" => dag[m].parent < runs[r].head
        BY <1>5, <1>6, <3>1, OwnBefore
      <3> QED BY <1>8, <1>9, <3>1 DEF OwnOK, Past
    <2> QED BY <2>1, <2>2, <2>3
  <1>11. dag[log[i].node].of[1] = runs[r].invoke => own = runs[r].own
    BY <1>1, <1>6
  <1> QED BY <1>3, <1>6, <1>7, <1>8, <1>9, <1>10, <1>11, TakenInv

\* The turn goes on with the calls of its completion.
LEMMA CalledInv ==
    ASSUME IInv, NEW r \in DOMAIN runs, runs[r].at = "awaiting", NEW i \in DOMAIN log,
           Receive(Completes(r), i), UNCHANGED <<log, dag, sidecar, worker>>,
           Called(r, log[i].node)
    PROVE  IInv'
  <1>1. PICK n, own : n = log[i].node /\ own = (runs[r].own /\ Answers(r, n))
    OBVIOUS
  <1>2. PICK run : run = [runs[r] EXCEPT !.answer = n, !.head = n, !.next = 0, !.own = own,
                                         !.late = FALSE]
    OBVIOUS
  <1>3. PICK next : next = Proceed(run)
    OBVIOUS
  <1>4. Set(r, next) /\ jobs' = jobs
    BY <1>1, <1>2, <1>3 DEF Called
  <1>5. Completes(r).kind \in {"any", log[i].kind} /\ Completes(r).run \in {0, log[i].run}
    BY RunConsumers, ReceiveEffect
  <1>6. /\ Is(n, "complete", r) /\ n \in DOMAIN dag /\ n \in Nat /\ n # 0 /\ n <= Len(dag)
        /\ dag[n].of[1] < n /\ dag[n].told \in 0..Len(dag) /\ runs[r].invoke # 0
        /\ Is(runs[r].invoke, "invoke", r) /\ runs[r].turn <= Len(jobs)
        /\ runs[r].turn <= MaxTurns
    BY <1>1, <1>5, CompletionFacts
  <1>7. own \in BOOLEAN /\ (own => runs[r].own /\ dag[n].of[1] = runs[r].invoke)
        /\ (dag[n].of[1] = runs[r].invoke => own = runs[r].own)
    BY <1>1, RunType, Zenon DEF Answers, IInv
  <1>8. DOMAIN runs' = DOMAIN runs /\ Len(runs)' = Len(runs) /\ runs'[r] = next
    BY <1>4, SetEffect DEF IInv
  <1>9. Grows
    BY <1>4, <1>8, Lengths DEF Grows, IInv
  <1>10. run \in RunRecord'
    <2>1. runs[r] \in RunRecord' /\ n \in 0..Len(dag)'
      BY <1>6, <1>9, RunType, Widened, Lengths DEF IInv
    <2> QED BY <1>2, <1>7, <2>1 DEF RunRecord
  <1>11. /\ run.answer = n /\ run.head = n /\ run.next = 0 /\ run.own = own /\ run.late = FALSE
         /\ run.turn = runs[r].turn /\ run.invoke = runs[r].invoke
    BY <1>2, RunType DEF RunRecord, IInv
  <1>12. next \in RunRecord' /\ next.own = own
    <2>1. dag[run.answer].told \in 0..Len(dag)' /\ run.turn <= MaxTurns
      BY <1>6, <1>11
    <2> QED BY <1>3, <1>9, <1>10, <1>11, <2>1, ProceedTyped, ProceedCalls DEF IInv
  <1>13. ASSUME TypeOK', Keeps PROVE RunOK(r)' /\ CallsOK(r)' /\ OwnOK(r)'
    <2>1. MayProceed(r, run)'
      <3>1. /\ Is(run.answer, "complete", r)' /\ (run.invoke # 0 => Is(run.invoke, "invoke", r))'
            /\ run.head \in DOMAIN dag' /\ dag'[run.head].run = r
            /\ dag'[run.head].type # "invoke"
        BY <1>6, <1>11 DEF Is
      <3>2. run.turn <= Len(jobs)' /\ run.next <= Len(dag'[run.answer].calls)
        <4>1. Len(dag[n].calls) \in Nat
          BY <1>6, NodeType, CallListType DEF IInv
        <4> QED BY <1>4, <1>6, <1>11, <4>1
      <3>3. (\A a, k \in Nat :
               a = run.answer /\ ~run.late /\ k \in 1..run.next /\ dag[a].calls[k] = "tool"
               => Answered(a, k))'
        BY <1>11
      <3>4. ASSUME run.own, NEW m \in DOMAIN dag, dag[m].run = r
            PROVE  /\ dag[m].type \in {"request", "invoke"} /\ Sent(m) => dag[m].parent < n
                   /\ dag[m].type = "request" => dag[m].of[1] < n
                   /\ dag[m].type = "response" => dag[m].parent < n
        BY <1>6, <1>7, <1>11, <3>4, OwnBefore
      <3>5. (run.own => \A m \in DOMAIN dag : dag[m].run = r =>
               /\ dag[m].type \in {"request", "invoke"} /\ Sent(m) => dag[m].parent < run.head
               /\ dag[m].type = "request" => \/ dag[m].of[1] < run.answer
                                             \/ dag[m].of[1] = run.answer /\ dag[m].of[2] <= run.next
               /\ dag[m].type = "response" => dag[m].parent < run.head)'
        BY <1>11, <3>4 DEF Sent
      <3> QED BY <1>10, <3>1, <3>2, <3>3, <3>5 DEF MayProceed
    <2>2. r \in DOMAIN runs' /\ runs'[r] = Proceed(run) /\ run.answer \in DOMAIN dag
      BY <1>3, <1>6, <1>8, <1>11
    <2> QED BY <1>13, <2>1, <2>2, ProceedOK DEF IInv
  <1>14. dag[log[i].node].of[1] = runs[r].invoke => own = runs[r].own
    BY <1>1, <1>7
  <1>15. jobs' \in Seq(JobRecord) /\ Len(jobs)' = Len(jobs)
    BY <1>4, TypeParts DEF IInv
  <1> QED BY <1>4, <1>7, <1>12, <1>13, <1>14, <1>15, TakenInv

LEMMA ReceiveCompleteInv ==
    ASSUME IInv, NEW r \in DOMAIN runs, NEW i \in DOMAIN log, ReceiveComplete(r, i)
    PROVE  IInv'
  BY CompletedInv, CalledInv DEF ReceiveComplete

-----------------------------------------------------------------------------
(* The invariant *)

LEMMA InitInv == ASSUME Init PROVE IInv
  <1>1. /\ log = <<>> /\ consumers = [c \in Consumers |-> Unmade] /\ runs = <<>> /\ jobs = <<>>
        /\ dag = <<>> /\ sidecar = Idle /\ worker = Idle /\ faults = 0
    BY DEF Init
  <1>2. /\ DOMAIN log = {} /\ DOMAIN runs = {} /\ DOMAIN dag = {} /\ Len(runs) = 0
        /\ Len(jobs) = 0 /\ Len(log) = 0 /\ Len(dag) = 0
    BY <1>1, EmptySeq
  <1>3. TypeOK
    <2>1. /\ log \in Seq(MessageRecord) /\ runs \in Seq(RunRecord) /\ jobs \in Seq(JobRecord)
          /\ dag \in Seq(Node)
      BY <1>1, EmptySeq
    <2>2. consumers \in [Consumers -> ConsumerRecord]
      BY <1>1, <1>2 DEF Unmade, ConsumerRecord
    <2>3. sidecar \in ProcessOK /\ worker \in ProcessOK
      BY <1>1, <1>2 DEF Idle, ProcessOK
    <2>4. faults \in 0..MaxFaults
      BY <1>1, ToolTurnsConstants
    <2> QED BY <2>1, <2>2, <2>3, <2>4
            DEF TypeOK, MessageRecord, ConsumerRecord, RunRecord, JobRecord, Ats, Kinds
  <1>4. NodesOK /\ MessagesOK /\ RunsOK /\ Once
    BY <1>2 DEF NodesOK, MessagesOK, RunsOK, Once
  <1>5. ProcessesOK
    BY <1>1 DEF ProcessesOK, Busy, Idle
  <1>6. Quiet
    BY <1>1, <1>2 DEF Quiet, Unmade
  <1>7. Bounds
    BY <1>2, ToolTurnsConstants DEF Bounds
  <1> QED BY <1>3, <1>4, <1>5, <1>6, <1>7 DEF IInv

LEMMA HarnessInv == ASSUME IInv, NEW r \in DOMAIN runs, Harness(r) PROVE IInv'
  <1>1. CASE BuildFails(r)
    BY <1>1, BuildFailsInv
  <1>2. CASE SendInvoke(r)
    BY <1>2, SendInvokeInv
  <1>3. CASE SendRequest(r)
    BY <1>3, SendRequestInv
  <1>4. CASE ResponseTimeout(r)
    BY <1>4, ResponseTimeoutInv
  <1>5. CASE Delegate(r)
    BY <1>5, DelegateInv
  <1>6. CASE RejectCall(r)
    BY <1>6, RejectCallInv
  <1>7. CASE \E i \in DOMAIN log : ReceiveComplete(r, i)
    BY <1>7, ReceiveCompleteInv
  <1>8. CASE \E i \in DOMAIN log : ReceiveResponse(r, i)
    BY <1>8, ReceiveResponseInv
  <1>9. CASE \E d \in DOMAIN runs : EndDelegation(r, d)
    BY <1>9, EndDelegationInv
  <1> QED BY <1>1, <1>2, <1>3, <1>4, <1>5, <1>6, <1>7, <1>8, <1>9 DEF Harness

LEMMA StutterInv == ASSUME IInv, UNCHANGED vars PROVE IInv'
  <1>1. /\ log' = log /\ consumers' = consumers /\ runs' = runs /\ jobs' = jobs /\ dag' = dag
        /\ sidecar' = sidecar /\ worker' = worker /\ faults' = faults
    BY DEF vars
  <1>2. TypeOK' /\ Keeps
    BY <1>1, TypeParts, StillTyped DEF IInv, ProcessOK
  <1>3. ProcessesOK'
    BY <1>1, <1>2, ProcessesKept
  <1>4. Quiet'
    <2>1. faults = 0 => \A c \in Consumers : consumers[c].owed = {}
      BY DEF IInv, Quiet
    <2> QED BY <1>1, <1>2, <2>1, StillQuiet
  <1> QED BY <1>1, <1>2, <1>3, <1>4, Still

LEMMA NextInv == ASSUME IInv, [Next]_vars PROVE IInv'
  <1>1. CASE StartRun
    BY <1>1, StartRunInv
  <1>2. CASE \E i \in DOMAIN log : TakeInvoke(i)
    BY <1>2, TakeInvokeInv
  <1>3. CASE \E calls \in CallLists \cup {NoCalls} : SendComplete(calls)
    BY <1>3, SendCompleteInv
  <1>4. CASE SendErrorComplete
    BY <1>4, SendErrorCompleteInv
  <1>5. CASE \E i \in DOMAIN log : TakeRequest(i)
    BY <1>5, TakeRequestInv
  <1>6. CASE SendResponse
    BY <1>6, SendResponseInv
  <1>7. CASE SidecarRestarts
    BY <1>7, SidecarRestartsInv
  <1>8. CASE WorkerRestarts
    BY <1>8, WorkerRestartsInv
  <1>9. CASE \E c \in Consumers : ConsumerExpires(c)
    BY <1>9, ConsumerExpiresInv
  <1>10. CASE \E r \in DOMAIN runs : Harness(r)
    BY <1>10, HarnessInv
  <1>11. CASE UNCHANGED vars
    BY <1>11, StutterInv
  <1> QED BY <1>1, <1>2, <1>3, <1>4, <1>5, <1>6, <1>7, <1>8, <1>9, <1>10, <1>11
          DEF Next, Sidecar, Worker, Faults

LEMMA Invariant == Spec => []IInv
  <1>1. Init => IInv
    BY InitInv
  <1>2. IInv /\ [Next]_vars => IInv'
    BY NextInv
  <1> QED BY <1>1, <1>2, PTL DEF Spec

-----------------------------------------------------------------------------
(* What follows from it *)

\* The state of the run loop, the queue and the two processes has its types, whatever is lost,
\* delivered twice, expired or restarted.
THEOREM TypeCorrect == Spec => []TypeOK
  <1>1. IInv => TypeOK
    BY DEF IInv
  <1> QED BY <1>1, Invariant, PTL

\* An answer belongs to the run whose completion made the call.
LEMMA AnswerOf ==
    ASSUME IInv, NEW n \in DOMAIN dag, dag[n].type = "request",
           NEW m \in AnswersTo(dag[n].of)
    PROVE  /\ m \in DOMAIN dag /\ dag[m].type = "response" /\ dag[m].run = dag[n].run
           /\ dag[m].parent \in DOMAIN dag /\ dag[dag[m].parent].type = "request"
           /\ dag[dag[m].parent].run = dag[n].run /\ dag[dag[m].parent].of = dag[n].of
  <1>1. m \in DOMAIN dag /\ dag[m].type = "response" /\ dag[dag[m].parent].of = dag[n].of
    BY DEF AnswersTo
  <1>2. Is(dag[m].parent, "request", dag[m].run)
    BY <1>1 DEF IInv, NodesOK, NodeOK, ResponseOK
  <1>3. dag[dag[dag[m].parent].of[1]].run = dag[dag[m].parent].run
    BY <1>2 DEF IInv, NodesOK, NodeOK, RequestOK, Is
  <1>4. dag[dag[n].of[1]].run = dag[n].run
    BY DEF IInv, NodesOK, NodeOK, RequestOK, Is
  <1> QED BY <1>1, <1>2, <1>3, <1>4 DEF Is

LEMMA OneAnswer ==
    ASSUME IInv, NEW n \in DOMAIN dag, dag[n].type = "request", runs[dag[n].run].own
    PROVE  Cardinality(AnswersTo(dag[n].of)) <= 1
  <1>1. ASSUME NEW m1 \in AnswersTo(dag[n].of), NEW m2 \in AnswersTo(dag[n].of)
        PROVE  ~(m1 < m2)
    <2> SUFFICES ASSUME m1 < m2 PROVE FALSE
      OBVIOUS
    <2>1. PICK p1, p2 : p1 = dag[m1].parent /\ p2 = dag[m2].parent
      OBVIOUS
    <2>2. /\ m1 \in DOMAIN dag /\ dag[m1].type = "response" /\ dag[m1].run = dag[n].run
          /\ p1 \in DOMAIN dag /\ dag[p1].type = "request"
          /\ dag[p1].run = dag[n].run /\ dag[p1].of = dag[n].of
      BY <2>1, AnswerOf
    <2>3. /\ m2 \in DOMAIN dag /\ dag[m2].type = "response" /\ dag[m2].run = dag[n].run
          /\ p2 \in DOMAIN dag /\ dag[p2].type = "request"
          /\ dag[p2].run = dag[n].run /\ dag[p2].of = dag[n].of
      BY <2>1, AnswerOf
    <2>4. p1 # p2
      BY <2>1, <2>2, <2>3 DEF IInv, Once, Apart, Own
    <2>5. ~(p1 < p2) /\ ~(p2 < p1)
      BY <2>2, <2>3 DEF IInv, Once, Apart, Own
    <2>6. p1 \in Nat /\ p2 \in Nat
      BY <2>2, <2>3, Lengths DEF IInv
    <2> QED BY <2>4, <2>5, <2>6
  <1>2. AnswersTo(dag[n].of) \subseteq Nat
    BY Lengths DEF AnswersTo, IInv
  <1>3. CASE AnswersTo(dag[n].of) = {}
    BY <1>3, FS_EmptySet
  <1>4. CASE AnswersTo(dag[n].of) # {}
    <2>1. PICK m : m \in AnswersTo(dag[n].of)
      BY <1>4
    <2>2. AnswersTo(dag[n].of) = {m}
      BY <1>1, <1>2, <2>1
    <2> QED BY <2>2, FS_Singleton
  <1> QED BY <1>3, <1>4

\* Whatever is lost, delivered twice or late: while a run has taken its own completions, no call
\* of it has two answers, and before its next turn every tool call has one unless a call timed
\* out or could not be sent; and a response stands under its own request.
THEOREM CallsAnsweredOnce == Spec => []ToolCallsAnswered
  <1>1. IInv => ToolCallsAnswered
    <2> SUFFICES ASSUME IInv PROVE ToolCallsAnswered
      OBVIOUS
    <2>1. ASSUME NEW r \in DOMAIN runs, runs[r].own, NEW n \in DOMAIN dag,
                 dag[n].type = "request", dag[n].run = r
          PROVE  Cardinality(AnswersTo(dag[n].of)) <= 1
      BY <2>1, OneAnswer
    <2>2. ASSUME NEW r \in DOMAIN runs, runs[r].at \in {"invoking", "awaiting"},
                 runs[r].turn > 1, ~runs[r].late, NEW k \in DOMAIN Calls(r), Calls(r)[k] = "tool"
          PROVE  AnswersTo(<<runs[r].answer, k>>) # {}
      <3>1. runs[r].answer # 0 /\ runs[r].answer \in DOMAIN dag /\ runs[r].answer \in Nat
        BY <2>2, RunType, Lengths DEF IInv, RunsOK, RunOK
      <3>2. k \in Nat
        BY <3>1, NodeType, CallListType DEF Calls, IInv
      <3>3. Answered(runs[r].answer, k)
        BY <2>2, <3>1, <3>2 DEF IInv, RunsOK, CallsOK, Over, Calls
      <3> QED BY <3>3 DEF Answered, AnswersTo
    <2>3. ASSUME NEW n \in DOMAIN dag, dag[n].type = "response"
          PROVE  /\ dag[dag[n].parent].type = "request"
                 /\ \A m \in (dag[n].parent + 1)..(n - 1) :
                        dag[m].run = dag[n].run => dag[m].type = "complete"
      BY <2>3 DEF IInv, NodesOK, NodeOK, ResponseOK, Is
    <2> QED BY <2>1, <2>2, <2>3 DEF ToolCallsAnswered
  <1> QED BY <1>1, Invariant, PTL

\* Runs take their own completions, in order while nothing is lost; and the nodes of each run
\* that does hang together as one chain, whatever was delivered twice.
THEOREM ChainIsLinear == Spec => []LinearChain
  <1>1. IInv => LinearChain
    <2> SUFFICES ASSUME IInv PROVE LinearChain
      OBVIOUS
    <2>1. CompletionsOfRun
      BY DEF IInv, Quiet, RunsOK, RunOK, Is, CompletionsOfRun
    <2>2. ASSUME NEW n \in DOMAIN dag, dag[n].type # "invoke", dag[n].parent # 0
          PROVE  dag[dag[n].parent].run = dag[n].run
      <3>1. NodeOK(n) /\ dag[n].type \in Kinds
        BY NodeType DEF IInv, NodesOK
      <3>2. CASE dag[n].type = "complete"
        BY <2>2, <3>1, <3>2 DEF NodeOK, CompleteOK, Is
      <3>3. CASE dag[n].type = "request"
        BY <3>1, <3>3 DEF NodeOK, RequestOK
      <3>4. CASE dag[n].type = "response"
        BY <3>1, <3>4 DEF NodeOK, ResponseOK, Is
      <3> QED BY <2>2, <3>1, <3>2, <3>3, <3>4 DEF Kinds
    <2>3. ASSUME NEW n \in DOMAIN dag, runs[dag[n].run].own,
                 dag[n].type \in {"request", "invoke"}, dag[n].parent # 0,
                 NEW m \in (n + 1)..Len(dag)
          PROVE  \/ dag[m].run # dag[n].run
                 \/ dag[m].parent # dag[n].parent
                 \/ ~Sent(n)
      <3>1. m \in DOMAIN dag /\ n < m
        BY Lengths DEF IInv
      <3> QED BY <2>3, <3>1 DEF IInv, Once, Apart, Own
    <2> QED BY <2>1, <2>2, <2>3 DEF LinearChain
  <1> QED BY <1>1, Invariant, PTL

================================================================================
