---------------------------- MODULE RunStreamProofs ----------------------------
(***************************************************************************)
(* The terminal shows what the runs did, for any number of inputs, turns   *)
(* and calls, any capacity of the channels and any number of faults.       *)
(*                                                                         *)
(* The argument looks at everything that the client took, the log of the   *)
(* terminal and what is on its way to it, as one sequence: the steps of    *)
(* the client and of the terminal move events along it, and only add       *)
(* entries that are not events in its middle.  While somebody watches a    *)
(* run the sequence goes on into the stream and the channel of the run,    *)
(* and then has every event that the run emitted.                          *)
(***************************************************************************)
EXTENDS RunStream, SequenceTheorems, TLAPS

-----------------------------------------------------------------------------
(* The inductive invariant *)

Entry == [kind : {"submit", "text", "ask", "begin", "end", "result"}, run : Runs, n : Nat]
Ats == {"off", "invoking", "call", "asking", "calling", "result", "error", "over"}
Decisions == {"none", "approve", "reject", "dropped"}
RunType == [at : Ats, turn : 1..MaxTurns, calls : 0..MaxCalls, decision : Decisions]

\* There is a turn left for the result of a call, and a call that is not made yet may be made.
Allowed(run) == /\ run.at \in {"call", "asking", "calling"} => run.turn < MaxTurns
                /\ run.at \in {"call", "asking"} => run.calls < MaxCalls

RunsTyped == /\ approval \in BOOLEAN
             /\ runs \in [Runs -> RunType]
             /\ \A r \in Runs : Allowed(runs[r])

ServerTyped ==
    /\ emitted \in [Runs -> Seq(Event)]
    /\ events \in [Runs -> Seq(Event)]
    /\ stream \in [Runs -> Seq(Event \cup Result)]
    /\ \A r \in Runs : Len(events[r]) <= Capacity /\ Len(stream[r]) <= Capacity

ClientTyped ==
    /\ ctl \in Seq(Event) /\ Len(ctl) <= Capacity
    /\ inputs \in 0..MaxInputs /\ current \in 0..inputs /\ busy \in BOOLEAN
    /\ busy => current # 0

ScreenTyped ==
    /\ external \in Seq(Event \cup Result)
    /\ log \in Seq(Entry)
    /\ screen \in [rows : Seq(Rows), pending : Seq(Nat), received : BOOLEAN]
    /\ \A p \in DOMAIN screen.pending : screen.pending[p] \in DOMAIN screen.rows
    /\ quit \in BOOLEAN /\ faults \in 0..MaxFaults

Typed == RunsTyped /\ ServerTyped /\ ClientTyped /\ ScreenTyped

Idle(r) == /\ runs[r].at = "off" /\ runs[r].calls = 0
           /\ emitted[r] = <<>> /\ events[r] = <<>> /\ stream[r] = <<>>

Owned ==
    \A r \in Runs :
        /\ r > current => Idle(r)
        /\ \A k \in DOMAIN events[r] : events[r][k].run = r
        /\ \A k \in DOMAIN stream[r] : stream[r][k].run = r

Bounded(e, run) ==
    /\ e.kind = "text" => e.n <= run.turn /\ (run.at = "invoking" => e.n < run.turn)
    /\ e.kind = "ask" => /\ e.n <= run.calls + 1
                         /\ run.at \in {"invoking", "call", "calling"} => e.n <= run.calls
    /\ e.kind = "begin" => e.n <= run.calls
    /\ e.kind = "end" => e.n <= run.calls /\ (run.at = "calling" => e.n < run.calls)

Has(q, e) == \E j \in DOMAIN q : q[j] = e

SentBounded(r, sent, run) ==
    \A i \in DOMAIN sent : sent[i].run = r /\ Bounded(sent[i], run)

Distinct(sent) == \A i, j \in DOMAIN sent : sent[i] = sent[j] => i = j

CallOrder(r, sent) ==
    \A i \in DOMAIN sent :
        /\ sent[i].kind = "end" =>
              \E j \in 1..(i - 1) : sent[j] = Ev("begin", r, sent[i].n)
        /\ sent[i].kind \in {"begin", "end"} =>
              /\ sent[i].n # 0
              /\ \A m \in 1..(sent[i].n - 1) : \E j \in 1..(i - 1) : sent[j] = Ev("end", r, m)

CallsEnded(r, sent, run) ==
    /\ run.at \in {"invoking", "call", "asking"} =>
          \A m \in 1..run.calls : Has(sent, Ev("end", r, m))
    /\ run.at = "calling" =>
          /\ run.calls # 0 /\ Has(sent, Ev("begin", r, run.calls))
          /\ \A m \in 1..(run.calls - 1) : Has(sent, Ev("end", r, m))

Sent(r, sent, run) == /\ SentBounded(r, sent, run) /\ Distinct(sent)
                      /\ CallOrder(r, sent) /\ CallsEnded(r, sent, run)

Emission == \A r \in Runs : Sent(r, emitted[r], runs[r])

\* What the client took, in the order in which the terminal sees it.
Passed == log \o Coming
\* And behind it what it will take, if nothing interferes.
Path(r) == Passed \o (stream[r] \o events[r])

Flow ==
    /\ InOrder(Passed, emitted)
    /\ \A r \in Runs : Watched(r) =>
          /\ InOrder(Path(r), emitted)
          /\ \A i \in DOMAIN emitted[r] : Has(Path(r), emitted[r][i])

RunOrder(q) == \A j, k \in DOMAIN q : j < k /\ IsEvent(q[j]) => q[j].run <= q[k].run

TakenRuns ==
    \A k \in DOMAIN Passed :
        /\ Passed[k].kind = "submit" => Passed[k].run <= inputs
        /\ Passed[k].kind # "submit" => Passed[k].run <= current
        /\ Passed[k].kind = "result" => ~(busy /\ current = Passed[k].run)

Submits == \A j, k \in DOMAIN log :
              j < k /\ log[k].kind = "submit" => log[j].run <= log[k].run

Shifted(i) == \E h \in 1..i : CutOff(h) /\ \A k \in h..i : screen.rows[k].what # "user"

PendingRow(i) ==
    LET row == screen.rows[i] IN
    /\ row.what = "call"
    /\ \A k \in DOMAIN screen.rows : k >= i => screen.rows[k].what # "user"
    /\ Has(log, Ev("begin", row.run, row.n))
    /\ Has(log, Ev("end", row.run, row.n)) => Shifted(i)

\* The pending rows are those of different calls, from top to bottom.
PendingOrder(rows, pending) ==
    \A p, q \in DOMAIN pending : p < q =>
        /\ pending[p] < pending[q]
        /\ <<rows[pending[p]].run, rows[pending[p]].n>> # <<rows[pending[q]].run, rows[pending[q]].n>>

Pending == /\ \A p \in DOMAIN screen.pending : PendingRow(screen.pending[p])
           /\ PendingOrder(screen.rows, screen.pending)

CallRows == \A i \in DOMAIN screen.rows :
               screen.rows[i].what = "call" => screen.rows[i].run <= current

Misplaced == \A i \in DOMAIN screen.rows :
                screen.rows[i].trace \notin {<<>>, <<screen.rows[i].run, screen.rows[i].n>>}
                    => Shifted(i)

Received == screen.received =>
    \E j \in DOMAIN log : /\ log[j].kind = "text"
                          /\ \A i \in DOMAIN log : i >= j => log[i].kind # "submit"

TextsShown == \A k \in DOMAIN log : log[k].kind = "text" => Has(screen.rows, Text(log[k]))

Shows == Pending /\ CallRows /\ Misplaced /\ Received /\ TextsShown /\ AnswerShown

Serving == Typed /\ Owned /\ Emission /\ Flow
Taken == RunOrder(Passed) /\ TakenRuns /\ Submits
IInv == Serving /\ Taken /\ Shows

-----------------------------------------------------------------------------
(* Sequences *)

\* Elements of a sequence of S are in S.
LEMMA SeqElement ==
    ASSUME NEW S, NEW q \in Seq(S)
    PROVE  /\ \A i \in DOMAIN q : q[i] \in S
           /\ DOMAIN q = 1..Len(q)
           /\ Len(q) \in Nat
  BY LenProperties

\* Appending keeps every element where it is and adds one at the end.
LEMMA SeqAppend ==
    ASSUME NEW S, NEW q \in Seq(S), NEW x \in S
    PROVE  /\ Append(q, x) \in Seq(S)
           /\ Len(Append(q, x)) = Len(q) + 1
           /\ DOMAIN Append(q, x) = 1..(Len(q) + 1)
           /\ \A i \in DOMAIN q : Append(q, x)[i] = q[i]
           /\ Append(q, x)[Len(q) + 1] = x
  BY AppendProperties, LenProperties

\* The elements of the tail are those of the sequence, one place further on.
LEMMA SeqTail ==
    ASSUME NEW S, NEW q \in Seq(S), q # <<>>
    PROVE  /\ Tail(q) \in Seq(S) /\ Head(q) \in S /\ Head(q) = q[1]
           /\ Len(Tail(q)) = Len(q) - 1 /\ Len(q) > 0
           /\ DOMAIN Tail(q) = 1..(Len(q) - 1)
           /\ \A i \in DOMAIN Tail(q) : Tail(q)[i] = q[i + 1]
  BY HeadTailProperties, LenProperties, EmptySeq

\* Two sequences in a row.
LEMMA SeqConcat ==
    ASSUME NEW S, NEW a \in Seq(S), NEW b \in Seq(S)
    PROVE  /\ a \o b \in Seq(S)
           /\ Len(a \o b) = Len(a) + Len(b)
           /\ DOMAIN (a \o b) = 1..(Len(a) + Len(b))
           /\ \A i \in DOMAIN a : (a \o b)[i] = a[i]
           /\ \A i \in DOMAIN b : (a \o b)[Len(a) + i] = b[i]
           /\ \A i \in 1..(Len(a) + Len(b)) :
                 (a \o b)[i] = IF i <= Len(a) THEN a[i] ELSE b[i - Len(a)]
  BY ConcatProperties, LenProperties

\* What is in one of them is in both in a row, and the other way round.
LEMMA ConcatHas ==
    ASSUME NEW S, NEW a \in Seq(S), NEW b \in Seq(S), NEW e
    PROVE  Has(a \o b, e) <=> Has(a, e) \/ Has(b, e)
  <1>1. Has(a \o b, e) => Has(a, e) \/ Has(b, e)
    <2> SUFFICES ASSUME NEW i \in DOMAIN (a \o b), (a \o b)[i] = e
                 PROVE  Has(a, e) \/ Has(b, e)
      BY DEF Has
    <2>1. CASE i <= Len(a)
      BY <2>1, SeqConcat, SeqElement DEF Has
    <2>2. CASE ~(i <= Len(a))
      <3>1. i - Len(a) \in DOMAIN b /\ b[i - Len(a)] = e
        BY <2>2, SeqConcat, SeqElement
      <3> QED BY <3>1 DEF Has
    <2> QED BY <2>1, <2>2
  <1>2. Has(a, e) => Has(a \o b, e)
    BY SeqConcat, SeqElement DEF Has
  <1>3. Has(b, e) => Has(a \o b, e)
    <2> SUFFICES ASSUME NEW i \in DOMAIN b, b[i] = e PROVE Has(a \o b, e)
      BY DEF Has
    <2>1. Len(a) + i \in DOMAIN (a \o b) /\ (a \o b)[Len(a) + i] = e
      BY SeqConcat, SeqElement
    <2> QED BY <2>1 DEF Has
  <1> QED BY <1>1, <1>2, <1>3

\* An element that moves from the head of one to the end of the one before it.
LEMMA MoveHead ==
    ASSUME NEW S, NEW a \in Seq(S), NEW b \in Seq(S), b # <<>>
    PROVE  Append(a, Head(b)) \o Tail(b) = a \o b
  <1>1. PICK c : c = Append(a, Head(b))
    OBVIOUS
  <1>2. PICK d : d = Tail(b)
    OBVIOUS
  <1>3. /\ c \in Seq(S) /\ d \in Seq(S) /\ Len(c) = Len(a) + 1 /\ Len(d) = Len(b) - 1
        /\ DOMAIN d = 1..(Len(b) - 1) /\ Len(b) > 0
        /\ \A i \in DOMAIN a : c[i] = a[i]
        /\ c[Len(a) + 1] = b[1]
        /\ \A i \in DOMAIN d : d[i] = b[i + 1]
    BY <1>1, <1>2, SeqAppend, SeqTail
  <1>4. Len(a) \in Nat /\ Len(b) \in Nat /\ DOMAIN a = 1..Len(a) /\ DOMAIN b = 1..Len(b)
    BY SeqElement
  <1>5. /\ c \o d \in Seq(S) /\ Len(c \o d) = Len(a) + Len(b)
        /\ \A i \in 1..(Len(a) + Len(b)) :
              (c \o d)[i] = IF i <= Len(a) + 1 THEN c[i] ELSE d[i - (Len(a) + 1)]
    <2>3. c \in Seq(S) /\ d \in Seq(S)
      BY <1>3
    <2>1. /\ c \o d \in Seq(S) /\ Len(c \o d) = Len(c) + Len(d)
          /\ \A i \in 1..(Len(c) + Len(d)) :
                (c \o d)[i] = IF i <= Len(c) THEN c[i] ELSE d[i - Len(c)]
      BY <2>3, ConcatProperties
    <2>2. Len(c) + Len(d) = Len(a) + Len(b)
      BY <1>3, <1>4
    <2> QED BY <1>3, <2>1, <2>2
  <1>6. /\ a \o b \in Seq(S) /\ Len(a \o b) = Len(a) + Len(b)
        /\ \A i \in 1..(Len(a) + Len(b)) :
              (a \o b)[i] = IF i <= Len(a) THEN a[i] ELSE b[i - Len(a)]
    BY SeqConcat
  <1>7. ASSUME NEW i \in 1..(Len(a) + Len(b)) PROVE (c \o d)[i] = (a \o b)[i]
    <2>1. CASE i <= Len(a)
      BY <2>1, <1>3, <1>4, <1>5, <1>6
    <2>2. CASE i = Len(a) + 1
      BY <2>2, <1>3, <1>4, <1>5, <1>6
    <2>3. CASE i > Len(a) + 1
      <3>1. i - (Len(a) + 1) \in DOMAIN d
        BY <2>3, <1>3, <1>4
      <3>4. (c \o d)[i] = d[i - (Len(a) + 1)]
        BY <2>3, <1>4, <1>5
      <3>2. (c \o d)[i] = b[(i - (Len(a) + 1)) + 1]
        BY <3>1, <3>4, <1>3
      <3>3. (i - (Len(a) + 1)) + 1 = i - Len(a)
        BY <1>4
      <3> QED BY <2>3, <3>2, <3>3, <1>4, <1>6
    <2>4. i \in Nat
      BY <1>4
    <2>5. i <= Len(a) \/ i = Len(a) + 1 \/ i > Len(a) + 1
      BY <2>4, <1>4
    <2> QED BY <2>1, <2>2, <2>3, <2>5
  <1>8. c \o d = a \o b
    BY <1>5, <1>6, <1>7, SeqEqual
  <1> QED BY <1>1, <1>2, <1>8

\* w is q with x put in behind the first p elements.
Inserted(w, q, p, x) ==
    \E n \in Nat : /\ p \in 0..n /\ DOMAIN q = 1..n /\ DOMAIN w = 1..(n + 1)
                   /\ \A i \in 1..p : w[i] = q[i]
                   /\ w[p + 1] = x
                   /\ \A i \in (p + 1)..n : w[i + 1] = q[i]

LEMMA InsertEnd ==
    ASSUME NEW S, NEW q \in Seq(S), NEW x \in S
    PROVE  Inserted(Append(q, x), q, Len(q), x)
  BY SeqAppend, SeqElement DEF Inserted

LEMMA InsertBetween ==
    ASSUME NEW S, NEW a \in Seq(S), NEW b \in Seq(S), NEW x \in S
    PROVE  Inserted(Append(a, x) \o b, a \o b, Len(a), x)
  <1>1. PICK c \in Seq(S) : c = Append(a, x)
    BY SeqAppend
  <1>2. Len(a) \in Nat /\ Len(b) \in Nat /\ DOMAIN a = 1..Len(a) /\ DOMAIN b = 1..Len(b)
    BY SeqElement
  <1>3. /\ Len(c) = Len(a) + 1 /\ DOMAIN c = 1..(Len(a) + 1)
        /\ \A i \in DOMAIN a : c[i] = a[i]
        /\ c[Len(a) + 1] = x
    BY <1>1, SeqAppend
  <1>4. /\ DOMAIN (c \o b) = 1..(Len(c) + Len(b))
        /\ \A i \in DOMAIN c : (c \o b)[i] = c[i]
        /\ \A i \in DOMAIN b : (c \o b)[Len(c) + i] = b[i]
    BY SeqConcat
  <1>5. /\ DOMAIN (a \o b) = 1..(Len(a) + Len(b))
        /\ \A i \in DOMAIN a : (a \o b)[i] = a[i]
        /\ \A i \in DOMAIN b : (a \o b)[Len(a) + i] = b[i]
    BY SeqConcat
  <1>6. PICK n \in Nat : n = Len(a) + Len(b)
    BY <1>2
  <1>7. Len(a) \in 0..n /\ DOMAIN (a \o b) = 1..n /\ DOMAIN (c \o b) = 1..(n + 1)
    BY <1>2, <1>3, <1>4, <1>5, <1>6
  <1>8. \A i \in 1..Len(a) : (c \o b)[i] = (a \o b)[i]
    BY <1>2, <1>3, <1>4, <1>5
  <1>9. (c \o b)[Len(a) + 1] = x
    BY <1>2, <1>3, <1>4
  <1>10. ASSUME NEW i \in (Len(a) + 1)..n PROVE (c \o b)[i + 1] = (a \o b)[i]
    <2>1. PICK j \in DOMAIN b : i = Len(a) + j
      <3>1. i - Len(a) \in DOMAIN b /\ i = Len(a) + (i - Len(a))
        BY <1>2, <1>6
      <3> QED BY <3>1
    <2>2. i + 1 = Len(c) + j
      BY <2>1, <1>2, <1>3
    <2> QED BY <2>1, <2>2, <1>4, <1>5
  <1> QED BY <1>1, <1>7, <1>8, <1>9, <1>10 DEF Inserted

LEMMA InsertBehind ==
    ASSUME NEW S, NEW a \in Seq(S), NEW w \in Seq(S), NEW q \in Seq(S), NEW p, NEW x,
           Inserted(w, q, p, x)
    PROVE  Inserted(a \o w, a \o q, Len(a) + p, x)
  <1>1. PICK n \in Nat : /\ p \in 0..n /\ DOMAIN q = 1..n /\ DOMAIN w = 1..(n + 1)
                         /\ \A i \in 1..p : w[i] = q[i]
                         /\ w[p + 1] = x
                         /\ \A i \in (p + 1)..n : w[i + 1] = q[i]
    BY DEF Inserted
  <1>2. /\ Len(a) \in Nat /\ DOMAIN a = 1..Len(a)
        /\ Len(q) \in Nat /\ DOMAIN q = 1..Len(q)
        /\ Len(w) \in Nat /\ DOMAIN w = 1..Len(w)
    BY SeqElement
  <1>3. Len(q) = n /\ Len(w) = n + 1
    BY <1>1, <1>2
  <1>4. /\ DOMAIN (a \o w) = 1..(Len(a) + Len(w))
        /\ \A i \in DOMAIN a : (a \o w)[i] = a[i]
        /\ \A i \in DOMAIN w : (a \o w)[Len(a) + i] = w[i]
    BY SeqConcat
  <1>5. /\ DOMAIN (a \o q) = 1..(Len(a) + Len(q))
        /\ \A i \in DOMAIN a : (a \o q)[i] = a[i]
        /\ \A i \in DOMAIN q : (a \o q)[Len(a) + i] = q[i]
    BY SeqConcat
  <1>6. PICK m \in Nat : m = Len(a) + n
    BY <1>2
  <1>7. Len(a) + p \in 0..m /\ DOMAIN (a \o q) = 1..m /\ DOMAIN (a \o w) = 1..(m + 1)
    BY <1>1, <1>2, <1>3, <1>4, <1>5, <1>6
  <1>8. ASSUME NEW i \in 1..(Len(a) + p) PROVE (a \o w)[i] = (a \o q)[i]
    <2>1. CASE i <= Len(a)
      BY <2>1, <1>2, <1>4, <1>5
    <2>2. CASE i > Len(a)
      <3>1. PICK j \in 1..p : i = Len(a) + j
        <4>1. i - Len(a) \in 1..p /\ i = Len(a) + (i - Len(a))
          BY <2>2, <1>1, <1>2
        <4> QED BY <4>1
      <3>2. j \in DOMAIN q /\ j \in DOMAIN w
        BY <3>1, <1>1
      <3> QED BY <3>1, <3>2, <1>1, <1>4, <1>5
    <2> QED BY <2>1, <2>2, <1>1, <1>2
  <1>9. (a \o w)[Len(a) + p + 1] = x
    <2>1. p + 1 \in DOMAIN w /\ Len(a) + p + 1 = Len(a) + (p + 1)
      BY <1>1, <1>2
    <2> QED BY <2>1, <1>1, <1>4
  <1>10. ASSUME NEW i \in (Len(a) + p + 1)..m PROVE (a \o w)[i + 1] = (a \o q)[i]
    <2>1. PICK j \in (p + 1)..n : i = Len(a) + j
      <3>1. i - Len(a) \in (p + 1)..n /\ i = Len(a) + (i - Len(a))
        BY <1>1, <1>2, <1>6
      <3> QED BY <3>1
    <2>2. j \in DOMAIN q /\ j + 1 \in DOMAIN w /\ i + 1 = Len(a) + (j + 1)
      BY <2>1, <1>1, <1>2
    <2>3. (a \o w)[i + 1] = w[j + 1] /\ (a \o q)[i] = q[j]
      BY <2>1, <2>2, <1>4, <1>5
    <2>4. w[j + 1] = q[j]
      BY <1>1
    <2> QED BY <2>3, <2>4
  <1> QED BY <1>7, <1>8, <1>9, <1>10 DEF Inserted

LEMMA InsertMiddle ==
    ASSUME NEW S, NEW a \in Seq(S), NEW b \in Seq(S), NEW c \in Seq(S), NEW x \in S
    PROVE  Inserted(a \o (Append(b, x) \o c), a \o (b \o c), Len(a) + Len(b), x)
  <1>1. Append(b, x) \in Seq(S)
    BY SeqAppend
  <1>2. Append(b, x) \o c \in Seq(S) /\ b \o c \in Seq(S)
    BY <1>1, SeqConcat
  <1>3. Inserted(Append(b, x) \o c, b \o c, Len(b), x)
    BY InsertBetween
  <1> QED BY <1>2, <1>3, InsertBehind

LEMMA InsertedHas ==
    ASSUME NEW w, NEW q, NEW p, NEW x, Inserted(w, q, p, x), NEW e
    PROVE  Has(w, e) <=> Has(q, e) \/ x = e
  <1>1. PICK n \in Nat : /\ p \in 0..n /\ DOMAIN q = 1..n /\ DOMAIN w = 1..(n + 1)
                         /\ \A i \in 1..p : w[i] = q[i]
                         /\ w[p + 1] = x
                         /\ \A i \in (p + 1)..n : w[i + 1] = q[i]
    BY DEF Inserted
  <1>2. ASSUME NEW i \in DOMAIN w, w[i] = e PROVE Has(q, e) \/ x = e
    <2>1. CASE i <= p
      BY <2>1, <1>1, <1>2 DEF Has
    <2>2. CASE i = p + 1
      BY <2>2, <1>1, <1>2
    <2>3. CASE i > p + 1
      <3>1. i - 1 \in (p + 1)..n /\ (i - 1) + 1 = i
        BY <2>3, <1>1
      <3>2. q[i - 1] = e /\ i - 1 \in DOMAIN q
        BY <3>1, <1>1, <1>2
      <3> QED BY <3>2 DEF Has
    <2> QED BY <2>1, <2>2, <2>3, <1>1
  <1>3. ASSUME NEW i \in DOMAIN q, q[i] = e PROVE Has(w, e)
    <2>1. CASE i <= p
      BY <2>1, <1>1, <1>3 DEF Has
    <2>2. CASE i > p
      <3>1. i + 1 \in DOMAIN w /\ w[i + 1] = e
        BY <2>2, <1>1, <1>3
      <3> QED BY <3>1 DEF Has
    <2> QED BY <2>1, <2>2, <1>1
  <1>4. Has(w, x)
    <2>1. p + 1 \in DOMAIN w
      BY <1>1
    <2> QED BY <2>1, <1>1 DEF Has
  <1> QED BY <1>2, <1>3, <1>4 DEF Has

-----------------------------------------------------------------------------
(* Orders *)

\* What is not an event may come anywhere.
LEMMA InsertInOrder ==
    ASSUME NEW w, NEW q, NEW p, NEW x, NEW sent,
           Inserted(w, q, p, x), ~IsEvent(x), InOrder(q, sent)
    PROVE  InOrder(w, sent)
  <1>1. PICK n \in Nat : /\ p \in 0..n /\ DOMAIN q = 1..n /\ DOMAIN w = 1..(n + 1)
                         /\ \A i \in 1..p : w[i] = q[i]
                         /\ w[p + 1] = x
                         /\ \A i \in (p + 1)..n : w[i + 1] = q[i]
    BY DEF Inserted
  <1> SUFFICES ASSUME NEW k \in DOMAIN w, IsEvent(w[k])
               PROVE  /\ \E i \in DOMAIN sent[w[k].run] :
                            /\ sent[w[k].run][i] = w[k]
                            /\ \A h \in 1..(i - 1) : \E j \in 1..(k - 1) : w[j] = sent[w[k].run][h]
                      /\ \A j \in 1..(k - 1) : w[j] # w[k]
    BY DEF InOrder
  <1>2. k # p + 1 /\ k \in 1..(n + 1)
    BY <1>1
  <1>3. CASE k <= p
    <2>1. k \in DOMAIN q /\ w[k] = q[k] /\ \A j \in 1..(k - 1) : w[j] = q[j]
      BY <1>3, <1>1
    <2>2. /\ \E i \in DOMAIN sent[q[k].run] :
                /\ sent[q[k].run][i] = q[k]
                /\ \A h \in 1..(i - 1) : \E j \in 1..(k - 1) : q[j] = sent[q[k].run][h]
          /\ \A j \in 1..(k - 1) : q[j] # q[k]
      BY <2>1 DEF InOrder
    <2> QED BY <2>1, <2>2
  <1>4. CASE k > p + 1
    <2>1. PICK l \in DOMAIN q : k = l + 1
      <3>1. k - 1 \in DOMAIN q /\ k = (k - 1) + 1
        BY <1>4, <1>1, <1>2
      <3> QED BY <3>1
    <2>2. l \in (p + 1)..n /\ w[k] = q[l]
      BY <2>1, <1>1, <1>4
    <2>3. PICK i \in DOMAIN sent[q[l].run] :
             /\ sent[q[l].run][i] = q[l]
             /\ \A h \in 1..(i - 1) : \E j \in 1..(l - 1) : q[j] = sent[q[l].run][h]
      BY <2>2 DEF InOrder
    <2>4. \A j \in 1..(l - 1) : q[j] # q[l]
      BY <2>2 DEF InOrder
    <2>5. ASSUME NEW j \in 1..(l - 1) PROVE \E m \in 1..(k - 1) : w[m] = q[j]
      <3>1. CASE j <= p
        <4>1. j \in 1..(k - 1) /\ w[j] = q[j]
          BY <3>1, <2>1, <2>2, <1>1
        <4> QED BY <4>1
      <3>2. CASE j > p
        <4>1. j + 1 \in 1..(k - 1) /\ w[j + 1] = q[j]
          BY <3>2, <2>1, <2>2, <1>1
        <4> QED BY <4>1
      <3> QED BY <3>1, <3>2, <1>1
    <2>6. ASSUME NEW h \in 1..(i - 1)
          PROVE  \E m \in 1..(k - 1) : w[m] = sent[w[k].run][h]
      <3>1. PICK j \in 1..(l - 1) : q[j] = sent[q[l].run][h]
        BY <2>3
      <3> QED BY <3>1, <2>2, <2>5
    <2>7. ASSUME NEW m \in 1..(k - 1) PROVE w[m] # w[k]
      <3>1. CASE m <= p
        <4>1. m \in 1..(l - 1) /\ w[m] = q[m]
          BY <3>1, <2>1, <2>2, <1>1
        <4> QED BY <4>1, <2>2, <2>4
      <3>2. CASE m = p + 1
        <4>1. w[m] = x
          BY <3>2, <1>1
        <4> QED BY <4>1
      <3>3. CASE m > p + 1
        <4>1. m - 1 \in (p + 1)..n /\ m - 1 \in 1..(l - 1) /\ (m - 1) + 1 = m
          BY <3>3, <2>1, <2>2, <1>1
        <4>2. w[m] = q[m - 1]
          BY <4>1, <1>1
        <4> QED BY <4>1, <4>2, <2>2, <2>4
      <3> QED BY <3>1, <3>2, <3>3, <1>1
    <2> QED BY <2>2, <2>3, <2>6, <2>7
  <1> QED BY <1>1, <1>2, <1>3, <1>4

LEMMA InsertRunOrder ==
    ASSUME NEW w, NEW q, NEW p, NEW x,
           Inserted(w, q, p, x), RunOrder(q),
           \A j \in DOMAIN q : j <= p /\ IsEvent(q[j]) => q[j].run <= x.run,
           \A j \in DOMAIN q : j > p /\ IsEvent(x) => x.run <= q[j].run
    PROVE  RunOrder(w)
  <1>1. PICK n \in Nat : /\ p \in 0..n /\ DOMAIN q = 1..n /\ DOMAIN w = 1..(n + 1)
                         /\ \A i \in 1..p : w[i] = q[i]
                         /\ w[p + 1] = x
                         /\ \A i \in (p + 1)..n : w[i + 1] = q[i]
    BY DEF Inserted
  <1> SUFFICES ASSUME NEW j \in DOMAIN w, NEW k \in DOMAIN w, j < k, IsEvent(w[j])
               PROVE  w[j].run <= w[k].run
    BY DEF RunOrder
  <1>2. \A i \in DOMAIN w : i <= p => i \in DOMAIN q /\ w[i] = q[i]
    BY <1>1
  <1>3. ASSUME NEW i \in DOMAIN w, i > p + 1 PROVE i - 1 \in DOMAIN q /\ w[i] = q[i - 1]
    <2>1. i - 1 \in (p + 1)..n /\ (i - 1) + 1 = i
      BY <1>1, <1>3
    <2> QED BY <2>1, <1>1
  <1>4. CASE k <= p
    <2>1. j <= p
      BY <1>4, <1>1
    <2> QED BY <1>2, <1>4, <2>1 DEF RunOrder
  <1>5. CASE k = p + 1
    <2>1. j <= p /\ w[k] = x
      BY <1>5, <1>1
    <2> QED BY <1>2, <2>1
  <1>6. CASE k > p + 1
    <2>1. k - 1 \in DOMAIN q /\ w[k] = q[k - 1]
      BY <1>3, <1>6
    <2>2. CASE j <= p
      <3>1. j \in DOMAIN q /\ w[j] = q[j] /\ j < k - 1
        BY <2>2, <1>1, <1>2, <1>6
      <3> QED BY <3>1, <2>1 DEF RunOrder
    <2>3. CASE j = p + 1
      <3>1. w[j] = x /\ k - 1 > p
        BY <2>3, <1>1, <1>6
      <3> QED BY <3>1, <2>1
    <2>4. CASE j > p + 1
      <3>1. j - 1 \in DOMAIN q /\ w[j] = q[j - 1] /\ j - 1 < k - 1
        BY <2>4, <1>1, <1>3
      <3> QED BY <3>1, <2>1 DEF RunOrder
    <2> QED BY <2>2, <2>3, <2>4, <1>1
  <1> QED BY <1>4, <1>5, <1>6, <1>1

\* The beginning of what is in order is in order.
LEMMA FrontInOrder ==
    ASSUME NEW S, NEW a \in Seq(S), NEW b \in Seq(S), NEW sent, InOrder(a \o b, sent)
    PROVE  InOrder(a, sent)
  <1> SUFFICES ASSUME NEW k \in DOMAIN a, IsEvent(a[k])
               PROVE  /\ \E i \in DOMAIN sent[a[k].run] :
                            /\ sent[a[k].run][i] = a[k]
                            /\ \A h \in 1..(i - 1) : \E j \in 1..(k - 1) : a[j] = sent[a[k].run][h]
                      /\ \A j \in 1..(k - 1) : a[j] # a[k]
    BY DEF InOrder
  <1>1. PICK w : w = a \o b
    OBVIOUS
  <1>2. DOMAIN a \subseteq DOMAIN w /\ \A i \in DOMAIN a : w[i] = a[i]
    BY <1>1, SeqConcat, SeqElement
  <1>3. \A j \in 1..(k - 1) : j \in DOMAIN a
    BY SeqElement
  <1>4. w[k] = a[k] /\ k \in DOMAIN w /\ \A j \in 1..(k - 1) : w[j] = a[j]
    BY <1>2, <1>3
  <1>5. /\ \E i \in DOMAIN sent[w[k].run] :
              /\ sent[w[k].run][i] = w[k]
              /\ \A h \in 1..(i - 1) : \E j \in 1..(k - 1) : w[j] = sent[w[k].run][h]
        /\ \A j \in 1..(k - 1) : w[j] # w[k]
    <2>1. InOrder(w, sent)
      BY <1>1
    <2> QED BY <2>1, <1>4 DEF InOrder
  <1> QED BY <1>4, <1>5

\* What is in order was sent.
LEMMA OrderedSent ==
    ASSUME NEW q, NEW sent, InOrder(q, sent), NEW k \in DOMAIN q, IsEvent(q[k])
    PROVE  Has(sent[q[k].run], q[k])
  BY DEF InOrder, Has

\* A run that sends another event disturbs nothing.
LEMMA MoreSent ==
    ASSUME NEW q \in Seq(Entry), NEW sent \in [Runs -> Seq(Event)], InOrder(q, sent),
           NEW r \in Runs, NEW e \in Event
    PROVE  InOrder(q, [sent EXCEPT ![r] = Append(@, e)])
  <1>1. PICK more : more = [sent EXCEPT ![r] = Append(@, e)]
    OBVIOUS
  <1>2. ASSUME NEW s \in Runs
        PROVE  DOMAIN sent[s] \subseteq DOMAIN more[s] /\ \A i \in DOMAIN sent[s] : more[s][i] = sent[s][i]
    <2>1. PICK old \in Seq(Event) : old = sent[s]
      OBVIOUS
    <2>2. CASE s = r
      <3>1. more[s] = Append(old, e)
        BY <1>1, <2>1, <2>2
      <3> QED BY <3>1, <2>1, SeqAppend, SeqElement
    <2>3. CASE s # r
      BY <1>1, <2>3
    <2> QED BY <2>2, <2>3
  <1> SUFFICES InOrder(q, more)
    BY <1>1
  <1> SUFFICES ASSUME NEW k \in DOMAIN q, IsEvent(q[k])
               PROVE  /\ \E i \in DOMAIN more[q[k].run] :
                            /\ more[q[k].run][i] = q[k]
                            /\ \A h \in 1..(i - 1) : \E j \in 1..(k - 1) : q[j] = more[q[k].run][h]
                      /\ \A j \in 1..(k - 1) : q[j] # q[k]
    BY DEF InOrder
  <1>3. PICK s \in Runs : s = q[k].run
    <2>1. q[k] \in Entry
      BY SeqElement
    <2> QED BY <2>1 DEF Entry
  <1>4. PICK i \in DOMAIN sent[s] :
           sent[s][i] = q[k] /\ \A h \in 1..(i - 1) : \E j \in 1..(k - 1) : q[j] = sent[s][h]
    BY <1>3 DEF InOrder
  <1>5. \A h \in 1..(i - 1) : h \in DOMAIN sent[s]
    <2>1. PICK old \in Seq(Event) : old = sent[s]
      OBVIOUS
    <2>2. DOMAIN old = 1..Len(old) /\ Len(old) \in Nat
      BY SeqElement
    <2> QED BY <2>1, <2>2
  <1>6. i \in DOMAIN more[s] /\ more[s][i] = q[k]
    BY <1>2, <1>4
  <1>7. ASSUME NEW h \in 1..(i - 1) PROVE \E j \in 1..(k - 1) : q[j] = more[s][h]
    BY <1>2, <1>4, <1>5
  <1>8. \A j \in 1..(k - 1) : q[j] # q[k]
    BY DEF InOrder
  <1> QED BY <1>3, <1>6, <1>7, <1>8

\* The event that a run sends next comes in order behind all that it sent before.
LEMMA NextInOrder ==
    ASSUME NEW q \in Seq(Entry), NEW sent \in [Runs -> Seq(Event)], InOrder(q, sent),
           NEW r \in Runs, NEW e \in Event, e \in Entry, e.run = r, ~Has(sent[r], e),
           \A i \in DOMAIN sent[r] : Has(q, sent[r][i])
    PROVE  InOrder(Append(q, e), [sent EXCEPT ![r] = Append(@, e)])
  <1>1. PICK more : more = [sent EXCEPT ![r] = Append(@, e)]
    OBVIOUS
  <1>2. PICK w : w = Append(q, e)
    OBVIOUS
  <1>3. PICK n \in Nat : n = Len(q) /\ DOMAIN q = 1..n
    BY SeqElement
  <1>4. DOMAIN w = 1..(n + 1) /\ w[n + 1] = e /\ \A i \in 1..n : w[i] = q[i]
    BY <1>2, <1>3, SeqAppend
  <1>5. InOrder(q, more)
    BY <1>1, MoreSent
  <1> SUFFICES InOrder(w, more)
    BY <1>1, <1>2
  <1> SUFFICES ASSUME NEW k \in DOMAIN w, IsEvent(w[k])
               PROVE  /\ \E i \in DOMAIN more[w[k].run] :
                            /\ more[w[k].run][i] = w[k]
                            /\ \A h \in 1..(i - 1) : \E j \in 1..(k - 1) : w[j] = more[w[k].run][h]
                      /\ \A j \in 1..(k - 1) : w[j] # w[k]
    BY DEF InOrder
  <1>6. CASE k <= n
    <2>1. k \in DOMAIN q /\ w[k] = q[k] /\ \A j \in 1..(k - 1) : w[j] = q[j]
      BY <1>3, <1>4, <1>6
    <2>2. /\ \E i \in DOMAIN more[q[k].run] :
                /\ more[q[k].run][i] = q[k]
                /\ \A h \in 1..(i - 1) : \E j \in 1..(k - 1) : q[j] = more[q[k].run][h]
          /\ \A j \in 1..(k - 1) : q[j] # q[k]
      BY <1>5, <2>1 DEF InOrder
    <2> QED BY <2>1, <2>2
  <1>7. CASE k = n + 1
    <2>1. w[k] = e /\ w[k].run = r
      BY <1>4, <1>7
    <2>2. PICK old \in Seq(Event) : old = sent[r]
      OBVIOUS
    <2>3. more[r] = Append(old, e)
      BY <1>1, <2>2
    <2>4. PICK m \in Nat : m = Len(old) /\ DOMAIN old = 1..m
      BY SeqElement
    <2>5. DOMAIN more[r] = 1..(m + 1) /\ more[r][m + 1] = e /\ \A i \in 1..m : more[r][i] = old[i]
      BY <2>3, <2>4, SeqAppend
    <2>6. ASSUME NEW h \in 1..((m + 1) - 1) PROVE \E j \in 1..(k - 1) : w[j] = more[r][h]
      <3>1. h \in DOMAIN old
        BY <2>4
      <3>2. PICK j \in DOMAIN q : q[j] = old[h]
        BY <2>2, <3>1 DEF Has
      <3>3. j \in 1..(k - 1) /\ w[j] = q[j]
        BY <3>2, <1>3, <1>4, <1>7
      <3> QED BY <3>2, <3>3, <2>4, <2>5
    <2>7. ASSUME NEW j \in 1..(k - 1) PROVE w[j] # w[k]
      <3>1. j \in DOMAIN q /\ w[j] = q[j]
        BY <1>3, <1>4, <1>7
      <3>2. CASE q[j] = e
        <4>1. IsEvent(q[j]) /\ q[j].run = r
          BY <3>2, <2>1
        <4>2. Has(sent[r], q[j])
          BY <3>1, <4>1, OrderedSent
        <4> QED BY <3>2, <4>2
      <3> QED BY <2>1, <3>1, <3>2
    <2>8. m + 1 \in DOMAIN more[r]
      BY <2>5
    <2>9. /\ more[w[k].run][m + 1] = w[k]
          /\ \A h \in 1..((m + 1) - 1) : \E j \in 1..(k - 1) : w[j] = more[w[k].run][h]
          /\ m + 1 \in DOMAIN more[w[k].run]
      BY <2>1, <2>5, <2>6, <2>8
    <2> QED BY <2>7, <2>9
  <1> QED BY <1>3, <1>4, <1>6, <1>7

-----------------------------------------------------------------------------
(* What a run sends *)

LEMMA AppendHas ==
    ASSUME NEW S, NEW q \in Seq(S), NEW x \in S, NEW e
    PROVE  Has(Append(q, x), e) <=> Has(q, e) \/ x = e
  BY InsertEnd, InsertedHas

LEMMA AppendSent ==
    ASSUME NEW r, NEW sent \in Seq(Event), NEW run, NEW new, NEW e \in Event,
           SentBounded(r, sent, run), Distinct(sent), CallOrder(r, sent),
           \A f \in Event : Bounded(f, run) => Bounded(f, new),
           e.run = r, Bounded(e, new), ~Has(sent, e),
           e.kind = "end" => Has(sent, Ev("begin", r, e.n)),
           e.kind \in {"begin", "end"} => /\ e.n # 0
                                          /\ \A m \in 1..(e.n - 1) : Has(sent, Ev("end", r, m))
    PROVE  /\ SentBounded(r, Append(sent, e), new)
           /\ Distinct(Append(sent, e))
           /\ CallOrder(r, Append(sent, e))
  <1>1. PICK more : more = Append(sent, e)
    OBVIOUS
  <1>2. PICK n \in Nat : n = Len(sent) /\ DOMAIN sent = 1..n
    BY SeqElement
  <1>3. DOMAIN more = 1..(n + 1) /\ more[n + 1] = e /\ \A i \in 1..n : more[i] = sent[i]
    BY <1>1, <1>2, SeqAppend
  <1>4. \A i \in DOMAIN sent : sent[i] \in Event
    BY SeqElement
  <1>5. SentBounded(r, more, new)
    <2> SUFFICES ASSUME NEW i \in 1..(n + 1) PROVE more[i].run = r /\ Bounded(more[i], new)
      BY <1>3 DEF SentBounded
    <2>1. CASE i = n + 1
      BY <2>1, <1>3
    <2>2. CASE i # n + 1
      <3>1. i \in 1..n /\ more[i] = sent[i]
        BY <2>2, <1>3
      <3> QED BY <3>1, <1>2, <1>4 DEF SentBounded
    <2> QED BY <2>1, <2>2
  <1>6. Distinct(more)
    <2>1. \A i \in 1..n : sent[i] # e
      BY <1>2 DEF Has
    <2> SUFFICES ASSUME NEW i \in 1..(n + 1), NEW j \in 1..(n + 1), more[i] = more[j] PROVE i = j
      BY <1>3 DEF Distinct
    <2>2. CASE i = n + 1 /\ j # n + 1
      BY <2>1, <2>2, <1>3
    <2>3. CASE i # n + 1 /\ j = n + 1
      BY <2>1, <2>3, <1>3
    <2>4. CASE i # n + 1 /\ j # n + 1
      <3>1. i \in 1..n /\ j \in 1..n
        BY <2>4
      <3> QED BY <3>1, <1>2, <1>3 DEF Distinct
    <2> QED BY <2>2, <2>3, <2>4
  <1>7. CallOrder(r, more)
    <2> SUFFICES ASSUME NEW i \in 1..(n + 1)
                 PROVE  /\ more[i].kind = "end" =>
                              \E j \in 1..(i - 1) : more[j] = Ev("begin", r, more[i].n)
                        /\ more[i].kind \in {"begin", "end"} =>
                              /\ more[i].n # 0
                              /\ \A m \in 1..(more[i].n - 1) :
                                    \E j \in 1..(i - 1) : more[j] = Ev("end", r, m)
      BY <1>3 DEF CallOrder
    <2>1. CASE i = n + 1
      <3>1. more[i] = e
        BY <2>1, <1>3
      <3>2. ASSUME NEW f, Has(sent, f) PROVE \E j \in 1..(i - 1) : more[j] = f
        <4>1. PICK j \in 1..n : sent[j] = f
          BY <3>2, <1>2 DEF Has
        <4>2. j \in 1..(i - 1) /\ more[j] = f
          BY <4>1, <2>1, <1>3
        <4> QED BY <4>2
      <3> QED BY <3>1, <3>2
    <2>2. CASE i # n + 1
      <3>1. i \in DOMAIN sent /\ more[i] = sent[i] /\ \A j \in 1..(i - 1) : more[j] = sent[j]
        BY <2>2, <1>2, <1>3
      <3>2. /\ sent[i].kind = "end" =>
                  \E j \in 1..(i - 1) : sent[j] = Ev("begin", r, sent[i].n)
            /\ sent[i].kind \in {"begin", "end"} =>
                  /\ sent[i].n # 0
                  /\ \A m \in 1..(sent[i].n - 1) :
                        \E j \in 1..(i - 1) : sent[j] = Ev("end", r, m)
        BY <3>1 DEF CallOrder
      <3> QED BY <3>1, <3>2
    <2> QED BY <2>1, <2>2
  <1> QED BY <1>1, <1>5, <1>6, <1>7

\* A text has the number of the turn.
LEMMA SentText ==
    ASSUME NEW r \in Runs, NEW sent \in Seq(Event), NEW run \in RunType, NEW new \in RunType,
           Sent(r, sent, run), run.at = "invoking", new.at \in {"result", "call"},
           new.turn = run.turn, new.calls = run.calls, NEW e \in Event, e = Ev("text", r, run.turn)
    PROVE  ~Has(sent, e) /\ Sent(r, Append(sent, e), new)
  <1>1. e.kind = "text" /\ e.n = run.turn /\ e.run = r
    BY DEF Ev
  <1>2. ~Has(sent, e)
    BY <1>1 DEF Has, Sent, SentBounded, Bounded, RunType
  <1>3. \A f \in Event : Bounded(f, run) => Bounded(f, new)
    BY DEF Bounded, Event, RunType
  <1>4. Bounded(e, new)
    BY <1>1 DEF Bounded, RunType
  <1>5. /\ SentBounded(r, Append(sent, e), new) /\ Distinct(Append(sent, e))
        /\ CallOrder(r, Append(sent, e))
    BY <1>1, <1>2, <1>3, <1>4, AppendSent DEF Sent
  <1>6. CallsEnded(r, Append(sent, e), new)
    BY AppendHas DEF Sent, CallsEnded
  <1> QED BY <1>2, <1>5, <1>6 DEF Sent

LEMMA SentAsk ==
    ASSUME NEW r \in Runs, NEW sent \in Seq(Event), NEW run \in RunType, NEW new \in RunType,
           Sent(r, sent, run), run.at = "call", new.at = "asking",
           new.turn = run.turn, new.calls = run.calls,
           NEW e \in Event, e = Ev("ask", r, run.calls + 1)
    PROVE  ~Has(sent, e) /\ Sent(r, Append(sent, e), new)
  <1>1. e.kind = "ask" /\ e.n = run.calls + 1 /\ e.run = r
    BY DEF Ev
  <1>2. ~Has(sent, e)
    BY <1>1 DEF Has, Sent, SentBounded, Bounded, RunType
  <1>3. \A f \in Event : Bounded(f, run) => Bounded(f, new)
    BY DEF Bounded, Event, RunType
  <1>4. Bounded(e, new)
    BY <1>1 DEF Bounded, RunType
  <1>5. /\ SentBounded(r, Append(sent, e), new) /\ Distinct(Append(sent, e))
        /\ CallOrder(r, Append(sent, e))
    BY <1>1, <1>2, <1>3, <1>4, AppendSent DEF Sent
  <1>6. CallsEnded(r, Append(sent, e), new)
    BY AppendHas DEF Sent, CallsEnded
  <1> QED BY <1>2, <1>5, <1>6 DEF Sent

\* A call begins when those before it have ended.
LEMMA SentBegin ==
    ASSUME NEW r \in Runs, NEW sent \in Seq(Event), NEW run \in RunType, NEW new \in RunType,
           Sent(r, sent, run), run.at \in {"call", "asking"}, new.at = "calling",
           new.turn = run.turn, new.calls = run.calls + 1,
           NEW e \in Event, e = Ev("begin", r, run.calls + 1)
    PROVE  ~Has(sent, e) /\ Sent(r, Append(sent, e), new)
  <1>1. e.kind = "begin" /\ e.n = run.calls + 1 /\ e.run = r /\ run.calls \in Nat
    BY RunStreamConstants DEF Ev, RunType
  <1>2. ~Has(sent, e)
    BY <1>1 DEF Has, Sent, SentBounded, Bounded, RunType
  <1>3. \A f \in Event : Bounded(f, run) => Bounded(f, new)
    BY <1>1 DEF Bounded, Event, RunType
  <1>4. Bounded(e, new)
    BY <1>1 DEF Bounded, RunType
  <1>5. \A m \in 1..(e.n - 1) : Has(sent, Ev("end", r, m))
    BY <1>1 DEF Sent, CallsEnded
  <1>6. /\ SentBounded(r, Append(sent, e), new) /\ Distinct(Append(sent, e))
        /\ CallOrder(r, Append(sent, e))
    BY <1>1, <1>2, <1>3, <1>4, <1>5, AppendSent DEF Sent
  <1>7. CallsEnded(r, Append(sent, e), new)
    <2>1. Has(Append(sent, e), Ev("begin", r, new.calls))
      BY AppendHas
    <2>2. \A m \in 1..(new.calls - 1) : Has(Append(sent, e), Ev("end", r, m))
      BY <1>1, <1>5, AppendHas
    <2> QED BY <1>1, <2>1, <2>2 DEF CallsEnded
  <1> QED BY <1>2, <1>6, <1>7 DEF Sent

LEMMA SentEnd ==
    ASSUME NEW r \in Runs, NEW sent \in Seq(Event), NEW run \in RunType, NEW new \in RunType,
           Sent(r, sent, run), run.at = "calling", new.at \in {"invoking", "call"},
           new.at = "invoking" => new.turn = run.turn + 1,
           new.at = "call" => new.turn = run.turn, new.calls = run.calls,
           NEW e \in Event, e = Ev("end", r, run.calls)
    PROVE  ~Has(sent, e) /\ Sent(r, Append(sent, e), new)
  <1>1. e.kind = "end" /\ e.n = run.calls /\ e.run = r /\ run.calls \in Nat /\ run.turn \in Nat
    BY RunStreamConstants DEF Ev, RunType
  <1>2. ~Has(sent, e)
    BY <1>1 DEF Has, Sent, SentBounded, Bounded, RunType
  <1>3. \A f \in Event : Bounded(f, run) => Bounded(f, new)
    BY <1>1 DEF Bounded, Event, RunType
  <1>4. Bounded(e, new)
    BY <1>1 DEF Bounded, RunType
  <1>5. /\ run.calls # 0 /\ Has(sent, Ev("begin", r, run.calls))
        /\ \A m \in 1..(run.calls - 1) : Has(sent, Ev("end", r, m))
    BY DEF Sent, CallsEnded
  <1>6. /\ SentBounded(r, Append(sent, e), new) /\ Distinct(Append(sent, e))
        /\ CallOrder(r, Append(sent, e))
    BY <1>1, <1>2, <1>3, <1>4, <1>5, AppendSent DEF Sent
  <1>7. CallsEnded(r, Append(sent, e), new)
    <2>1. ASSUME NEW m \in 1..new.calls PROVE Has(Append(sent, e), Ev("end", r, m))
      <3>1. CASE m = run.calls
        BY <3>1, AppendHas
      <3>2. CASE m # run.calls
        <4>1. m \in 1..(run.calls - 1)
          BY <3>2, <1>1
        <4> QED BY <4>1, <1>5, AppendHas
      <3> QED BY <3>1, <3>2
    <2> QED BY <2>1 DEF CallsEnded
  <1> QED BY <1>2, <1>6, <1>7 DEF Sent

\* What has no event, or an end of the run, leaves what was sent as it should be.
LEMMA SentSilent ==
    ASSUME NEW r \in Runs, NEW sent \in Seq(Event), NEW run \in RunType, NEW new \in RunType,
           Sent(r, sent, run), new.turn = run.turn, new.calls = run.calls,
           \/ new.at \in {"result", "error", "over"}
           \/ run.at = "invoking" /\ new.at = "call"
           \/ new.at = run.at
    PROVE  Sent(r, sent, new)
  <1>1. \A f \in Event : Bounded(f, run) => Bounded(f, new)
    BY DEF Bounded, Event, RunType
  <1>2. \A i \in DOMAIN sent : sent[i] \in Event
    BY SeqElement
  <1>3. SentBounded(r, sent, new)
    BY <1>1, <1>2 DEF Sent, SentBounded
  <1>4. CallsEnded(r, sent, new)
    BY DEF Sent, CallsEnded
  <1> QED BY <1>3, <1>4 DEF Sent

LEMMA SentNothing ==
    ASSUME NEW r \in Runs, NEW new \in RunType, new.calls = 0, new.at \in {"off", "invoking", "error"}
    PROVE  Sent(r, <<>>, new)
  <1>1. \A i : i \notin DOMAIN <<>>
    BY EmptySeq, SeqElement
  <1> QED BY <1>1 DEF Sent, SentBounded, Distinct, CallOrder, CallsEnded, Has

-----------------------------------------------------------------------------
(* Steps of the harness *)

Sends(r, new) ==
    \/ Silent /\ Sent(r, emitted[r], new)
    \/ \E e \in Event : /\ Emit(r, e) /\ e.run = r /\ ~Has(emitted[r], e)
                        /\ Sent(r, Append(emitted[r], e), new)

\* The run goes on, with or without an event.
Moves(r) ==
    /\ runs[r].at # "off"
    /\ \E new \in RunType : /\ Allowed(new) /\ new.at # "off" /\ runs' = [runs EXCEPT ![r] = new]
                            /\ Sends(r, new)

LEMMA Bounds == /\ MaxInputs \in Nat /\ MaxCalls \in Nat /\ MaxFaults \in Nat
                /\ MaxTurns \in Nat \ {0} /\ Capacity \in Nat \ {0}
  BY RunStreamConstants

LEMMA EvEvent ==
    ASSUME NEW kind \in {"text", "ask", "begin", "end"}, NEW r \in Runs, NEW n \in Nat
    PROVE  /\ Ev(kind, r, n) \in Event /\ Ev(kind, r, n) \in Entry /\ IsEvent(Ev(kind, r, n))
           /\ Ev(kind, r, n).kind = kind /\ Ev(kind, r, n).run = r /\ Ev(kind, r, n).n = n
  BY DEF Ev, Event, Entry, IsEvent

LEMMA RunFacts ==
    ASSUME Typed, Emission, NEW r \in Runs
    PROVE  /\ runs[r] \in RunType /\ Allowed(runs[r])
           /\ runs[r].turn \in Nat \ {0} /\ runs[r].calls \in Nat
           /\ emitted[r] \in Seq(Event) /\ Sent(r, emitted[r], runs[r])
  <1>1. runs[r] \in RunType /\ Allowed(runs[r])
    BY DEF Typed, RunsTyped
  <1>2. runs[r].turn \in Nat \ {0} /\ runs[r].calls \in Nat
    BY <1>1, RunStreamConstants DEF RunType
  <1> QED BY <1>1, <1>2 DEF Typed, ServerTyped, Emission

LEMMA AnswerMoves ==
    ASSUME Typed, Emission, NEW r \in Runs, Answer(r)
    PROVE  Moves(r)
  <1>1. PICK run : run = runs[r]
    OBVIOUS
  <1>2. /\ run \in RunType /\ Allowed(run) /\ run.turn \in Nat /\ run.calls \in Nat
        /\ emitted[r] \in Seq(Event) /\ Sent(r, emitted[r], run) /\ run.at = "invoking"
    BY <1>1, RunFacts DEF Answer
  <1>3. PICK at \in {"result", "call"} :
           /\ at = "call" => run.turn < MaxTurns /\ run.calls < MaxCalls
           /\ \/ Emit(r, Ev("text", r, run.turn)) /\ Become(r, at)
              \/ Become(r, at) /\ Silent
    BY <1>1 DEF Answer
  <1>4. PICK new : new = [run EXCEPT !.at = at]
    OBVIOUS
  <1>5. /\ new \in RunType /\ new.at = at /\ new.turn = run.turn /\ new.calls = run.calls
        /\ Allowed(new) /\ new.at # "off"
    BY <1>2, <1>3, <1>4 DEF RunType, Ats, Allowed
  <1>6. Become(r, at) => runs' = [runs EXCEPT ![r] = new]
    BY <1>1, <1>4 DEF Become
  <1>7. Sent(r, emitted[r], new)
    BY <1>2, <1>3, <1>5, SentSilent
  <1>8. CASE Emit(r, Ev("text", r, run.turn)) /\ Become(r, at)
    <2>1. PICK e \in Event : e = Ev("text", r, run.turn) /\ e.run = r
      BY <1>2, EvEvent
    <2>2. ~Has(emitted[r], e) /\ Sent(r, Append(emitted[r], e), new)
      BY <1>2, <1>3, <1>5, <2>1, SentText
    <2> QED BY <1>1, <1>2, <1>5, <1>6, <1>8, <2>1, <2>2 DEF Moves, Sends
  <1>9. CASE Become(r, at) /\ Silent
    BY <1>1, <1>2, <1>5, <1>6, <1>7, <1>9 DEF Moves, Sends
  <1> QED BY <1>3, <1>8, <1>9

LEMMA InvokeFailsMoves ==
    ASSUME Typed, Emission, NEW r \in Runs, InvokeFails(r)
    PROVE  Moves(r)
  <1>1. PICK run : run = runs[r]
    OBVIOUS
  <1>2. /\ run \in RunType /\ Allowed(run)
        /\ emitted[r] \in Seq(Event) /\ Sent(r, emitted[r], run) /\ run.at = "invoking"
    BY <1>1, RunFacts DEF InvokeFails
  <1>3. PICK new : new = [run EXCEPT !.at = "error"]
    OBVIOUS
  <1>4. /\ new \in RunType /\ new.at = "error" /\ new.turn = run.turn /\ new.calls = run.calls
        /\ Allowed(new)
    BY <1>2, <1>3 DEF RunType, Ats, Allowed
  <1>5. Sent(r, emitted[r], new)
    BY <1>2, <1>4, SentSilent
  <1>6. runs' = [runs EXCEPT ![r] = new] /\ Silent
    BY <1>1, <1>3 DEF InvokeFails, Become, Silent
  <1> QED BY <1>1, <1>2, <1>4, <1>5, <1>6 DEF Moves, Sends

LEMMA BeginMoves ==
    ASSUME Typed, Emission, NEW r \in Runs, runs[r].at \in {"call", "asking"}, Begin(r)
    PROVE  Moves(r)
  <1>1. PICK run : run = runs[r]
    OBVIOUS
  <1>2. /\ run \in RunType /\ Allowed(run) /\ run.calls \in Nat
        /\ emitted[r] \in Seq(Event) /\ Sent(r, emitted[r], run) /\ run.at \in {"call", "asking"}
    BY <1>1, RunFacts
  <1>3. PICK new : new = [run EXCEPT !.at = "calling", !.calls = @ + 1]
    OBVIOUS
  <1>8. run.calls + 1 \in 0..MaxCalls
    BY <1>2, Bounds DEF Allowed, RunType
  <1>4. /\ new \in RunType /\ new.at = "calling" /\ new.turn = run.turn
        /\ new.calls = run.calls + 1 /\ Allowed(new)
    BY <1>2, <1>3, <1>8 DEF RunType, Ats, Allowed
  <1>5. PICK e \in Event : e = Ev("begin", r, run.calls + 1) /\ e.run = r
    BY <1>2, EvEvent
  <1>6. ~Has(emitted[r], e) /\ Sent(r, Append(emitted[r], e), new)
    BY <1>2, <1>4, <1>5, SentBegin
  <1>7. runs' = [runs EXCEPT ![r] = new] /\ Emit(r, e)
    BY <1>1, <1>3, <1>5 DEF Begin
  <1> QED BY <1>1, <1>2, <1>4, <1>5, <1>6, <1>7 DEF Moves, Sends

LEMMA CallToolMoves ==
    ASSUME Typed, Emission, NEW r \in Runs, CallTool(r)
    PROVE  Moves(r)
  <1>1. CASE Begin(r)
    BY <1>1, BeginMoves DEF CallTool
  <1>2. CASE Emit(r, Ev("ask", r, runs[r].calls + 1)) /\ Become(r, "asking")
    <2>1. PICK run : run = runs[r]
      OBVIOUS
    <2>2. /\ run \in RunType /\ Allowed(run) /\ run.calls \in Nat
          /\ emitted[r] \in Seq(Event) /\ Sent(r, emitted[r], run) /\ run.at = "call"
      BY <2>1, RunFacts DEF CallTool
    <2>3. PICK new : new = [run EXCEPT !.at = "asking"]
      OBVIOUS
    <2>4. /\ new \in RunType /\ new.at = "asking" /\ new.turn = run.turn
          /\ new.calls = run.calls /\ Allowed(new)
      BY <2>2, <2>3 DEF RunType, Ats, Allowed
    <2>5. PICK e \in Event : e = Ev("ask", r, run.calls + 1) /\ e.run = r
      BY <2>2, EvEvent
    <2>6. ~Has(emitted[r], e) /\ Sent(r, Append(emitted[r], e), new)
      BY <2>2, <2>4, <2>5, SentAsk
    <2>7. runs' = [runs EXCEPT ![r] = new] /\ Emit(r, e)
      BY <1>2, <2>1, <2>3, <2>5 DEF Become
    <2> QED BY <2>1, <2>2, <2>4, <2>5, <2>6, <2>7 DEF Moves, Sends
  <1> QED BY <1>1, <1>2 DEF CallTool

LEMMA DecidedMoves ==
    ASSUME Typed, Emission, NEW r \in Runs, Decided(r)
    PROVE  Moves(r)
  <1>1. CASE Begin(r)
    BY <1>1, BeginMoves DEF Decided
  <1>2. CASE Become(r, "error") /\ Silent
    <2>1. PICK run : run = runs[r]
      OBVIOUS
    <2>2. /\ run \in RunType /\ Allowed(run)
          /\ emitted[r] \in Seq(Event) /\ Sent(r, emitted[r], run) /\ run.at = "asking"
      BY <2>1, RunFacts DEF Decided
    <2>3. PICK new : new = [run EXCEPT !.at = "error"]
      OBVIOUS
    <2>4. /\ new \in RunType /\ new.at = "error" /\ new.turn = run.turn
          /\ new.calls = run.calls /\ Allowed(new)
      BY <2>2, <2>3 DEF RunType, Ats, Allowed
    <2>5. Sent(r, emitted[r], new)
      BY <2>2, <2>4, SentSilent
    <2>6. runs' = [runs EXCEPT ![r] = new]
      BY <1>2, <2>1, <2>3 DEF Become
    <2> QED BY <1>2, <2>1, <2>2, <2>4, <2>5, <2>6 DEF Moves, Sends
  <1> QED BY <1>1, <1>2 DEF Decided

LEMMA ToolAnswersMoves ==
    ASSUME Typed, Emission, NEW r \in Runs, ToolAnswers(r)
    PROVE  Moves(r)
  <1>1. PICK run : run = runs[r]
    OBVIOUS
  <1>2. /\ run \in RunType /\ Allowed(run) /\ run.calls \in Nat /\ run.turn \in Nat
        /\ emitted[r] \in Seq(Event) /\ Sent(r, emitted[r], run) /\ run.at = "calling"
    BY <1>1, RunFacts DEF ToolAnswers
  <1>3. PICK e \in Event : e = Ev("end", r, run.calls) /\ e.run = r
    BY <1>2, EvEvent
  <1>4. Emit(r, e)
    BY <1>1, <1>3 DEF ToolAnswers
  <1>5. PICK new : /\ \/ new = [run EXCEPT !.at = "invoking", !.decision = "none", !.turn = @ + 1]
                      \/ /\ run.calls < MaxCalls
                         /\ new = [run EXCEPT !.at = "call", !.decision = "none"]
                   /\ runs' = [runs EXCEPT ![r] = new]
    <2>1. CASE runs' = [runs EXCEPT ![r].at = "invoking", ![r].decision = "none", ![r].turn = @ + 1]
      <3>1. PICK next : next = [run EXCEPT !.at = "invoking", !.decision = "none", !.turn = @ + 1]
        OBVIOUS
      <3>2. runs' = [runs EXCEPT ![r] = next]
        BY <1>1, <2>1, <3>1
      <3> QED BY <3>1, <3>2
    <2>2. CASE /\ runs[r].calls < MaxCalls
               /\ runs' = [runs EXCEPT ![r].at = "call", ![r].decision = "none"]
      BY <1>1, <2>2
    <2> QED BY <2>1, <2>2 DEF ToolAnswers
  <1>6. /\ new \in RunType /\ new.at \in {"invoking", "call"} /\ new.calls = run.calls
        /\ new.at = "invoking" => new.turn = run.turn + 1
        /\ new.at = "call" => new.turn = run.turn
        /\ Allowed(new)
    <2>1. run.turn < MaxTurns /\ run.turn + 1 \in 1..MaxTurns
      BY <1>2, Bounds DEF Allowed, RunType
    <2>2. CASE new = [run EXCEPT !.at = "invoking", !.decision = "none", !.turn = @ + 1]
      BY <1>2, <2>1, <2>2 DEF RunType, Ats, Decisions, Allowed
    <2>3. CASE run.calls < MaxCalls /\ new = [run EXCEPT !.at = "call", !.decision = "none"]
      BY <1>2, <2>1, <2>3 DEF RunType, Ats, Decisions, Allowed
    <2> QED BY <1>5, <2>2, <2>3
  <1>7. ~Has(emitted[r], e) /\ Sent(r, Append(emitted[r], e), new)
    BY <1>2, <1>3, <1>6, SentEnd
  <1> QED BY <1>1, <1>2, <1>3, <1>4, <1>5, <1>6, <1>7 DEF Moves, Sends

-----------------------------------------------------------------------------
(* What a step leaves alone *)

View == <<log, external, ctl, inputs, current, busy, screen>>

LEMMA ViewKept ==
    ASSUME Taken, Shows, UNCHANGED View
    PROVE  Taken' /\ Shows'
  <1>1. /\ log' = log /\ external' = external /\ ctl' = ctl /\ inputs' = inputs
        /\ current' = current /\ busy' = busy /\ screen' = screen
    BY DEF View
  <1>2. Passed' = Passed
    BY <1>1 DEF Passed, Coming
  <1>3. RunOrder(Passed)'
    BY <1>2 DEF Taken, RunOrder
  <1>4. TakenRuns'
    BY <1>1, <1>2 DEF Taken, TakenRuns
  <1>5. Submits'
    BY <1>1 DEF Taken, Submits
  <1>6. Pending'
    BY <1>1 DEF Shows, Pending, PendingRow, Shifted, CutOff, Never, Coming
  <1>7. CallRows'
    BY <1>1 DEF Shows, CallRows
  <1>8. Misplaced'
    BY <1>1 DEF Shows, Misplaced, Shifted, CutOff, Never, Coming
  <1>9. Received'
    BY <1>1 DEF Shows, Received
  <1>10. TextsShown'
    BY <1>1 DEF Shows, TextsShown
  <1>11. AnswerShown'
    BY <1>1 DEF Shows, AnswerShown, Never, Coming
  <1> QED BY <1>3, <1>4, <1>5, <1>6, <1>7, <1>8, <1>9, <1>10, <1>11 DEF Taken, Shows

LEMMA RunsKept ==
    ASSUME RunsTyped, UNCHANGED <<approval, runs>>
    PROVE  RunsTyped'
  BY DEF RunsTyped

LEMMA ServerKept ==
    ASSUME ServerTyped, UNCHANGED <<events, stream, emitted>>
    PROVE  ServerTyped'
  BY DEF ServerTyped

LEMMA ClientKept ==
    ASSUME ClientTyped, UNCHANGED <<ctl, inputs, current, busy>>
    PROVE  ClientTyped'
  BY DEF ClientTyped

LEMMA ScreenKept ==
    ASSUME ScreenTyped, UNCHANGED <<external, log, screen, quit>>, faults' \in 0..MaxFaults
    PROVE  ScreenTyped'
  BY DEF ScreenTyped

\* A fault is counted.
LEMMA FaultCounted ==
    ASSUME ScreenTyped, Fault \/ UNCHANGED faults
    PROVE  faults' \in 0..MaxFaults
  BY Bounds DEF ScreenTyped, Fault

LEMMA EventsAreEntries ==
    /\ Event \subseteq Entry /\ (Event \cup Result) \subseteq Entry
    /\ \A e \in Event : IsEvent(e)
    /\ \A e \in Result : e.kind = "result" /\ ~IsEvent(e)
    /\ \A e \in Event \cup Result : e.kind # "result" => e \in Event
    /\ \A e \in Entry : IsEvent(e) => e \in Event
  BY Bounds DEF Event, Result, Entry, IsEvent

\* The sequences of the invariant are sequences of entries.
LEMMA PathTyped ==
    ASSUME Typed
    PROVE  /\ log \in Seq(Entry) /\ external \in Seq(Entry) /\ ctl \in Seq(Entry)
           /\ Coming \in Seq(Entry) /\ Passed \in Seq(Entry)
           /\ \A r \in Runs : /\ stream[r] \in Seq(Entry) /\ events[r] \in Seq(Entry)
                              /\ stream[r] \o events[r] \in Seq(Entry)
                              /\ Path(r) \in Seq(Entry)
  <1>1. log \in Seq(Entry) /\ external \in Seq(Entry) /\ ctl \in Seq(Entry)
    BY EventsAreEntries, SeqMonotonic DEF Typed, ScreenTyped, ClientTyped
  <1>2. Coming \in Seq(Entry)
    BY <1>1, SeqConcat DEF Coming
  <1>3. Passed \in Seq(Entry)
    BY <1>1, <1>2, SeqConcat DEF Passed
  <1>4. ASSUME NEW r \in Runs
        PROVE  /\ stream[r] \in Seq(Entry) /\ events[r] \in Seq(Entry)
               /\ stream[r] \o events[r] \in Seq(Entry)
               /\ Path(r) \in Seq(Entry)
    <2>1. stream[r] \in Seq(Event \cup Result) /\ events[r] \in Seq(Event)
      BY DEF Typed, ServerTyped
    <2>2. stream[r] \in Seq(Entry) /\ events[r] \in Seq(Entry)
      BY <2>1, EventsAreEntries, SeqMonotonic
    <2>3. stream[r] \o events[r] \in Seq(Entry)
      BY <2>2, SeqConcat
    <2> QED BY <1>3, <2>2, <2>3, SeqConcat DEF Path
  <1> QED BY <1>1, <1>2, <1>3, <1>4

LEMMA ConcatAppend ==
    ASSUME NEW S, NEW a \in Seq(S), NEW b \in Seq(S), NEW x \in S
    PROVE  a \o Append(b, x) = Append(a \o b, x)
  <1>1. PICK c : c = <<x>>
    OBVIOUS
  <1>2. c \in Seq(S) /\ a \o b \in Seq(S)
    BY <1>1, SeqConcat
  <1>3. Append(b, x) = b \o c /\ Append(a \o b, x) = (a \o b) \o c
    BY <1>1, <1>2, AppendIsConcat
  <1>4. (a \o b) \o c = a \o (b \o c)
    BY <1>2, ConcatAssociative
  <1> QED BY <1>3, <1>4

\* Three sequences in a row, and what is appended to the last of them.
Assoc(p, q, w) == (p \o q) \o w = p \o (q \o w)
Appends(p, q, w, x) == p \o (q \o Append(w, x)) = Append(p \o (q \o w), x)

LEMMA EntriesInARow ==
    ASSUME NEW p \in Seq(Entry), NEW q \in Seq(Entry), NEW w \in Seq(Entry)
    PROVE  Assoc(p, q, w)
  BY ConcatAssociative DEF Assoc

LEMMA EntriesAppend ==
    ASSUME NEW p \in Seq(Entry), NEW q \in Seq(Entry), NEW w \in Seq(Entry), NEW x \in Entry
    PROVE  Appends(p, q, w, x)
  <1>1. PICK u \in Seq(Entry) : u = q \o w
    BY SeqConcat
  <1>2. q \o Append(w, x) = Append(u, x)
    BY <1>1, ConcatAppend
  <1>3. p \o Append(u, x) = Append(p \o u, x)
    BY <1>1, ConcatAppend
  <1> QED BY <1>1, <1>2, <1>3 DEF Appends

LEMMA MovesTyped ==
    ASSUME Typed, NEW r \in Runs, Moves(r), UNCHANGED <<approval, stream, View, quit>>,
           Fault \/ UNCHANGED faults
    PROVE  Typed'
  <1>1. PICK new \in RunType : Allowed(new) /\ runs' = [runs EXCEPT ![r] = new] /\ Sends(r, new)
    BY DEF Moves
  <1>2. RunsTyped'
    <2>1. runs' \in [Runs -> RunType]
      BY <1>1 DEF Typed, RunsTyped
    <2>2. ASSUME NEW s \in Runs PROVE Allowed(runs'[s])
      <3>1. runs'[s] = IF s = r THEN new ELSE runs[s]
        BY <1>1 DEF Typed, RunsTyped
      <3> QED BY <1>1, <3>1 DEF Typed, RunsTyped
    <2> QED BY <2>1, <2>2 DEF Typed, RunsTyped, Allowed
  <1>3. ServerTyped'
    <2>1. CASE Silent
      BY <2>1, ServerKept DEF Typed, Silent
    <2>2. ASSUME NEW e \in Event, Emit(r, e) PROVE ServerTyped'
      <3>1. PICK c \in Seq(Event) : c = events[r] /\ Len(c) <= Capacity
        BY DEF Typed, ServerTyped
      <3>2. PICK d \in Seq(Event) : d = emitted[r]
        BY DEF Typed, ServerTyped
      <3>3. /\ events' = [events EXCEPT ![r] = Append(c, e)]
            /\ emitted' = [emitted EXCEPT ![r] = Append(d, e)]
        BY <2>2, <3>1, <3>2 DEF Emit
      <3>4. Append(c, e) \in Seq(Event) /\ Append(d, e) \in Seq(Event) /\ Len(Append(c, e)) = Len(c) + 1
        BY SeqAppend
      <3>5. Len(c) < Capacity /\ Len(c) \in Nat
        BY <2>2, <3>1, SeqElement DEF Emit, Room
      <3>6. Len(Append(c, e)) <= Capacity
        BY <3>4, <3>5, Bounds
      <3>7. emitted' \in [Runs -> Seq(Event)] /\ events' \in [Runs -> Seq(Event)]
        BY <3>3, <3>4 DEF Typed, ServerTyped
      <3>8. ASSUME NEW s \in Runs PROVE Len(events'[s]) <= Capacity /\ Len(stream'[s]) <= Capacity
        <4>1. events'[s] = IF s = r THEN Append(c, e) ELSE events[s]
          BY <3>3 DEF Typed, ServerTyped
        <4> QED BY <3>6, <4>1 DEF Typed, ServerTyped
      <3> QED BY <3>7, <3>8 DEF Typed, ServerTyped
    <2> QED BY <1>1, <2>1, <2>2 DEF Sends
  <1>4. ClientTyped'
    BY ClientKept DEF Typed, View
  <1>5. ScreenTyped'
    BY ScreenKept, FaultCounted DEF Typed, View
  <1> QED BY <1>2, <1>3, <1>4, <1>5 DEF Typed

LEMMA MovesServing ==
    ASSUME Serving, NEW r \in Runs, Moves(r), UNCHANGED <<approval, stream, View, quit>>,
           Fault \/ UNCHANGED faults
    PROVE  Serving'
  <1>1. PICK new \in RunType : runs' = [runs EXCEPT ![r] = new] /\ Sends(r, new)
    BY DEF Moves
  <1>2. Typed'
    BY MovesTyped DEF Serving
  <1>3. /\ log' = log /\ external' = external /\ ctl' = ctl /\ current' = current /\ busy' = busy
        /\ quit' = quit /\ stream' = stream /\ Passed' = Passed
    BY DEF View, Passed, Coming
  <1>4. ~(r > current)
    BY DEF Serving, Owned, Idle, Moves
  <1>5. /\ Passed \in Seq(Entry) /\ emitted \in [Runs -> Seq(Event)]
        /\ events \in [Runs -> Seq(Event)] /\ runs \in [Runs -> RunType]
        /\ stream[r] \in Seq(Entry) /\ events[r] \in Seq(Entry) /\ Path(r) \in Seq(Entry)
    BY PathTyped DEF Serving, Typed, ServerTyped, RunsTyped
  <1>6. \A s \in Runs : runs'[s] = IF s = r THEN new ELSE runs[s]
    BY <1>1, <1>5
  <1>7. CASE Silent /\ Sent(r, emitted[r], new)
    <2>1. events' = events /\ emitted' = emitted
      BY <1>7 DEF Silent
    <2>2. Owned'
      <3> SUFFICES ASSUME NEW s \in Runs
                   PROVE  /\ s > current => Idle(s)'
                          /\ \A k \in DOMAIN events[s] : events[s][k].run = s
                          /\ \A k \in DOMAIN stream[s] : stream[s][k].run = s
        BY <1>3, <2>1 DEF Owned
      <3>1. s > current => Idle(s)'
        BY <1>3, <1>4, <1>6, <2>1 DEF Serving, Owned, Idle
      <3> QED BY <3>1 DEF Serving, Owned
    <2>3. Emission'
      BY <1>6, <1>7, <2>1 DEF Serving, Emission
    <2>4. Flow'
      BY <1>3, <2>1 DEF Serving, Flow, Path, Watched
    <2> QED BY <1>2, <2>2, <2>3, <2>4 DEF Serving
  <1>8. ASSUME NEW e \in Event, Emit(r, e), e.run = r, ~Has(emitted[r], e),
               Sent(r, Append(emitted[r], e), new)
        PROVE  Serving'
    <2>1. /\ emitted' = [emitted EXCEPT ![r] = Append(@, e)]
          /\ events' = [events EXCEPT ![r] = Append(@, e)]
      BY <1>8 DEF Emit
    <2>2. \A s \in Runs : /\ emitted'[s] = IF s = r THEN Append(emitted[r], e) ELSE emitted[s]
                          /\ events'[s] = IF s = r THEN Append(events[r], e) ELSE events[s]
      BY <1>5, <2>1
    <2>3. PICK c \in Seq(Event) : c = events[r]
      BY <1>5
    <2>4. /\ DOMAIN Append(c, e) = 1..(Len(c) + 1) /\ DOMAIN c = 1..Len(c) /\ Len(c) \in Nat
          /\ \A k \in DOMAIN c : Append(c, e)[k] = c[k]
          /\ Append(c, e)[Len(c) + 1] = e
      BY SeqAppend, SeqElement
    <2>5. Owned'
      <3> SUFFICES ASSUME NEW s \in Runs
                   PROVE  /\ s > current => Idle(s)'
                          /\ \A k \in DOMAIN events'[s] : events'[s][k].run = s
                          /\ \A k \in DOMAIN stream[s] : stream[s][k].run = s
        BY <1>3 DEF Owned
      <3>1. s > current => Idle(s)'
        BY <1>3, <1>4, <1>6, <2>2 DEF Serving, Owned, Idle
      <3>2. \A k \in DOMAIN events'[s] : events'[s][k].run = s
        <4>1. CASE s # r
          BY <2>2, <4>1 DEF Serving, Owned
        <4>2. CASE s = r
          <5>1. events'[s] = Append(c, e)
            BY <2>2, <2>3, <4>2
          <5>2. \A k \in DOMAIN c : c[k].run = r
            BY <2>3 DEF Serving, Owned
          <5>3. ASSUME NEW k \in 1..(Len(c) + 1) PROVE Append(c, e)[k].run = r
            BY <1>8, <2>4, <5>2
          <5> QED BY <2>4, <4>2, <5>1, <5>3
        <4> QED BY <4>1, <4>2
      <3> QED BY <3>1, <3>2 DEF Serving, Owned
    <2>6. Emission'
      <3>1. ASSUME NEW s \in Runs PROVE Sent(s, emitted'[s], runs'[s])
        BY <1>6, <1>8, <2>2 DEF Serving, Emission
      <3> QED BY <3>1 DEF Emission
    <2>7. InOrder(Passed, emitted')
      BY <1>5, <2>1, MoreSent DEF Serving, Flow
    <2>8. ASSUME NEW s \in Runs, Watched(s)
          PROVE  InOrder(Path(s)', emitted') /\ \A i \in DOMAIN emitted'[s] : Has(Path(s)', emitted'[s][i])
      <3>1. InOrder(Path(s), emitted) /\ \A i \in DOMAIN emitted[s] : Has(Path(s), emitted[s][i])
        BY <2>8 DEF Serving, Flow
      <3>2. CASE s # r
        <4>1. Path(s)' = Path(s) /\ emitted'[s] = emitted[s]
          BY <1>3, <2>2, <3>2 DEF Path
        <4>2. Path(s) \in Seq(Entry)
          BY PathTyped DEF Serving
        <4>3. InOrder(Path(s), emitted')
          BY <1>5, <2>1, <3>1, <4>2, MoreSent
        <4> QED BY <3>1, <4>1, <4>3
      <3>3. CASE s = r
        <4>1. e \in Entry
          BY EventsAreEntries
        <4>2. Path(r)' = Append(Path(r), e)
          <5>1. Path(r)' = Passed \o (stream[r] \o Append(events[r], e))
            BY <1>3, <2>2 DEF Path
          <5>2. Passed \o (stream[r] \o Append(events[r], e))
                  = Append(Passed \o (stream[r] \o events[r]), e)
            <6>1. Passed \in Seq(Entry) /\ stream[r] \in Seq(Entry) /\ events[r] \in Seq(Entry)
              BY <1>5, <4>1
            <6>2. Appends(Passed, stream[r], events[r], e)
              BY <1>5, <4>1, <6>1, EntriesAppend
            <6> QED BY <6>2 DEF Appends
          <5>3. Path(r) = Passed \o (stream[r] \o events[r])
            BY DEF Path
          <5> QED BY <5>1, <5>2, <5>3
        <4>3. InOrder(Append(Path(r), e), emitted')
          BY <1>5, <1>8, <2>1, <3>1, <3>3, <4>1, NextInOrder
        <4>4. PICK d \in Seq(Event) : d = emitted[r]
          BY <1>5
        <4>5. ASSUME NEW i \in DOMAIN Append(d, e) PROVE Has(Append(Path(r), e), Append(d, e)[i])
          <5>1. (i \in DOMAIN d /\ Append(d, e)[i] = d[i]) \/ Append(d, e)[i] = e
            BY SeqAppend, SeqElement
          <5>2. CASE i \in DOMAIN d /\ Append(d, e)[i] = d[i]
            <6>1. Has(Path(r), d[i])
              BY <3>1, <3>3, <4>4, <5>2
            <6> QED BY <1>5, <4>1, <5>2, <6>1, AppendHas
          <5>3. CASE Append(d, e)[i] = e
            BY <1>5, <4>1, <5>3, AppendHas
          <5> QED BY <5>1, <5>2, <5>3
        <4> QED BY <2>2, <3>3, <4>2, <4>3, <4>4, <4>5
      <3> QED BY <3>2, <3>3
    <2>9. Flow'
      BY <1>3, <2>7, <2>8 DEF Flow, Watched
    <2> QED BY <1>2, <2>5, <2>6, <2>9 DEF Serving
  <1> QED BY <1>1, <1>7, <1>8 DEF Sends

-----------------------------------------------------------------------------
(* Steps of the service *)

LEMMA SendTyped ==
    ASSUME ServerTyped, NEW r \in Runs, NEW m \in Event \cup Result, SendTo(r, m)
    PROVE  /\ stream' \in [Runs -> Seq(Event \cup Result)]
           /\ \A s \in Runs : /\ Len(stream'[s]) <= Capacity
                              /\ stream'[s] = IF s = r /\ Watched(r) THEN Append(stream[r], m)
                                              ELSE stream[s]
  <1>1. CASE Watched(r)
    <2>1. PICK q \in Seq(Event \cup Result) : q = stream[r]
      BY DEF ServerTyped
    <2>2. Len(q) < Capacity /\ stream' = [stream EXCEPT ![r] = Append(q, m)]
      BY <1>1, <2>1 DEF SendTo
    <2>3. Append(q, m) \in Seq(Event \cup Result) /\ Len(Append(q, m)) = Len(q) + 1 /\ Len(q) \in Nat
      BY SeqAppend, SeqElement
    <2>4. Len(Append(q, m)) <= Capacity
      BY <2>2, <2>3, Bounds
    <2>5. \A s \in Runs : stream'[s] = IF s = r THEN Append(q, m) ELSE stream[s]
      BY <2>2 DEF ServerTyped
    <2>6. stream' \in [Runs -> Seq(Event \cup Result)]
      BY <2>2, <2>3 DEF ServerTyped
    <2> QED BY <1>1, <2>1, <2>4, <2>5, <2>6 DEF ServerTyped
  <1>2. CASE ~Watched(r)
    BY <1>2 DEF SendTo, ServerTyped
  <1> QED BY <1>1, <1>2

LEMMA SendOwned ==
    ASSUME ServerTyped, Owned, NEW r \in Runs, NEW m \in Event \cup Result, SendTo(r, m), m.run = r
    PROVE  \A s \in Runs : \A k \in DOMAIN stream'[s] : stream'[s][k].run = s
  <1> SUFFICES ASSUME NEW s \in Runs, NEW k \in DOMAIN stream'[s] PROVE stream'[s][k].run = s
    OBVIOUS
  <1>1. stream'[s] = IF s = r /\ Watched(r) THEN Append(stream[r], m) ELSE stream[s]
    BY SendTyped
  <1>2. PICK q \in Seq(Event \cup Result) : q = stream[r]
    BY DEF ServerTyped
  <1>3. CASE s = r /\ Watched(r)
    <2>1. (k \in DOMAIN q /\ Append(q, m)[k] = q[k]) \/ Append(q, m)[k] = m
      BY <1>1, <1>2, <1>3, SeqAppend, SeqElement
    <2> QED BY <1>1, <1>2, <1>3, <2>1 DEF Owned
  <1>4. CASE ~(s = r /\ Watched(r))
    BY <1>1, <1>4 DEF Owned
  <1> QED BY <1>3, <1>4

LEMMA PumpServing ==
    ASSUME Serving, NEW r \in Runs, Pump(r)
    PROVE  Serving'
  <1>1. PICK c \in Seq(Event) : c = events[r] /\ c # <<>>
    BY DEF Pump, Serving, Typed, ServerTyped
  <1>2. PICK m \in Event : m = Head(c)
    BY <1>1, SeqTail
  <1>3. SendTo(r, m) /\ events' = [events EXCEPT ![r] = Tail(c)]
    BY <1>1, <1>2 DEF Pump
  <1>4. /\ log' = log /\ external' = external /\ ctl' = ctl /\ current' = current /\ busy' = busy
        /\ quit' = quit /\ emitted' = emitted /\ runs' = runs /\ approval' = approval
        /\ Passed' = Passed /\ inputs' = inputs /\ screen' = screen /\ faults' = faults
    BY DEF Pump, clientVars, screenVars, Passed, Coming
  <1>5. Tail(c) \in Seq(Event) /\ Len(Tail(c)) = Len(c) - 1 /\ Len(c) \in Nat /\ m = c[1]
        /\ 1 \in DOMAIN c /\ DOMAIN Tail(c) = 1..(Len(c) - 1) /\ DOMAIN c = 1..Len(c)
        /\ \A i \in DOMAIN Tail(c) : Tail(c)[i] = c[i + 1]
    BY <1>1, <1>2, SeqTail, SeqElement
  <1>6. /\ stream' \in [Runs -> Seq(Event \cup Result)]
        /\ \A s \in Runs : /\ Len(stream'[s]) <= Capacity
                           /\ stream'[s] = IF s = r /\ Watched(r) THEN Append(stream[r], m)
                                           ELSE stream[s]
    BY <1>3, SendTyped DEF Serving, Typed
  <1>7. \A s \in Runs : events'[s] = IF s = r THEN Tail(c) ELSE events[s]
    BY <1>3 DEF Serving, Typed, ServerTyped
  <1>8. Typed'
    <2>1. events' \in [Runs -> Seq(Event)]
      BY <1>3, <1>5 DEF Serving, Typed, ServerTyped
    <2>2. Len(Tail(c)) <= Capacity
      <3>1. Len(c) <= Capacity
        BY <1>1 DEF Serving, Typed, ServerTyped
      <3> QED BY <3>1, <1>5, Bounds
    <2>3. ServerTyped'
      BY <1>4, <1>6, <1>7, <2>1, <2>2 DEF Serving, Typed, ServerTyped
    <2>4. RunsTyped' /\ ClientTyped'
      BY <1>4, RunsKept, ClientKept DEF Serving, Typed
    <2>5. ScreenTyped'
      BY <1>4 DEF Serving, Typed, ScreenTyped
    <2> QED BY <2>3, <2>4, <2>5 DEF Typed
  <1>9. r <= current
    <2>1. ~(r > current)
      BY <1>1 DEF Serving, Owned, Idle
    <2>2. r \in Nat /\ current \in Nat
      BY Bounds DEF Runs, Serving, Typed, ClientTyped
    <2> QED BY <2>1, <2>2
  <1>10. \A k \in DOMAIN c : c[k].run = r
    BY <1>1 DEF Serving, Owned
  <1>11. m.run = r
    BY <1>5, <1>10
  <1>12. Owned'
    <2>1. \A s \in Runs : \A k \in DOMAIN stream'[s] : stream'[s][k].run = s
      BY <1>3, <1>11, SendOwned DEF Serving, Typed
    <2>2. ASSUME NEW s \in Runs, NEW k \in DOMAIN events'[s] PROVE events'[s][k].run = s
      <3>1. CASE s = r
        <4>1. events'[s] = Tail(c) /\ k \in 1..(Len(c) - 1)
          BY <1>5, <1>7, <2>2, <3>1
        <4>2. Tail(c)[k] = c[k + 1] /\ k + 1 \in DOMAIN c
          BY <1>5, <4>1
        <4> QED BY <1>10, <3>1, <4>1, <4>2
      <3>2. CASE s # r
        BY <1>7, <2>2, <3>2 DEF Serving, Owned
      <3> QED BY <3>1, <3>2
    <2>3. ASSUME NEW s \in Runs, s > current PROVE Idle(s)'
      <3>1. s # r
        BY <1>9, <2>3 DEF Runs, Serving, Typed, ClientTyped
      <3>2. Idle(s)
        BY <2>3 DEF Serving, Owned
      <3> QED BY <1>4, <1>6, <1>7, <3>1, <3>2 DEF Idle
    <2> QED BY <1>4, <2>1, <2>2, <2>3 DEF Owned
  <1>13. Emission'
    BY <1>4 DEF Serving, Emission
  <1>14. ASSUME NEW s \in Runs, Watched(s) PROVE Path(s)' = Path(s)
    <2>1. CASE s # r
      BY <1>4, <1>6, <1>7, <2>1 DEF Path
    <2>2. CASE s = r
      <3>1. stream[r] \in Seq(Entry) /\ c \in Seq(Entry)
        BY <1>1, PathTyped DEF Serving
      <3>2. Append(stream[r], m) \o Tail(c) = stream[r] \o c
        BY <1>1, <1>2, <3>1, MoveHead
      <3> QED BY <1>1, <1>4, <1>6, <1>7, <2>2, <3>2, <1>14 DEF Path
    <2> QED BY <2>1, <2>2
  <1>15. Flow'
    BY <1>4, <1>14 DEF Serving, Flow, Watched
  <1> QED BY <1>8, <1>12, <1>13, <1>15 DEF Serving

LEMMA EndServing ==
    ASSUME Serving, NEW r \in Runs, End(r)
    PROVE  Serving'
  <1>1. PICK run : run = runs[r]
    OBVIOUS
  <1>2. /\ run \in RunType /\ run.at \in {"result", "error"} /\ run.turn \in 1..MaxTurns
        /\ Sent(r, emitted[r], run) /\ emitted[r] \in Seq(Event)
    BY <1>1, RunFacts DEF End, Serving, RunType
  <1>3. PICK n \in 0..MaxTurns : n = IF run.at = "result" THEN run.turn ELSE 0
    BY <1>2, Bounds
  <1>4. PICK m : m = Ev("result", r, n)
    OBVIOUS
  <1>5. m \in Result /\ m.run = r /\ m \in Event \cup Result /\ m \in Entry /\ ~IsEvent(m)
    BY <1>4, EventsAreEntries DEF Ev, Result
  <1>6. SendTo(r, m)
    BY <1>1, <1>3, <1>4 DEF End
  <1>7. /\ log' = log /\ external' = external /\ ctl' = ctl /\ current' = current /\ busy' = busy
        /\ quit' = quit /\ emitted' = emitted /\ events' = events /\ approval' = approval
        /\ Passed' = Passed /\ inputs' = inputs /\ screen' = screen /\ faults' = faults
    BY DEF End, clientVars, screenVars, Passed, Coming
  <1>8. PICK new : new = [run EXCEPT !.at = "over"]
    OBVIOUS
  <1>9. /\ new \in RunType /\ Allowed(new) /\ new.at = "over" /\ new.turn = run.turn
        /\ new.calls = run.calls
    BY <1>2, <1>8 DEF RunType, Ats, Allowed
  <1>10. runs' = [runs EXCEPT ![r] = new]
    BY <1>1, <1>8 DEF End, Become
  <1>11. \A s \in Runs : runs'[s] = IF s = r THEN new ELSE runs[s]
    BY <1>10 DEF Serving, Typed, RunsTyped
  <1>12. /\ stream' \in [Runs -> Seq(Event \cup Result)]
         /\ \A s \in Runs : /\ Len(stream'[s]) <= Capacity
                            /\ stream'[s] = IF s = r /\ Watched(r) THEN Append(stream[r], m)
                                            ELSE stream[s]
    BY <1>5, <1>6, SendTyped DEF Serving, Typed
  <1>13. Typed'
    <2>1. runs' \in [Runs -> RunType]
      BY <1>9, <1>10 DEF Serving, Typed, RunsTyped
    <2>2. \A s \in Runs : Allowed(runs'[s])
      BY <1>9, <1>11 DEF Serving, Typed, RunsTyped
    <2>3. RunsTyped'
      BY <1>7, <2>1, <2>2 DEF Serving, Typed, RunsTyped, Allowed
    <2>4. ServerTyped'
      BY <1>7, <1>12 DEF Serving, Typed, ServerTyped
    <2>5. ClientTyped'
      BY <1>7, ClientKept DEF Serving, Typed
    <2>6. ScreenTyped'
      BY <1>7 DEF Serving, Typed, ScreenTyped
    <2> QED BY <2>3, <2>4, <2>5, <2>6 DEF Typed
  <1>14. ~(r > current)
    BY <1>1, <1>2 DEF Serving, Owned, Idle
  <1>15. Owned'
    <2>1. \A s \in Runs : \A k \in DOMAIN stream'[s] : stream'[s][k].run = s
      BY <1>5, <1>6, SendOwned DEF Serving, Typed
    <2>2. ASSUME NEW s \in Runs, s > current PROVE Idle(s)'
      <3>1. s # r
        BY <1>14, <2>2
      <3>2. Idle(s)
        BY <2>2 DEF Serving, Owned
      <3> QED BY <1>7, <1>11, <1>12, <3>1, <3>2 DEF Idle
    <2> QED BY <1>7, <2>1, <2>2 DEF Serving, Owned
  <1>16. Emission'
    <2>1. Sent(r, emitted[r], new)
      BY <1>2, <1>9, SentSilent
    <2> QED BY <1>7, <1>11, <2>1 DEF Serving, Emission
  <1>17. ASSUME NEW s \in Runs, Watched(s)
         PROVE  InOrder(Path(s)', emitted) /\ \A i \in DOMAIN emitted[s] : Has(Path(s)', emitted[s][i])
    <2>1. InOrder(Path(s), emitted) /\ \A i \in DOMAIN emitted[s] : Has(Path(s), emitted[s][i])
      BY <1>17 DEF Serving, Flow
    <2>2. CASE s # r
      <3>1. Path(s)' = Path(s)
        BY <1>7, <1>12, <2>2 DEF Path
      <3> QED BY <2>1, <3>1
    <2>3. CASE s = r
      <3>1. PICK w : w = Passed \o (Append(stream[r], m) \o events[r])
        OBVIOUS
      <3>2. PICK q : q = Passed \o (stream[r] \o events[r])
        OBVIOUS
      <3>3. Path(r)' = w /\ Path(r) = q
        BY <1>7, <1>12, <1>17, <2>3, <3>1, <3>2 DEF Path
      <3>4. PICK p : Inserted(w, q, p, m)
        <4>1. \A a, b, c \in Seq(Entry) : \A x \in Entry :
                 Inserted(a \o (Append(b, x) \o c), a \o (b \o c), Len(a) + Len(b), x)
          BY InsertMiddle
        <4>2. Passed \in Seq(Entry) /\ stream[r] \in Seq(Entry) /\ events[r] \in Seq(Entry)
          BY PathTyped DEF Serving
        <4> QED BY <1>5, <3>1, <3>2, <4>1, <4>2
      <3>5. InOrder(q, emitted) /\ \A i \in DOMAIN emitted[r] : Has(q, emitted[r][i])
        BY <2>1, <2>3, <3>3
      <3>6. InOrder(w, emitted)
        BY <1>5, <3>4, <3>5, InsertInOrder
      <3>7. \A i \in DOMAIN emitted[r] : Has(w, emitted[r][i])
        BY <3>4, <3>5, InsertedHas
      <3> QED BY <2>3, <3>3, <3>6, <3>7
    <2> QED BY <2>2, <2>3
  <1>18. Flow'
    BY <1>7, <1>17 DEF Serving, Flow, Watched
  <1> QED BY <1>13, <1>15, <1>16, <1>18 DEF Serving

-----------------------------------------------------------------------------
(* Steps of the client: the log and the screen stay as they are *)

LEMMA NeverHas ==
    ASSUME NEW e
    PROVE  Never(e) <=> ~(busy /\ current = e.run) /\ ~Has(Passed, e)
  BY DEF Never, Passed, Has, ToSet

LEMMA RowTyped ==
    ASSUME Typed, NEW i \in DOMAIN screen.rows
    PROVE  /\ screen.rows[i] \in Rows /\ screen.rows[i].run \in Runs
           /\ Ev("end", screen.rows[i].run, screen.rows[i].n) \in Event
           /\ Ev("end", screen.rows[i].run, screen.rows[i].n).run = screen.rows[i].run
  <1>1. screen.rows \in Seq(Rows)
    BY DEF Typed, ScreenTyped
  <1>2. screen.rows[i] \in Rows
    BY <1>1, SeqElement
  <1> QED BY <1>2, EvEvent DEF Rows

LEMMA ClientShows ==
    ASSUME Typed, Taken, Shows, UNCHANGED <<log, screen>>,
           current <= current', current' \in Nat,
           \A e \in Event : e.run <= current /\ Never(e) => Never(e)',
           \A e \in Event : Has(Coming, e) => Has(Coming', e)
    PROVE  Shows'
  <1>1. log' = log /\ screen' = screen
    OBVIOUS
  <1>2. ASSUME NEW i \in DOMAIN screen.rows, CutOff(i) PROVE CutOff(i)'
    <2>1. PICK e \in Event : /\ e = Ev("end", screen.rows[i].run, screen.rows[i].n)
                             /\ e.run = screen.rows[i].run
      BY RowTyped
    <2>2. screen.rows[i].what = "call" /\ e.run <= current /\ Never(e)
      BY <1>2, <2>1 DEF CutOff, Shows, CallRows
    <2>3. Never(e)'
      BY <2>2
    <2> QED BY <1>1, <2>1, <2>2, <2>3 DEF CutOff
  <1>3. ASSUME NEW i \in DOMAIN screen.rows, Shifted(i) PROVE Shifted(i)'
    <2>1. PICK h \in 1..i : CutOff(h) /\ \A k \in h..i : screen.rows[k].what # "user"
      BY <1>3 DEF Shifted
    <2>2. h \in DOMAIN screen.rows
      BY SeqElement DEF Typed, ScreenTyped
    <2>3. CutOff(h)'
      BY <1>2, <2>1, <2>2
    <2> QED BY <1>1, <2>1, <2>3 DEF Shifted
  <1>4. Pending'
    <2>1. ASSUME NEW p \in DOMAIN screen.pending PROVE PendingRow(screen.pending[p])'
      <3>1. PICK i : i = screen.pending[p] /\ i \in DOMAIN screen.rows
        BY DEF Typed, ScreenTyped
      <3>2. PendingRow(i)
        BY <3>1 DEF Shows, Pending
      <3>3. PendingRow(i)'
        BY <1>1, <1>3, <3>1, <3>2 DEF PendingRow
      <3> QED BY <1>1, <3>1, <3>3
    <2> QED BY <1>1, <2>1 DEF Shows, Pending
  <1>5. CallRows'
    <2>1. ASSUME NEW i \in DOMAIN screen.rows, screen.rows[i].what = "call"
          PROVE  screen.rows[i].run <= current'
      <3>1. screen.rows[i].run <= current /\ screen.rows[i].run \in Nat /\ current \in Nat
        BY <2>1, RowTyped, Bounds DEF Shows, CallRows, Runs, Typed, ClientTyped
      <3> QED BY <3>1
    <2> QED BY <1>1, <2>1 DEF CallRows
  <1>6. Misplaced'
    BY <1>1, <1>3 DEF Shows, Misplaced
  <1>7. Received' /\ TextsShown'
    BY <1>1 DEF Shows, Received, TextsShown
  <1>8. AnswerShown'
    <2> SUFFICES ASSUME NEW k \in DOMAIN log, log[k].kind = "result"
                 PROVE  LET answer == Ev("text", log[k].run, log[k].n) IN
                        \/ Text(answer) \in ToSet(screen.rows)
                        \/ answer \in ToSet(Coming')
                        \/ /\ Never(answer)'
                           /\ \E j \in 1..(k - 1) : /\ log[j].kind = "text"
                                                    /\ \A i \in j..k : log[i].kind # "submit"
      BY <1>1 DEF AnswerShown
    <2>1. PICK answer : answer = Ev("text", log[k].run, log[k].n)
      OBVIOUS
    <2>2. log[k] \in Entry
      BY SeqElement DEF Typed, ScreenTyped
    <2>3. answer \in Event /\ answer.run = log[k].run
      BY <2>1, <2>2, EvEvent DEF Entry
    <2>4. \/ Text(answer) \in ToSet(screen.rows)
          \/ answer \in ToSet(Coming)
          \/ /\ Never(answer)
             /\ \E j \in 1..(k - 1) : /\ log[j].kind = "text"
                                      /\ \A i \in j..k : log[i].kind # "submit"
      BY <2>1 DEF Shows, AnswerShown
    <2>5. answer.run <= current
      <3>1. k \in DOMAIN Passed /\ Passed[k] = log[k]
        BY PathTyped, SeqConcat, SeqElement DEF Passed
      <3> QED BY <2>3, <3>1 DEF Taken, TakenRuns
    <2>6. Never(answer) => Never(answer)'
      BY <2>3, <2>5
    <2>7. answer \in ToSet(Coming) => answer \in ToSet(Coming')
      BY <2>3 DEF Has, ToSet
    <2> QED BY <2>1, <2>4, <2>6, <2>7
  <1> QED BY <1>4, <1>5, <1>6, <1>7, <1>8 DEF Shows

LEMMA ClientNats ==
    ASSUME Typed
    PROVE  /\ current \in Nat /\ inputs \in Nat /\ current <= inputs /\ inputs <= MaxInputs
           /\ busy \in BOOLEAN /\ (busy => current \in Runs)
           /\ \A r \in Runs : r \in Nat
  BY Bounds DEF Typed, ClientTyped, Runs

LEMMA TakeKeeps ==
    ASSUME IInv, Take
    PROVE  IInv'
  <1>1. PICK c : c = current + 1
    OBVIOUS
  <1>2. /\ c \in Runs /\ c <= inputs /\ current \in Nat /\ c > current /\ inputs \in 0..MaxInputs
        /\ inputs \in Nat /\ c \in Nat
    BY <1>1, ClientNats, Bounds DEF Take, Runs, IInv, Serving, Typed, ClientTyped
  <1>3. PICK run : run = runs[c]
    OBVIOUS
  <1>4. PICK at \in {"invoking", "error"} : Become(c, at) /\ (Fault \/ UNCHANGED faults)
    BY <1>1 DEF Take, Open
  <1>5. PICK new : new = [run EXCEPT !.at = at]
    OBVIOUS
  <1>6. runs' = [runs EXCEPT ![c] = new]
    BY <1>3, <1>4, <1>5 DEF Become
  <1>7. run \in RunType /\ Allowed(run) /\ Idle(c)
    BY <1>2, <1>3, RunFacts DEF IInv, Serving, Owned
  <1>8. new \in RunType /\ Allowed(new) /\ new.calls = 0 /\ new.at = at
    BY <1>3, <1>5, <1>7 DEF RunType, Ats, Allowed, Idle
  <1>9. /\ log' = log /\ external' = external /\ ctl' = ctl /\ current' = c /\ busy' = TRUE
        /\ quit' = quit /\ emitted' = emitted /\ events' = events /\ approval' = approval
        /\ Passed' = Passed /\ Coming' = Coming /\ inputs' = inputs /\ screen' = screen
        /\ stream' = stream
    BY <1>1 DEF Take, screenVars, Passed, Coming
  <1>10. \A s \in Runs : runs'[s] = IF s = c THEN new ELSE runs[s]
    BY <1>6 DEF IInv, Serving, Typed, RunsTyped
  <1>11. Typed'
    <2>1. runs' \in [Runs -> RunType]
      BY <1>6, <1>8 DEF IInv, Serving, Typed, RunsTyped
    <2>2. \A s \in Runs : Allowed(runs'[s])
      BY <1>8, <1>10 DEF IInv, Serving, Typed, RunsTyped
    <2>3. RunsTyped'
      BY <1>9, <2>1, <2>2 DEF IInv, Serving, Typed, RunsTyped, Allowed
    <2>4. ServerTyped'
      BY <1>9, ServerKept DEF IInv, Serving, Typed
    <2>5. ClientTyped'
      <3>1. c \in 0..inputs /\ c # 0
        BY <1>2
      <3> QED BY <1>9, <3>1 DEF IInv, Serving, Typed, ClientTyped
    <2>6. ScreenTyped'
      <3>1. faults' \in 0..MaxFaults
        BY <1>4, FaultCounted DEF IInv, Serving, Typed
      <3> QED BY <1>9, <3>1, ScreenKept DEF IInv, Serving, Typed
    <2> QED BY <2>3, <2>4, <2>5, <2>6 DEF Typed
  <1>12. Owned'
    <2>1. ASSUME NEW s \in Runs, s > c PROVE Idle(s)'
      <3>1. s # c /\ s > current
        BY <1>2, <2>1 DEF Runs
      <3>2. Idle(s)
        BY <3>1 DEF IInv, Serving, Owned
      <3> QED BY <1>9, <1>10, <3>1, <3>2 DEF Idle
    <2> QED BY <1>9, <2>1 DEF IInv, Serving, Owned
  <1>13. Emission'
    <2>1. Sent(c, emitted[c], new)
      BY <1>2, <1>7, <1>8, SentNothing DEF Idle
    <2> QED BY <1>9, <1>10, <2>1 DEF IInv, Serving, Emission
  <1>14. Flow'
    <2>1. stream[c] = <<>> /\ events[c] = <<>> /\ emitted[c] = <<>>
      BY <1>7 DEF Idle
    <2>2. Passed \in Seq(Entry)
      BY PathTyped DEF IInv, Serving
    <2>3. Passed \o (<<>> \o <<>>) = Passed
      <3>1. <<>> \in Seq(Entry)
        BY EmptySeq
      <3>2. <<>> \o <<>> = <<>>
        BY <3>1, ConcatEmptySeq
      <3> QED BY <2>2, <3>2, ConcatEmptySeq
    <2>4. Path(c)' = Passed
      BY <1>9, <2>1, <2>3 DEF Path
    <2>5. \A i : i \notin DOMAIN <<>>
      BY EmptySeq, SeqElement
    <2>6. InOrder(Passed, emitted)
      BY DEF IInv, Serving, Flow
    <2>7. ASSUME NEW s \in Runs, Watched(s)'
          PROVE  InOrder(Path(s)', emitted) /\ \A i \in DOMAIN emitted[s] : Has(Path(s)', emitted[s][i])
      <3>1. s = c
        BY <1>9, <2>7 DEF Watched
      <3> QED BY <2>1, <2>4, <2>5, <2>6, <3>1
    <2> QED BY <1>9, <2>6, <2>7 DEF Flow
  <1>15. Taken'
    <2>1. RunOrder(Passed)'
      BY <1>9 DEF IInv, Taken, RunOrder
    <2>2. Submits'
      BY <1>9 DEF IInv, Taken, Submits
    <2>3. ASSUME NEW k \in DOMAIN Passed
          PROVE  /\ Passed[k].kind = "submit" => Passed[k].run <= inputs
                 /\ Passed[k].kind # "submit" => Passed[k].run <= c
                 /\ Passed[k].kind = "result" => ~(c = Passed[k].run)
      <3>1. Passed[k] \in Entry
        BY PathTyped, SeqElement DEF IInv, Serving
      <3>2. Passed[k].run \in Nat
        BY <3>1, ClientNats DEF Entry, IInv, Serving
      <3> QED BY <1>2, <3>2 DEF IInv, Taken, TakenRuns
    <2>4. TakenRuns'
      BY <1>9, <2>3 DEF TakenRuns
    <2> QED BY <2>1, <2>2, <2>4 DEF Taken
  <1>16. Shows'
    <2>1. ASSUME NEW e \in Event, e.run <= current, Never(e) PROVE Never(e)'
      <3>1. ~Has(Passed, e)
        BY <2>1, NeverHas
      <3>2. e.run \in Nat
        BY ClientNats DEF Event, IInv, Serving
      <3>3. c # e.run
        BY <1>2, <2>1, <3>2
      <3> QED BY <1>9, <3>1, <3>3 DEF Never, Passed, Coming, Has, ToSet
    <2>2. \A e \in Event : Has(Coming, e) => Has(Coming', e)
      BY <1>9
    <2>3. current <= current' /\ current' \in Nat
      BY <1>2, <1>9
    <2> QED BY <1>9, <2>1, <2>2, <2>3, ClientShows DEF IInv, Serving
  <1> QED BY <1>11, <1>12, <1>13, <1>14, <1>15, <1>16 DEF IInv, Serving

\* What the client may have taken, of whatever kind.
Fits(e) == /\ e.kind = "submit" => e.run <= inputs
           /\ e.kind # "submit" => e.run <= current
           /\ e.kind = "result" => ~(busy /\ current = e.run)

LEMMA TakenHas == TakenRuns <=> \A e : Has(Passed, e) => Fits(e)
  BY DEF TakenRuns, Has, Fits

LEMMA TakenGrows ==
    ASSUME Typed, Taken, NEW p, NEW x \in Entry, Inserted(Passed', Passed, p, x),
           current' = current, inputs' \in Nat, inputs <= inputs', busy' => busy,
           Fits(x)',
           \A j \in DOMAIN Passed : j <= p /\ IsEvent(Passed[j]) => Passed[j].run <= x.run,
           \A j \in DOMAIN Passed : j > p /\ IsEvent(x) => x.run <= Passed[j].run
    PROVE  RunOrder(Passed)' /\ TakenRuns'
  <1>1. RunOrder(Passed')
    BY InsertRunOrder DEF Taken
  <1>2. ASSUME NEW e, Has(Passed', e) PROVE Fits(e)'
    <2>1. CASE e = x
      BY <2>1
    <2>2. CASE e # x
      <3>1. Has(Passed, e)
        BY <1>2, <2>2, InsertedHas
      <3>2. Fits(e)
        BY <3>1, TakenHas DEF Taken
      <3>3. e \in Entry
        BY <3>1, PathTyped, SeqElement DEF Has
      <3>4. e.run \in Nat /\ inputs \in Nat /\ current \in Nat
        BY <3>3, ClientNats DEF Entry
      <3> QED BY <3>2, <3>4 DEF Fits
    <2> QED BY <2>1, <2>2
  <1>3. TakenRuns'
    BY <1>2 DEF TakenRuns, Has, Fits
  <1> QED BY <1>1, <1>3 DEF RunOrder

LEMMA DrainKeeps ==
    ASSUME IInv, Drain
    PROVE  IInv'
  <1>1. Typed /\ Taken /\ Shows /\ Owned /\ Flow
    BY DEF IInv, Serving
  <1>2. PICK c \in Runs : c = current /\ c \in Nat
    BY <1>1, ClientNats DEF Drain, Watched
  <1>3. PICK s \in Seq(Event \cup Result) : s = stream[c] /\ s # <<>> /\ Len(s) <= Capacity
    BY <1>1, <1>2 DEF Drain, Typed, ServerTyped
  <1>4. PICK h \in Event : h = Head(s)
    BY <1>2, <1>3, SeqTail, EventsAreEntries DEF Drain
  <1>5. /\ ctl' = Append(ctl, h) /\ Len(ctl) < Capacity
        /\ stream' = [stream EXCEPT ![c] = Tail(s)]
        /\ Watched(c) /\ busy
    BY <1>2, <1>3, <1>4 DEF Drain, Watched
  <1>6. /\ log' = log /\ external' = external /\ current' = current /\ busy' = busy
        /\ quit' = quit /\ emitted' = emitted /\ events' = events /\ approval' = approval
        /\ runs' = runs /\ inputs' = inputs /\ screen' = screen /\ faults' = faults
    BY DEF Drain, screenVars
  <1>7. /\ Tail(s) \in Seq(Event \cup Result) /\ Len(Tail(s)) = Len(s) - 1 /\ Len(s) \in Nat
        /\ h = s[1] /\ 1 \in DOMAIN s /\ DOMAIN Tail(s) = 1..(Len(s) - 1) /\ DOMAIN s = 1..Len(s)
        /\ \A i \in DOMAIN Tail(s) : Tail(s)[i] = s[i + 1]
    BY <1>3, <1>4, SeqTail, SeqElement
  <1>8. \A r \in Runs : stream'[r] = IF r = c THEN Tail(s) ELSE stream[r]
    BY <1>1, <1>5 DEF Typed, ServerTyped
  <1>9. \A k \in DOMAIN s : s[k].run = c
    BY <1>1, <1>3 DEF Owned
  <1>10. h.run = c /\ h \in Entry /\ IsEvent(h)
    BY <1>7, <1>9, EventsAreEntries
  <1>11. Typed'
    <2>1. stream' \in [Runs -> Seq(Event \cup Result)]
      BY <1>1, <1>5, <1>7 DEF Typed, ServerTyped
    <2>2. Len(Tail(s)) <= Capacity
      BY <1>3, <1>7, Bounds
    <2>3. ServerTyped'
      BY <1>1, <1>6, <1>8, <2>1, <2>2 DEF Typed, ServerTyped
    <2>4. RunsTyped'
      BY <1>1, <1>6, RunsKept DEF Typed
    <2>5. ctl' \in Seq(Event) /\ Len(ctl') <= Capacity
      <3>1. ctl \in Seq(Event)
        BY <1>1 DEF Typed, ClientTyped
      <3>2. Append(ctl, h) \in Seq(Event) /\ Len(Append(ctl, h)) = Len(ctl) + 1 /\ Len(ctl) \in Nat
        BY <3>1, SeqAppend, SeqElement
      <3> QED BY <1>5, <3>2, Bounds
    <2>6. ClientTyped'
      BY <1>1, <1>6, <2>5 DEF Typed, ClientTyped
    <2>7. ScreenTyped'
      BY <1>1, <1>6 DEF Typed, ScreenTyped
    <2> QED BY <2>3, <2>4, <2>6, <2>7 DEF Typed
  <1>12. Owned'
    <2>1. ASSUME NEW r \in Runs, NEW k \in DOMAIN stream'[r] PROVE stream'[r][k].run = r
      <3>1. CASE r = c
        <4>1. stream'[r] = Tail(s) /\ k \in 1..(Len(s) - 1)
          BY <1>7, <1>8, <2>1, <3>1
        <4>2. Tail(s)[k] = s[k + 1] /\ k + 1 \in DOMAIN s
          BY <1>7, <4>1
        <4> QED BY <1>9, <3>1, <4>1, <4>2
      <3>2. CASE r # c
        BY <1>1, <1>8, <2>1, <3>2 DEF Owned
      <3> QED BY <3>1, <3>2
    <2>2. ASSUME NEW r \in Runs, r > current PROVE Idle(r)'
      <3>1. r # c
        BY <1>2, <2>2
      <3>2. Idle(r)
        BY <1>1, <2>2 DEF Owned
      <3> QED BY <1>6, <1>8, <3>1, <3>2 DEF Idle
    <2> QED BY <1>1, <1>6, <2>1, <2>2 DEF Owned
  <1>13. Emission'
    BY <1>6 DEF IInv, Serving, Emission
  <1>14. /\ Passed \in Seq(Entry) /\ log \in Seq(Entry) /\ external \in Seq(Entry) /\ ctl \in Seq(Entry)
         /\ s \in Seq(Entry) /\ events[c] \in Seq(Entry) /\ Coming \in Seq(Entry)
    BY <1>1, <1>3, PathTyped
  <1>15. Passed' = Append(Passed, h) /\ Coming' = Append(Coming, h)
    <2>1. Coming' = external \o Append(ctl, h)
      BY <1>5, <1>6 DEF Coming
    <2>2. external \o Append(ctl, h) = Append(Coming, h)
      BY <1>10, <1>14, ConcatAppend DEF Coming
    <2>3. Passed' = log \o Append(Coming, h)
      BY <1>6, <2>1, <2>2 DEF Passed
    <2>4. log \o Append(Coming, h) = Append(Passed, h)
      BY <1>10, <1>14, ConcatAppend DEF Passed
    <2> QED BY <2>1, <2>2, <2>3, <2>4
  <1>16. Path(c)' = Path(c)
    <2>1. PICK t \in Seq(Entry) : t = Tail(s)
      BY <1>3, <1>14, SeqTail
    <2>2. PICK a \in Seq(Entry) : a = Append(Passed, h)
      BY <1>10, <1>14, SeqAppend
    <2>3. PICK ev \in Seq(Entry) : ev = events[c]
      BY <1>14
    <2>4. a \o (t \o ev) = (a \o t) \o ev
      <3>1. Assoc(a, t, ev)
        BY <2>1, <2>2, <2>3, EntriesInARow
      <3> QED BY <3>1 DEF Assoc
    <2>5. a \o t = Passed \o s
      BY <1>3, <1>4, <1>14, <2>1, <2>2, MoveHead
    <2>6. (Passed \o s) \o ev = Passed \o (s \o ev)
      <3>1. Passed \in Seq(Entry) /\ s \in Seq(Entry) /\ ev \in Seq(Entry)
        BY <1>14
      <3>2. Assoc(Passed, s, ev)
        BY <3>1, EntriesInARow
      <3> QED BY <3>2 DEF Assoc
    <2>7. Path(c)' = a \o (t \o ev)
      BY <1>6, <1>8, <1>15, <2>1, <2>2, <2>3 DEF Path
    <2>8. Path(c) = Passed \o (s \o ev)
      BY <1>3, <2>3 DEF Path
    <2> QED BY <2>4, <2>5, <2>6, <2>7, <2>8
  <1>17. InOrder(Path(c), emitted) /\ \A i \in DOMAIN emitted[c] : Has(Path(c), emitted[c][i])
    BY <1>1, <1>5 DEF Flow
  <1>18. Flow'
    <2>1. InOrder(Append(Passed, h), emitted)
      <3>1. PICK a \in Seq(Entry) : a = Append(Passed, h)
        BY <1>10, <1>14, SeqAppend
      <3>2. PICK b \in Seq(Entry) : b = stream'[c] \o events[c]
        <4>1. Tail(s) \in Seq(Entry)
          BY <1>3, <1>14, SeqTail
        <4> QED BY <1>8, <1>14, <4>1, SeqConcat
      <3>3. Path(c)' = a \o b
        BY <1>6, <1>15, <3>1, <3>2 DEF Path
      <3>4. InOrder(a \o b, emitted)
        BY <1>16, <1>17, <3>3
      <3>5. InOrder(a, emitted)
        BY <3>4, FrontInOrder
      <3> QED BY <3>1, <3>5
    <2>2. ASSUME NEW r \in Runs, Watched(r)'
          PROVE  InOrder(Path(r)', emitted) /\ \A i \in DOMAIN emitted[r] : Has(Path(r)', emitted[r][i])
      <3>1. r = c
        BY <1>2, <1>6, <2>2 DEF Watched
      <3> QED BY <1>16, <1>17, <3>1
    <2> QED BY <1>6, <1>15, <2>1, <2>2 DEF Flow
  <1>19. RunOrder(Passed)' /\ TakenRuns'
    <2>1. Inserted(Passed', Passed, Len(Passed), h)
      BY <1>10, <1>14, <1>15, InsertEnd
    <2>2. \A j \in DOMAIN Passed : IsEvent(Passed[j]) => Passed[j].run <= h.run
      BY <1>1, <1>2, <1>10 DEF Taken, TakenRuns, IsEvent
    <2>3. \A j \in DOMAIN Passed : ~(j > Len(Passed))
      BY <1>14, SeqElement
    <2>4. Fits(h)'
      BY <1>2, <1>6, <1>10 DEF Fits, IsEvent
    <2>5. current' = current /\ inputs' \in Nat /\ inputs <= inputs' /\ (busy' => busy)
      BY <1>1, <1>6, ClientNats
    <2> QED BY <1>1, <1>10, <2>1, <2>2, <2>3, <2>4, <2>5, TakenGrows
  <1>20. Taken'
    BY <1>1, <1>6, <1>19 DEF Taken, Submits
  <1>21. Shows'
    <2>1. ASSUME NEW e \in Event, e.run <= current, Never(e) PROVE Never(e)'
      <3>1. ~Has(Passed, e) /\ e # h
        BY <1>2, <1>5, <1>10, <2>1, NeverHas
      <3>2. ~Has(Passed', e)
        BY <1>10, <1>14, <1>15, <3>1, AppendHas
      <3>3. ~(busy' /\ current' = e.run)
        BY <1>6, <2>1, NeverHas
      <3> QED BY <3>2, <3>3 DEF Never, Passed, Coming, Has, ToSet
    <2>2. \A e \in Event : Has(Coming, e) => Has(Coming', e)
      BY <1>10, <1>14, <1>15, AppendHas
    <2>3. current <= current' /\ current' \in Nat
      BY <1>2, <1>6
    <2> QED BY <1>1, <1>6, <2>1, <2>2, <2>3, ClientShows
  <1> QED BY <1>11, <1>12, <1>13, <1>18, <1>20, <1>21 DEF IInv, Serving

\* The result goes in front of the events that the forwarder still has.
LEMMA ReturnKeeps ==
    ASSUME IInv, Watched(current), NEW x \in Result, x.run = current, Return(x),
           Fault \/ UNCHANGED faults
    PROVE  IInv'
  <1>1. Typed /\ Taken /\ Shows /\ Owned /\ Flow
    BY DEF IInv, Serving
  <1>2. PICK c \in Runs : c = current /\ c \in Nat
    BY <1>1, ClientNats DEF Watched
  <1>3. /\ external' = Append(external, x) /\ busy' = FALSE
        /\ stream' = [stream EXCEPT ![c] = <<>>]
    BY <1>2 DEF Return
  <1>4. /\ log' = log /\ ctl' = ctl /\ current' = current /\ approval' = approval
        /\ quit' = quit /\ emitted' = emitted /\ events' = events
        /\ runs' = runs /\ inputs' = inputs /\ screen' = screen
    BY DEF Return
  <1>5. x \in Event \cup Result /\ x \in Entry /\ ~IsEvent(x) /\ x.kind = "result" /\ x \notin Event
    BY EventsAreEntries
  <1>6. \A r \in Runs : stream'[r] = IF r = c THEN <<>> ELSE stream[r]
    BY <1>1, <1>3 DEF Typed, ServerTyped
  <1>7. Typed'
    <2>1. <<>> \in Seq(Event \cup Result) /\ Len(<<>>) <= Capacity
      BY EmptySeq, Bounds
    <2>2. ServerTyped'
      BY <1>1, <1>3, <1>4, <1>6, <2>1 DEF Typed, ServerTyped
    <2>3. RunsTyped'
      BY <1>1, <1>4, RunsKept DEF Typed
    <2>4. ClientTyped'
      BY <1>1, <1>3, <1>4 DEF Typed, ClientTyped
    <2>5. ScreenTyped'
      <3>1. external \in Seq(Event \cup Result)
        BY <1>1 DEF Typed, ScreenTyped
      <3>2. external' \in Seq(Event \cup Result)
        BY <1>3, <1>5, <3>1, SeqAppend
      <3>3. faults' \in 0..MaxFaults
        BY <1>1, FaultCounted DEF Typed
      <3> QED BY <1>1, <1>4, <3>2, <3>3 DEF Typed, ScreenTyped
    <2> QED BY <2>2, <2>3, <2>4, <2>5 DEF Typed
  <1>8. Owned'
    <2>1. \A i : i \notin DOMAIN <<>>
      BY EmptySeq, SeqElement
    <2>2. ASSUME NEW r \in Runs, NEW k \in DOMAIN stream'[r] PROVE stream'[r][k].run = r
      BY <1>1, <1>6, <2>1, <2>2 DEF Owned
    <2>3. ASSUME NEW r \in Runs, r > current PROVE Idle(r)'
      <3>1. Idle(r)
        BY <1>1, <2>3 DEF Owned
      <3> QED BY <1>4, <1>6, <3>1 DEF Idle
    <2> QED BY <1>1, <1>4, <2>2, <2>3 DEF Owned
  <1>9. Emission'
    BY <1>4 DEF IInv, Serving, Emission
  <1>10. /\ log \in Seq(Entry) /\ external \in Seq(Entry) /\ ctl \in Seq(Entry)
         /\ Passed \in Seq(Entry)
    BY <1>1, PathTyped
  <1>11. PICK p : p = Len(log) + Len(external)
    OBVIOUS
  <1>12. Inserted(Passed', Passed, p, x)
    <2>1. Inserted(log \o (Append(external, x) \o ctl), log \o (external \o ctl), p, x)
      BY <1>5, <1>10, <1>11, InsertMiddle
    <2> QED BY <1>3, <1>4, <2>1 DEF Passed, Coming
  <1>13. Inserted(Coming', Coming, Len(external), x)
    <2>1. Inserted(Append(external, x) \o ctl, external \o ctl, Len(external), x)
      BY <1>5, <1>10, InsertBetween
    <2> QED BY <1>3, <1>4, <2>1 DEF Coming
  <1>14. Flow'
    <2>1. InOrder(Passed', emitted)
      BY <1>1, <1>5, <1>12, InsertInOrder DEF Flow
    <2>2. ~(\E r \in Runs : Watched(r)')
      BY <1>3 DEF Watched
    <2> QED BY <1>4, <2>1, <2>2 DEF Flow
  <1>15. RunOrder(Passed)' /\ TakenRuns'
    <2>1. \A j \in DOMAIN Passed : IsEvent(Passed[j]) => Passed[j].run <= x.run
      BY <1>1 DEF Taken, TakenRuns, IsEvent
    <2>2. Fits(x)'
      BY <1>2, <1>3, <1>4, <1>5 DEF Fits
    <2>3. current' = current /\ inputs' \in Nat /\ inputs <= inputs' /\ (busy' => busy)
      BY <1>1, <1>3, <1>4, ClientNats
    <2> QED BY <1>1, <1>5, <1>12, <2>1, <2>2, <2>3, TakenGrows
  <1>16. Taken'
    BY <1>1, <1>4, <1>15 DEF Taken, Submits
  <1>17. Shows'
    <2>1. ASSUME NEW e \in Event, e.run <= current, Never(e) PROVE Never(e)'
      <3>1. ~Has(Passed, e) /\ e # x
        BY <1>5, <2>1, NeverHas
      <3>2. ~Has(Passed', e)
        BY <1>12, <3>1, InsertedHas
      <3> QED BY <1>3, <3>2 DEF Never, Passed, Coming, Has, ToSet
    <2>2. \A e \in Event : Has(Coming, e) => Has(Coming', e)
      BY <1>13, InsertedHas
    <2>3. current <= current' /\ current' \in Nat
      BY <1>2, <1>4
    <2> QED BY <1>1, <1>4, <2>1, <2>2, <2>3, ClientShows
  <1> QED BY <1>7, <1>8, <1>9, <1>14, <1>16, <1>17 DEF IInv, Serving

LEMMA FinishKeeps ==
    ASSUME IInv, Finish
    PROVE  IInv'
  <1>1. Typed /\ Owned /\ current \in Runs /\ Watched(current)
    BY ClientNats DEF IInv, Serving, Finish, Watched
  <1>2. PICK s \in Seq(Event \cup Result) : s = stream[current] /\ s # <<>>
    BY <1>1 DEF Finish, Typed, ServerTyped
  <1>3. Head(s) \in Event \cup Result /\ Head(s) = s[1] /\ 1 \in DOMAIN s /\ Head(s).kind = "result"
    BY <1>2, SeqTail, SeqElement DEF Finish
  <1>4. PICK x \in Result : x = Head(s)
    BY <1>3 DEF Event
  <1>5. x.run = current
    BY <1>1, <1>2, <1>3, <1>4 DEF Owned
  <1>6. Return(x) /\ UNCHANGED faults
    BY <1>2, <1>4 DEF Finish
  <1> QED BY <1>1, <1>5, <1>6, ReturnKeeps

LEMMA ConnectionLostKeeps ==
    ASSUME IInv, ConnectionLost
    PROVE  IInv'
  <1>1. current \in Runs /\ Watched(current)
    BY ClientNats DEF IInv, Serving, ConnectionLost, Watched
  <1>2. PICK x \in Result : x = Ev("result", current, 0) /\ x.run = current
    <2>1. 0 \in 0..MaxTurns
      BY Bounds
    <2>2. Ev("result", current, 0) \in Result /\ Ev("result", current, 0).run = current
      BY <1>1, <2>1 DEF Ev, Result
    <2> QED BY <2>2
  <1>3. Return(x) /\ Fault
    BY <1>2 DEF ConnectionLost
  <1> QED BY <1>1, <1>2, <1>3, ReturnKeeps

LEMMA ForwardKeeps ==
    ASSUME IInv, Forward
    PROVE  IInv'
  <1>1. Typed /\ Taken /\ Shows /\ Owned /\ Flow
    BY DEF IInv, Serving
  <1>2. PICK h \in Event : h = Head(ctl)
    BY <1>1, SeqTail DEF Forward, Typed, ClientTyped
  <1>3. ctl # <<>> /\ external' = Append(external, h) /\ ctl' = Tail(ctl)
    BY <1>2 DEF Forward
  <1>4. /\ log' = log /\ current' = current /\ approval' = approval /\ busy' = busy
        /\ quit' = quit /\ emitted' = emitted /\ events' = events /\ stream' = stream
        /\ runs' = runs /\ inputs' = inputs /\ screen' = screen /\ faults' = faults
    BY DEF Forward, serverVars
  <1>5. Typed'
    <2>1. ServerTyped' /\ RunsTyped'
      BY <1>1, <1>4, ServerKept, RunsKept DEF Typed
    <2>2. ClientTyped'
      <3>1. PICK q \in Seq(Event) : q = ctl /\ q # <<>> /\ Len(q) <= Capacity
        BY <1>1, <1>3 DEF Typed, ClientTyped
      <3>2. Tail(q) \in Seq(Event) /\ Len(Tail(q)) = Len(q) - 1 /\ Len(q) \in Nat
        BY <3>1, SeqTail, SeqElement
      <3>3. Len(Tail(q)) <= Capacity
        BY <3>1, <3>2, Bounds
      <3> QED BY <1>1, <1>3, <1>4, <3>1, <3>2, <3>3 DEF Typed, ClientTyped
    <2>3. ScreenTyped'
      <3>1. external \in Seq(Event \cup Result) /\ h \in Event \cup Result
        BY <1>1 DEF Typed, ScreenTyped
      <3>2. external' \in Seq(Event \cup Result)
        BY <1>3, <3>1, SeqAppend
      <3> QED BY <1>1, <1>4, <3>2 DEF Typed, ScreenTyped
    <2> QED BY <2>1, <2>2, <2>3 DEF Typed
  <1>6. Coming' = Coming
    <2>1. external \in Seq(Entry) /\ ctl \in Seq(Entry)
      BY <1>1, PathTyped
    <2>2. Append(external, Head(ctl)) \o Tail(ctl) = external \o ctl
      BY <1>3, <2>1, MoveHead
    <2> QED BY <1>2, <1>3, <2>2 DEF Coming
  <1>7. Passed' = Passed
    BY <1>4, <1>6 DEF Passed
  <1>8. Owned' /\ Emission'
    BY <1>4 DEF IInv, Serving, Owned, Idle, Emission
  <1>9. Flow'
    BY <1>1, <1>4, <1>7 DEF Flow, Path, Watched
  <1>10. Taken'
    <2>1. RunOrder(Passed)'
      BY <1>1, <1>7 DEF Taken, RunOrder
    <2>2. TakenRuns' /\ Submits'
      BY <1>1, <1>4, <1>7 DEF Taken, TakenRuns, Submits
    <2> QED BY <2>1, <2>2 DEF Taken
  <1>11. Shows'
    <2>1. ASSUME NEW e \in Event, e.run <= current, Never(e) PROVE Never(e)'
      BY <1>4, <1>6, <2>1 DEF Never
    <2>2. \A e \in Event : Has(Coming, e) => Has(Coming', e)
      BY <1>6
    <2>3. current <= current' /\ current' \in Nat
      BY <1>1, <1>4, ClientNats
    <2> QED BY <1>1, <1>4, <2>1, <2>2, <2>3, ClientShows
  <1> QED BY <1>5, <1>8, <1>9, <1>10, <1>11 DEF IInv, Serving

-----------------------------------------------------------------------------
(* Steps of the terminal *)

\* Rows stay where they are, and only a call gets another trace.
Keeps(new, old) ==
    \A i \in DOMAIN old :
        /\ i \in DOMAIN new /\ new[i].what = old[i].what
        /\ new[i].run = old[i].run /\ new[i].n = old[i].n
        /\ old[i].what # "call" => new[i] = old[i]

LEMMA CutOffStays ==
    ASSUME Typed, Shows, Keeps(screen'.rows, screen.rows),
           \A e \in Event : e.run <= current /\ Never(e) => Never(e)',
           NEW i \in DOMAIN screen.rows, CutOff(i)
    PROVE  CutOff(i)'
  <1>1. PICK e \in Event : /\ e = Ev("end", screen.rows[i].run, screen.rows[i].n)
                           /\ e.run = screen.rows[i].run
    BY RowTyped
  <1>2. screen.rows[i].what = "call" /\ e.run <= current /\ Never(e)
    BY <1>1 DEF CutOff, Shows, CallRows
  <1>3. Never(e)'
    BY <1>2
  <1>4. e = Ev("end", screen'.rows[i].run, screen'.rows[i].n) /\ screen'.rows[i].what = "call"
    BY <1>1, <1>2 DEF Keeps
  <1> QED BY <1>3, <1>4 DEF CutOff

LEMMA ShiftedStays ==
    ASSUME Typed, Shows, Keeps(screen'.rows, screen.rows),
           \A e \in Event : e.run <= current /\ Never(e) => Never(e)',
           NEW i \in DOMAIN screen.rows, Shifted(i)
    PROVE  Shifted(i)'
  <1>1. PICK h \in 1..i : CutOff(h) /\ \A k \in h..i : screen.rows[k].what # "user"
    BY DEF Shifted
  <1>2. \A k \in 1..i : k \in DOMAIN screen.rows
    BY SeqElement DEF Typed, ScreenTyped
  <1>3. CutOff(h)'
    BY <1>1, <1>2, CutOffStays
  <1>4. ASSUME NEW k \in h..i PROVE screen'.rows[k].what # "user"
    <2>1. i \in Nat
      BY SeqElement DEF Typed, ScreenTyped
    <2>2. k \in 1..i
      BY <2>1
    <2> QED BY <1>1, <1>2, <2>2 DEF Keeps
  <1> QED BY <1>3, <1>4 DEF Shifted

LEMMA TextStays ==
    ASSUME NEW new, NEW old, Keeps(new, old), NEW e, Has(old, Text(e))
    PROVE  Has(new, Text(e))
  <1>1. PICK i \in DOMAIN old : old[i] = Text(e)
    BY DEF Has
  <1>2. old[i].what = "text"
    BY <1>1 DEF Text
  <1>3. i \in DOMAIN new /\ new[i] = Text(e)
    BY <1>1, <1>2 DEF Keeps
  <1> QED BY <1>3 DEF Has

\* Another entry of the log, with the rows that show it.
LEMMA LogGrows ==
    ASSUME Typed, Taken, Shows, NEW x \in Entry, log' = Append(log, x),
           Keeps(screen'.rows, screen.rows),
           \A e \in Event : e.run <= current /\ Never(e) => Never(e)',
           \A e \in Event : Has(Coming, e) => Has(Coming', e) \/ x = e,
           x.kind # "submit" => Has(Passed, x),
           x.kind = "text" => Has(screen'.rows, Text(x)),
           x.kind = "result" => Has(screen'.rows, Text(x)) \/ screen.received
    PROVE  TextsShown' /\ AnswerShown'
  <1>1. /\ log \in Seq(Entry) /\ DOMAIN log = 1..Len(log) /\ Len(log) \in Nat
        /\ DOMAIN log' = 1..(Len(log) + 1)
        /\ log'[Len(log) + 1] = x /\ \A k \in DOMAIN log : log'[k] = log[k]
    BY PathTyped, SeqElement, SeqAppend
  <1>2. ASSUME NEW e, Has(log, e), e.kind = "text" PROVE Has(screen'.rows, Text(e))
    <2>1. Has(screen.rows, Text(e))
      BY <1>2 DEF Shows, TextsShown, Has
    <2> QED BY <2>1, TextStays
  <1>3. TextsShown'
    <2> SUFFICES ASSUME NEW k \in 1..(Len(log) + 1), log'[k].kind = "text"
                 PROVE  Has(screen'.rows, Text(log'[k]))
      BY <1>1 DEF TextsShown
    <2>1. CASE k = Len(log) + 1
      BY <1>1, <2>1
    <2>2. CASE k # Len(log) + 1
      <3>1. k \in DOMAIN log /\ log'[k] = log[k]
        BY <1>1, <2>2
      <3>2. Has(log, log[k])
        BY <3>1 DEF Has
      <3> QED BY <1>2, <3>1, <3>2
    <2> QED BY <2>1, <2>2
  <1>4. AnswerShown'
    <2> SUFFICES ASSUME NEW k \in 1..(Len(log) + 1), log'[k].kind = "result"
                 PROVE  LET answer == Ev("text", log'[k].run, log'[k].n) IN
                        \/ Text(answer) \in ToSet(screen'.rows)
                        \/ answer \in ToSet(Coming')
                        \/ /\ ~(busy' /\ current' = answer.run)
                           /\ answer \notin ToSet(log' \o Coming')
                           /\ \E j \in 1..(k - 1) : /\ log'[j].kind = "text"
                                                    /\ \A i \in j..k : log'[i].kind # "submit"
      BY <1>1 DEF AnswerShown, Never
    <2>1. PICK answer : answer = Ev("text", log'[k].run, log'[k].n)
      OBVIOUS
    <2>2. log'[k] \in Entry
      BY <1>1
    <2>3. answer \in Event /\ answer.run = log'[k].run /\ answer.n = log'[k].n /\ answer.kind = "text"
      <3>1. log'[k].run \in Runs /\ log'[k].n \in Nat
        BY <2>2 DEF Entry
      <3> QED BY <2>1, <3>1, EvEvent
    <2>4. Text(answer) = Text(log'[k])
      BY <2>3 DEF Text
    <2>5. answer.run <= current
      <3>1. Has(Passed, log'[k])
        <4>1. CASE k = Len(log) + 1
          BY <1>1, <4>1
        <4>2. CASE k # Len(log) + 1
          <5>1. k \in DOMAIN log /\ log'[k] = log[k]
            BY <1>1, <4>2
          <5>2. k \in DOMAIN Passed /\ Passed[k] = log[k]
            BY <5>1, PathTyped, SeqConcat, SeqElement DEF Passed
          <5> QED BY <5>1, <5>2 DEF Has
        <4> QED BY <4>1, <4>2
      <3> QED BY <2>3, <3>1, TakenHas DEF Taken, Fits
    <2>6. Never(answer) => /\ ~(busy' /\ current' = answer.run)
                           /\ answer \notin ToSet(log' \o Coming')
      <3>1. Never(answer) => Never(answer)'
        BY <2>3, <2>5
      <3> QED BY <3>1 DEF Never
    <2>7. Has(Coming, answer) => Has(Coming', answer) \/ x = answer
      BY <2>3
    <2>8. x = answer => Has(screen'.rows, Text(answer))
      BY <2>3
    <2>9. Has(screen'.rows, Text(answer)) => Text(answer) \in ToSet(screen'.rows)
      BY DEF Has, ToSet
    <2>10. Has(Coming', answer) => answer \in ToSet(Coming')
      BY DEF Has, ToSet
    <2>11. CASE k # Len(log) + 1
      <3>1. k \in DOMAIN log /\ log'[k] = log[k] /\ \A i \in 1..k : log'[i] = log[i]
        BY <1>1, <2>11
      <3>2. \/ Text(answer) \in ToSet(screen.rows)
            \/ answer \in ToSet(Coming)
            \/ /\ Never(answer)
               /\ \E j \in 1..(k - 1) : /\ log[j].kind = "text"
                                        /\ \A i \in j..k : log[i].kind # "submit"
        BY <2>1, <3>1 DEF Shows, AnswerShown
      <3>3. CASE Text(answer) \in ToSet(screen.rows)
        <4>1. Has(screen.rows, Text(answer))
          BY <3>3 DEF Has, ToSet
        <4> QED BY <2>1, <2>9, <4>1, TextStays
      <3>4. CASE answer \in ToSet(Coming)
        <4>1. Has(Coming, answer)
          BY <3>4 DEF Has, ToSet
        <4> QED BY <2>1, <2>7, <2>8, <2>9, <2>10, <4>1
      <3>5. CASE /\ Never(answer)
                 /\ \E j \in 1..(k - 1) : /\ log[j].kind = "text"
                                          /\ \A i \in j..k : log[i].kind # "submit"
        <4>1. PICK j \in 1..(k - 1) : log[j].kind = "text" /\ \A i \in j..k : log[i].kind # "submit"
          BY <3>5
        <4>2. j \in 1..k /\ \A i \in j..k : i \in 1..k
          BY <1>1
        <4>3. log'[j].kind = "text" /\ \A i \in j..k : log'[i].kind # "submit"
          BY <3>1, <4>1, <4>2
        <4> QED BY <2>1, <2>6, <3>5, <4>3
      <3> QED BY <3>2, <3>3, <3>4, <3>5
    <2>12. CASE k = Len(log) + 1
      <3>1. log'[k] = x /\ x.kind = "result" /\ Text(x) = Text(answer)
        BY <1>1, <2>4, <2>12
      <3>2. CASE Has(screen'.rows, Text(x))
        BY <2>1, <2>9, <3>1, <3>2
      <3>3. CASE screen.received
        <4>1. PICK j \in DOMAIN log : /\ log[j].kind = "text"
                                      /\ \A i \in DOMAIN log : i >= j => log[i].kind # "submit"
          BY <3>3 DEF Shows, Received
        <4>2. j \in 1..(k - 1) /\ log'[j].kind = "text"
          BY <1>1, <2>12, <4>1
        <4>3. ASSUME NEW i \in j..k PROVE log'[i].kind # "submit"
          <5>1. CASE i = k
            BY <3>1, <5>1
          <5>2. CASE i # k
            <6>1. i \in DOMAIN log /\ i >= j
              BY <1>1, <2>12, <4>1, <5>2
            <6> QED BY <1>1, <4>1, <6>1
          <5> QED BY <5>1, <5>2
        <4>4. CASE Has(log, answer)
          <5>1. Has(screen'.rows, Text(answer))
            BY <1>2, <2>3, <4>4
          <5> QED BY <2>1, <2>9, <5>1
        <4>5. CASE Has(Coming, answer)
          BY <2>1, <2>7, <2>8, <2>9, <2>10, <4>5
        <4>6. CASE ~Has(log, answer) /\ ~Has(Coming, answer)
          <5>1. ~Has(Passed, answer)
            BY <4>6, PathTyped, ConcatHas DEF Passed
          <5>2. Fits(x)
            BY <3>1, TakenHas DEF Taken
          <5>3. ~(busy /\ current = answer.run)
            BY <2>3, <3>1, <5>2 DEF Fits
          <5>4. Never(answer)
            BY <5>1, <5>3, NeverHas
          <5> QED BY <2>1, <2>6, <4>2, <4>3, <5>4
        <4> QED BY <4>4, <4>5, <4>6
      <3> QED BY <3>1, <3>2, <3>3
    <2> QED BY <2>11, <2>12
  <1> QED BY <1>3, <1>4

LEMMA RowAdded ==
    ASSUME NEW rows \in Seq(Rows), NEW row \in Rows
    PROVE  /\ Append(rows, row) \in Seq(Rows)
           /\ Keeps(Append(rows, row), rows)
           /\ Has(Append(rows, row), row)
           /\ Len(rows) \in Nat /\ DOMAIN rows = 1..Len(rows)
           /\ DOMAIN Append(rows, row) = 1..(Len(rows) + 1)
           /\ \A i \in DOMAIN rows : Append(rows, row)[i] = rows[i]
           /\ Append(rows, row)[Len(rows) + 1] = row
  <1>1. /\ Append(rows, row) \in Seq(Rows)
        /\ Len(rows) \in Nat /\ DOMAIN rows = 1..Len(rows)
        /\ DOMAIN Append(rows, row) = 1..(Len(rows) + 1)
        /\ \A i \in DOMAIN rows : Append(rows, row)[i] = rows[i]
        /\ Append(rows, row)[Len(rows) + 1] = row
    BY SeqAppend, SeqElement
  <1>2. PICK new : new = Append(rows, row)
    OBVIOUS
  <1>3. Keeps(new, rows)
    BY <1>1, <1>2 DEF Keeps
  <1>4. Has(new, row)
    <2>1. Len(rows) + 1 \in DOMAIN new /\ new[Len(rows) + 1] = row
      BY <1>1, <1>2
    <2> QED BY <2>1 DEF Has
  <1> QED BY <1>1, <1>2, <1>3, <1>4

\* A row that is added as it should be displaces none.
LEMMA AddedInPlace ==
    ASSUME Typed, Shows, NEW row \in Rows, screen'.rows = Append(screen.rows, row),
           \A e \in Event : e.run <= current /\ Never(e) => Never(e)',
           current' = current, row.what = "call" => row.run <= current,
           row.trace \in {<<>>, <<row.run, row.n>>}
    PROVE  CallRows' /\ Misplaced'
  <1>1. PICK rows \in Seq(Rows) : rows = screen.rows
    BY DEF Typed, ScreenTyped
  <1>2. PICK new : new = screen'.rows
    OBVIOUS
  <1>3. /\ Keeps(new, rows)
        /\ Len(rows) \in Nat /\ DOMAIN rows = 1..Len(rows) /\ DOMAIN new = 1..(Len(rows) + 1)
        /\ \A i \in DOMAIN rows : new[i] = rows[i]
        /\ new[Len(rows) + 1] = row
    BY <1>1, <1>2, RowAdded
  <1>4. CallRows'
    <2>1. ASSUME NEW i \in DOMAIN new, new[i].what = "call" PROVE new[i].run <= current
      <3>1. CASE i \in DOMAIN rows
        BY <1>1, <1>3, <2>1, <3>1 DEF Shows, CallRows
      <3>2. CASE i \notin DOMAIN rows
        <4>1. i = Len(rows) + 1
          BY <1>3, <3>2
        <4> QED BY <1>3, <2>1, <4>1
      <3> QED BY <3>1, <3>2
    <2> QED BY <1>2, <2>1 DEF CallRows
  <1>5. Misplaced'
    <2>1. ASSUME NEW i \in DOMAIN new, new[i].trace \notin {<<>>, <<new[i].run, new[i].n>>}
          PROVE  Shifted(i)'
      <3>1. CASE i \in DOMAIN rows
        <4>1. Shifted(i)
          BY <1>1, <1>3, <2>1, <3>1 DEF Shows, Misplaced
        <4> QED BY <1>1, <1>2, <1>3, <3>1, <4>1, ShiftedStays
      <3>2. CASE i \notin DOMAIN rows
        <4>1. i = Len(rows) + 1
          BY <1>3, <3>2
        <4> QED BY <1>3, <2>1, <4>1
      <3> QED BY <3>1, <3>2
    <2> QED BY <1>2, <2>1 DEF Misplaced
  <1> QED BY <1>4, <1>5

LEMMA SubmitServes ==
    ASSUME IInv, Submit
    PROVE  IInv'
  <1>1. Typed /\ Taken /\ Shows /\ Owned /\ Flow
    BY DEF IInv, Serving
  <1>2. PICK c : c = inputs + 1
    OBVIOUS
  <1>3. /\ c \in Runs /\ inputs \in Nat /\ current \in Nat /\ current <= inputs /\ c \in Nat
        /\ inputs < c /\ c <= MaxInputs
    BY <1>1, <1>2, ClientNats, Bounds DEF Submit, Runs
  <1>4. PICK x \in Entry : x = Submitted(c)
    BY <1>3 DEF Submitted, Entry
  <1>5. x.kind = "submit" /\ x.run = c /\ ~IsEvent(x) /\ x \notin Event
    BY <1>4 DEF Submitted, IsEvent, Event
  <1>6. PICK row \in Rows : row = User(c)
    BY <1>3 DEF User, Rows
  <1>7. row.what = "user" /\ row.trace = <<>>
    BY <1>6 DEF User
  <1>8. PICK rows \in Seq(Rows) : rows = screen.rows
    BY <1>1 DEF Typed, ScreenTyped
  <1>9. screen' = [rows |-> Append(rows, row), pending |-> <<>>, received |-> FALSE]
    BY <1>1, <1>2, <1>6, <1>8 DEF Submit, Push, Typed, ScreenTyped
  <1>10. screen'.rows = Append(rows, row) /\ screen'.pending = <<>> /\ screen'.received = FALSE
    BY <1>9
  <1>11. /\ log' = Append(log, x) /\ inputs' = c /\ external' = external /\ current' = current
         /\ quit' = quit /\ emitted' = emitted /\ events' = events /\ approval' = approval
         /\ runs' = runs /\ busy' = busy /\ ctl' = ctl /\ stream' = stream /\ faults' = faults
    BY <1>2, <1>4 DEF Submit, serverVars
  <1>12. \A i : i \notin DOMAIN <<>>
    BY EmptySeq, SeqElement
  <1>13. Typed'
    <2>1. RunsTyped' /\ ServerTyped'
      BY <1>1, <1>11, RunsKept, ServerKept DEF Typed
    <2>2. ClientTyped'
      <3>1. c \in 0..MaxInputs /\ current \in 0..c
        BY <1>3, Bounds
      <3> QED BY <1>1, <1>11, <3>1 DEF Typed, ClientTyped
    <2>3. ScreenTyped'
      <3>1. Append(log, x) \in Seq(Entry)
        BY <1>1, PathTyped, SeqAppend
      <3>2. Append(rows, row) \in Seq(Rows) /\ <<>> \in Seq(Nat)
        BY SeqAppend, EmptySeq
      <3>3. screen' \in [rows : Seq(Rows), pending : Seq(Nat), received : BOOLEAN]
        BY <1>9, <3>2
      <3> QED BY <1>1, <1>10, <1>11, <1>12, <3>1, <3>3 DEF Typed, ScreenTyped
    <2> QED BY <2>1, <2>2, <2>3 DEF Typed
  <1>14. Owned' /\ Emission'
    BY <1>11 DEF IInv, Serving, Owned, Idle, Emission
  <1>15. Coming' = Coming /\ log \in Seq(Entry) /\ Coming \in Seq(Entry) /\ Passed \in Seq(Entry)
    BY <1>1, <1>11, PathTyped DEF Coming
  <1>16. Inserted(Passed', Passed, Len(log), x)
    <2>1. Inserted(Append(log, x) \o Coming, log \o Coming, Len(log), x)
      BY <1>15, InsertBetween
    <2> QED BY <1>11, <1>15, <2>1 DEF Passed
  <1>17. Flow'
    <2>1. InOrder(Passed', emitted)
      BY <1>1, <1>5, <1>16, InsertInOrder DEF Flow
    <2>2. ASSUME NEW r \in Runs, Watched(r)
          PROVE  InOrder(Path(r)', emitted) /\ \A i \in DOMAIN emitted[r] : Has(Path(r)', emitted[r][i])
      <3>1. PICK rest \in Seq(Entry) : rest = stream[r] \o events[r]
        BY <1>1, PathTyped
      <3>2. Append(log, x) \in Seq(Entry) /\ Coming \o rest \in Seq(Entry)
        BY <1>15, SeqAppend, SeqConcat
      <3>3. Path(r) = log \o (Coming \o rest)
        <4>1. (log \o Coming) \o rest = log \o (Coming \o rest)
          <5>1. log \in Seq(Entry) /\ Coming \in Seq(Entry) /\ rest \in Seq(Entry)
            BY <1>15
          <5>2. Assoc(log, Coming, rest)
            BY <5>1, EntriesInARow
          <5> QED BY <5>2 DEF Assoc
        <4> QED BY <3>1, <4>1 DEF Path, Passed
      <3>4. Path(r)' = Append(log, x) \o (Coming \o rest)
        <4>1. (Append(log, x) \o Coming) \o rest = Append(log, x) \o (Coming \o rest)
          <5>1. Append(log, x) \in Seq(Entry) /\ Coming \in Seq(Entry) /\ rest \in Seq(Entry)
            BY <1>15, <3>2
          <5>2. Assoc(Append(log, x), Coming, rest)
            BY <5>1, EntriesInARow
          <5> QED BY <5>2 DEF Assoc
        <4> QED BY <1>11, <1>15, <3>1, <4>1 DEF Path, Passed
      <3>5. Inserted(Append(log, x) \o (Coming \o rest), log \o (Coming \o rest), Len(log), x)
        BY <1>15, <3>2, InsertBetween
      <3>6. InOrder(Path(r), emitted) /\ \A i \in DOMAIN emitted[r] : Has(Path(r), emitted[r][i])
        BY <1>1, <2>2 DEF Flow
      <3>7. InOrder(Append(log, x) \o (Coming \o rest), emitted)
        BY <1>5, <3>3, <3>5, <3>6, InsertInOrder
      <3>8. \A i \in DOMAIN emitted[r] : Has(Append(log, x) \o (Coming \o rest), emitted[r][i])
        BY <3>3, <3>5, <3>6, InsertedHas
      <3> QED BY <3>4, <3>7, <3>8
    <2> QED BY <1>11, <2>1, <2>2 DEF Flow, Watched
  <1>18. \A k \in DOMAIN Passed : Passed[k].run <= inputs
    <2> SUFFICES ASSUME NEW k \in DOMAIN Passed PROVE Passed[k].run <= inputs
      OBVIOUS
    <2>1. Passed[k] \in Entry
      BY <1>15, SeqElement
    <2>2. Passed[k].run \in Nat
      BY <1>1, <2>1, ClientNats DEF Entry
    <2> QED BY <1>1, <1>3, <2>2 DEF Taken, TakenRuns
  <1>19. RunOrder(Passed)' /\ TakenRuns'
    <2>1. \A j \in DOMAIN Passed : IsEvent(Passed[j]) => Passed[j].run <= x.run
      <3> SUFFICES ASSUME NEW j \in DOMAIN Passed PROVE Passed[j].run <= c
        BY <1>5
      <3>1. Passed[j] \in Entry
        BY <1>15, SeqElement
      <3>2. Passed[j].run \in Nat
        BY <1>1, <3>1, ClientNats DEF Entry
      <3> QED BY <1>3, <1>18, <3>2
    <2>2. Fits(x)'
      BY <1>3, <1>5, <1>11 DEF Fits
    <2>3. current' = current /\ inputs' \in Nat /\ inputs <= inputs' /\ (busy' => busy)
      BY <1>3, <1>11
    <2> QED BY <1>1, <1>5, <1>16, <2>1, <2>2, <2>3, TakenGrows
  <1>20. /\ DOMAIN log = 1..Len(log) /\ Len(log) \in Nat /\ DOMAIN log' = 1..(Len(log) + 1)
         /\ log'[Len(log) + 1] = x /\ \A k \in DOMAIN log : log'[k] = log[k]
    BY <1>11, <1>15, SeqElement, SeqAppend
  <1>21. Submits'
    <2>1. ASSUME NEW j \in 1..(Len(log) + 1), NEW k \in 1..(Len(log) + 1), j < k, log'[k].kind = "submit"
          PROVE  log'[j].run <= log'[k].run
      <3>1. j \in DOMAIN log /\ log'[j] = log[j]
        BY <1>20, <2>1
      <3>2. CASE k = Len(log) + 1
        <4>1. j \in DOMAIN Passed /\ Passed[j] = log[j] /\ log[j] \in Entry
          BY <1>15, <3>1, SeqConcat, SeqElement DEF Passed
        <4>2. log[j].run \in Nat
          BY <1>1, <4>1, ClientNats DEF Entry
        <4>3. log[j].run <= inputs
          BY <1>18, <4>1
        <4>4. log'[k].run = c
          BY <1>5, <1>20, <3>2
        <4> QED BY <1>3, <3>1, <4>2, <4>3, <4>4
      <3>3. CASE k # Len(log) + 1
        <4>1. k \in DOMAIN log /\ log'[k] = log[k]
          BY <1>20, <3>3
        <4> QED BY <1>1, <2>1, <3>1, <4>1 DEF Taken, Submits
      <3> QED BY <3>2, <3>3
    <2> QED BY <1>20, <2>1 DEF Submits
  <1>22. \A e \in Event : e.run <= current /\ Never(e) => Never(e)'
    <2> SUFFICES ASSUME NEW e \in Event, Never(e) PROVE Never(e)'
      OBVIOUS
    <2>1. ~Has(Passed, e) /\ e # x /\ ~(busy /\ current = e.run)
      BY <1>5, NeverHas
    <2>2. ~Has(Passed', e)
      BY <1>16, <2>1, InsertedHas
    <2> QED BY <1>11, <2>1, <2>2 DEF Never, Passed, Coming, Has, ToSet
  <1>23. Shows'
    <2>1. Pending'
      BY <1>10, <1>12 DEF Pending, PendingOrder
    <2>2. CallRows' /\ Misplaced'
      BY <1>1, <1>7, <1>8, <1>10, <1>11, <1>22, AddedInPlace
    <2>3. Received'
      BY <1>10 DEF Received
    <2>4. Keeps(screen'.rows, screen.rows)
      BY <1>8, <1>10, RowAdded
    <2>5. \A e \in Event : Has(Coming, e) => Has(Coming', e) \/ x = e
      BY <1>15
    <2>6. TextsShown' /\ AnswerShown'
      BY <1>1, <1>5, <1>11, <1>22, <2>4, <2>5, LogGrows
    <2> QED BY <2>1, <2>2, <2>3, <2>6 DEF Shows
  <1> QED BY <1>13, <1>14, <1>17, <1>19, <1>21, <1>23 DEF IInv, Serving, Taken

\* An event that the client took comes once, behind what its run sent before it: the start of a
\* call before its end, and the ends of the calls before it earlier still.
LEMMA CallsPassed ==
    ASSUME Serving, NEW k \in DOMAIN Passed, IsEvent(Passed[k]), NEW r, r = Passed[k].run
    PROVE  /\ \A j \in 1..(k - 1) : Passed[j] # Passed[k]
           /\ Passed[k].kind = "end" =>
                 \E j \in 1..(k - 1) : Passed[j] = Ev("begin", r, Passed[k].n)
           /\ Passed[k].kind \in {"begin", "end"} =>
                 /\ Passed[k].n # 0
                 /\ \A m \in 1..(Passed[k].n - 1) : \E j \in 1..(k - 1) : Passed[j] = Ev("end", r, m)
  <1>1. PICK e : e = Passed[k]
    OBVIOUS
  <1>2. e \in Entry /\ r \in Runs
    <2>1. Passed \in Seq(Entry)
      BY PathTyped DEF Serving
    <2>2. e \in Entry
      BY <1>1, <2>1, SeqElement
    <2> QED BY <1>1, <2>2 DEF Entry
  <1>3. InOrder(Passed, emitted)
    BY DEF Serving, Flow
  <1>4. PICK i \in DOMAIN emitted[r] :
           emitted[r][i] = e /\ \A h \in 1..(i - 1) : \E j \in 1..(k - 1) : Passed[j] = emitted[r][h]
    BY <1>1, <1>3 DEF InOrder
  <1>5. \A j \in 1..(k - 1) : Passed[j] # e
    BY <1>1, <1>3 DEF InOrder
  <1>6. PICK sent : sent = emitted[r]
    OBVIOUS
  <1>7. CallOrder(r, sent)
    BY <1>2, <1>6 DEF Serving, Emission, Sent
  <1>8. /\ e.kind = "end" => \E j \in 1..(i - 1) : sent[j] = Ev("begin", r, e.n)
        /\ e.kind \in {"begin", "end"} =>
              /\ e.n # 0
              /\ \A m \in 1..(e.n - 1) : \E j \in 1..(i - 1) : sent[j] = Ev("end", r, m)
    BY <1>4, <1>6, <1>7 DEF CallOrder
  <1>9. \A h \in 1..(i - 1) : \E j \in 1..(k - 1) : Passed[j] = sent[h]
    BY <1>4, <1>6
  <1>10. ASSUME e.kind = "end" PROVE \E j \in 1..(k - 1) : Passed[j] = Ev("begin", r, e.n)
    <2>1. PICK h \in 1..(i - 1) : sent[h] = Ev("begin", r, e.n)
      BY <1>8, <1>10
    <2> QED BY <1>9, <2>1
  <1>11. ASSUME e.kind \in {"begin", "end"}, NEW m \in 1..(e.n - 1)
         PROVE  \E j \in 1..(k - 1) : Passed[j] = Ev("end", r, m)
    <2>1. PICK h \in 1..(i - 1) : sent[h] = Ev("end", r, m)
      BY <1>8, <1>11
    <2> QED BY <1>9, <2>1
  <1> QED BY <1>1, <1>5, <1>8, <1>10, <1>11

Handled(e) ==
    /\ external # <<>> /\ e = Head(external) /\ external' = Tail(external)
    /\ log' = Append(log, e)
    /\ UNCHANGED <<approval, events, emitted, stream, clientVars, quit, faults>>

\* The terminal takes the first entry: nothing moves in what the client took.
LEMMA HandledFlow ==
    ASSUME Serving, Taken, NEW e \in Event \cup Result, Handled(e)
    PROVE  /\ e \in Entry /\ e.kind # "submit"
           /\ Passed' = Passed /\ \A r : Path(r)' = Path(r)
           /\ DOMAIN log = 1..Len(log) /\ Len(log) \in Nat
           /\ Len(log) + 1 \in DOMAIN Passed /\ Passed[Len(log) + 1] = e
           /\ \A i \in DOMAIN log : i \in DOMAIN Passed /\ Passed[i] = log[i]
           /\ DOMAIN log' = 1..(Len(log) + 1) /\ log'[Len(log) + 1] = e
           /\ \A i \in DOMAIN log : log'[i] = log[i]
           /\ \A y : Never(y) <=> Never(y)'
           /\ \A y \in Event : Has(Coming, y) => Has(Coming', y) \/ e = y
           /\ \A y : Has(log', y) <=> Has(log, y) \/ e = y
           /\ external' \in Seq(Event \cup Result) /\ log' \in Seq(Entry)
           /\ Taken'
  <1>1. Typed
    BY DEF Serving
  <1>2. /\ log \in Seq(Entry) /\ external \in Seq(Entry) /\ ctl \in Seq(Entry)
        /\ Coming \in Seq(Entry) /\ Passed \in Seq(Entry)
    BY <1>1, PathTyped
  <1>3. e \in Entry /\ e.kind # "submit"
    BY EventsAreEntries DEF Event, Result
  <1>4. /\ external # <<>> /\ e = Head(external) /\ external' = Tail(external)
        /\ log' = Append(log, e) /\ ctl' = ctl /\ stream' = stream /\ events' = events
        /\ busy' = busy /\ current' = current /\ inputs' = inputs
    BY DEF Handled, clientVars
  <1>5. PICK rest \in Seq(Entry) : rest = Tail(external)
    BY <1>2, <1>4, SeqTail
  <1>6. PICK new \in Seq(Entry) : new = Append(log, e)
    BY <1>2, <1>3, SeqAppend
  <1>7. new \o rest = log \o external
    BY <1>2, <1>4, <1>5, <1>6, MoveHead
  <1>8. Passed' = Passed
    <2>2. Passed' = new \o (rest \o ctl)
      BY <1>4, <1>5, <1>6 DEF Passed, Coming
    <2>3. (new \o rest) \o ctl = new \o (rest \o ctl)
      <3>1. new \in Seq(Entry) /\ rest \in Seq(Entry) /\ ctl \in Seq(Entry)
        BY <1>2, <1>5, <1>6
      <3>2. Assoc(new, rest, ctl)
        BY <3>1, EntriesInARow
      <3> QED BY <3>2 DEF Assoc
    <2>4. (log \o external) \o ctl = log \o (external \o ctl)
      <3>1. log \in Seq(Entry) /\ external \in Seq(Entry) /\ ctl \in Seq(Entry)
        BY <1>2
      <3>2. Assoc(log, external, ctl)
        BY <3>1, EntriesInARow
      <3> QED BY <3>2 DEF Assoc
    <2> QED BY <1>7, <2>2, <2>3, <2>4 DEF Passed, Coming
  <1>9. \A r : Path(r)' = Path(r)
    BY <1>4, <1>8 DEF Path
  <1>10. /\ DOMAIN log = 1..Len(log) /\ Len(log) \in Nat
         /\ DOMAIN log' = 1..(Len(log) + 1) /\ log'[Len(log) + 1] = e
         /\ \A i \in DOMAIN log : log'[i] = log[i]
    BY <1>2, <1>3, <1>4, SeqElement, SeqAppend
  <1>11. \A i \in DOMAIN log : i \in DOMAIN Passed /\ Passed[i] = log[i]
    BY <1>2, SeqConcat, SeqElement DEF Passed
  <1>12. Len(log) + 1 \in DOMAIN Passed /\ Passed[Len(log) + 1] = e
    <2>1. DOMAIN new = 1..(Len(log) + 1) /\ new[Len(log) + 1] = e
      BY <1>4, <1>6, <1>10
    <2>2. rest \o ctl \in Seq(Entry)
      BY <1>2, SeqConcat
    <2>3. \A i \in DOMAIN new : i \in DOMAIN (new \o (rest \o ctl)) /\ (new \o (rest \o ctl))[i] = new[i]
      BY <2>2, SeqConcat, SeqElement
    <2>4. new \o (rest \o ctl) = Passed
      BY <1>4, <1>5, <1>6, <1>8 DEF Passed, Coming
    <2> QED BY <1>10, <2>1, <2>3, <2>4
  <1>13. ASSUME NEW y PROVE Never(y) <=> Never(y)'
    BY <1>4, <1>8 DEF Never, Passed
  <1>14. ASSUME NEW y \in Event, Has(Coming, y) PROVE Has(Coming', y) \/ e = y
    <2>1. Has(external, y) \/ Has(ctl, y)
      BY <1>2, <1>14, ConcatHas DEF Coming
    <2>2. Has(rest \o ctl, y) <=> Has(rest, y) \/ Has(ctl, y)
      BY <1>2, ConcatHas
    <2>3. ASSUME Has(external, y) PROVE Has(rest, y) \/ e = y
      <3>1. PICK i \in DOMAIN external : external[i] = y
        BY <2>3 DEF Has
      <3>2. CASE i = 1
        BY <1>2, <1>4, <3>1, <3>2, SeqTail
      <3>3. CASE i # 1
        <4>1. i - 1 \in DOMAIN rest /\ rest[i - 1] = external[(i - 1) + 1]
          BY <1>2, <1>4, <1>5, <3>3, SeqTail, SeqElement
        <4>2. (i - 1) + 1 = i
          BY <1>2, SeqElement
        <4> QED BY <3>1, <4>1, <4>2 DEF Has
      <3> QED BY <3>2, <3>3
    <2> QED BY <1>4, <1>5, <2>1, <2>2, <2>3 DEF Coming
  <1>15. \A y : Has(log', y) <=> Has(log, y) \/ e = y
    BY <1>2, <1>3, <1>4, AppendHas
  <1>16. external' \in Seq(Event \cup Result) /\ log' \in Seq(Entry)
    <2>1. external \in Seq(Event \cup Result)
      BY <1>1 DEF Typed, ScreenTyped
    <2> QED BY <1>4, <1>6, <2>1, SeqTail
  <1>17. Taken'
    <2>1. RunOrder(Passed)'
      BY <1>8 DEF Taken, RunOrder
    <2>2. TakenRuns'
      BY <1>4, <1>8 DEF Taken, TakenRuns
    <2>3. ASSUME NEW j \in 1..(Len(log) + 1), NEW k \in 1..(Len(log) + 1), j < k, log'[k].kind = "submit"
          PROVE  log'[j].run <= log'[k].run
      <3>1. k # Len(log) + 1
        BY <1>3, <1>10, <2>3
      <3>2. j \in DOMAIN log /\ k \in DOMAIN log /\ log'[j] = log[j] /\ log'[k] = log[k]
        BY <1>10, <2>3, <3>1
      <3> QED BY <2>3, <3>2 DEF Taken, Submits
    <2>4. Submits'
      BY <1>10, <2>3 DEF Submits
    <2> QED BY <2>1, <2>2, <2>4 DEF Taken
  <1> QED BY <1>3, <1>8, <1>9, <1>10, <1>11, <1>12, <1>13, <1>14, <1>15, <1>16, <1>17

\* No input comes below a pending row: what puts an end into this row too early does so with
\* the rows below it.
LEMMA ShiftedBelow ==
    ASSUME Typed, NEW i \in DOMAIN screen.rows, NEW j \in DOMAIN screen.rows, i <= j,
           PendingRow(i), Shifted(i)
    PROVE  Shifted(j)
  <1>1. PICK rows \in Seq(Rows) : rows = screen.rows
    BY DEF Typed, ScreenTyped
  <1>2. PICK n \in Nat : DOMAIN rows = 1..n
    BY SeqElement
  <1>3. PICK h \in 1..i : CutOff(h) /\ \A k \in h..i : rows[k].what # "user"
    BY <1>1 DEF Shifted
  <1>4. ASSUME NEW k \in h..j PROVE rows[k].what # "user"
    <2>1. i \in 1..n /\ j \in 1..n
      BY <1>1, <1>2
    <2>2. CASE k <= i
      BY <1>3, <2>1, <2>2
    <2>3. CASE k > i
      <3>1. k \in DOMAIN rows /\ k >= i
        BY <1>2, <2>1, <2>3
      <3> QED BY <1>1, <3>1 DEF PendingRow
    <2> QED BY <2>1, <2>2, <2>3
  <1>5. h \in 1..j
    BY <1>1, <1>2
  <1> QED BY <1>1, <1>3, <1>4, <1>5 DEF Shifted

\* The end of another call than that of the row: the end of the row's own call was cut off, or
\* came before.
LEMMA OtherEnd ==
    ASSUME Serving, Taken, NEW e \in Event, Handled(e), e.kind = "end",
           NEW i \in DOMAIN screen.rows, PendingRow(i),
           <<screen.rows[i].run, screen.rows[i].n>> # <<e.run, e.n>>
    PROVE  Shifted(i)
  <1>1. PICK row \in Rows : row = screen.rows[i]
    BY RowTyped DEF Serving
  <1>2. row.what = "call" /\ Has(log, Ev("begin", row.run, row.n))
    BY <1>1 DEF PendingRow
  <1>3. row.run \in Runs /\ row.n \in Nat /\ row.run \in Nat /\ e.run \in Runs /\ e.run \in Nat /\ e.n \in Nat
    BY <1>1, ClientNats DEF Rows, Event, Serving
  <1>4. PICK b \in Event : /\ b = Ev("begin", row.run, row.n) /\ IsEvent(b)
                           /\ b.kind = "begin" /\ b.run = row.run /\ b.n = row.n
    BY <1>3, EvEvent
  <1>5. PICK f \in Event : /\ f = Ev("end", row.run, row.n) /\ IsEvent(f)
                           /\ f.kind = "end" /\ f.run = row.run /\ f.n = row.n
    BY <1>3, EvEvent
  <1>6. PICK m \in Nat : m = Len(log) /\ DOMAIN log = 1..m
    BY HandledFlow
  <1>7. /\ m + 1 \in DOMAIN Passed /\ Passed[m + 1] = e /\ IsEvent(e)
        /\ \A j \in 1..m : j \in DOMAIN Passed /\ Passed[j] = log[j]
    BY <1>6, HandledFlow, EventsAreEntries
  <1>8. PICK k \in 1..m : Passed[k] = b /\ k \in DOMAIN Passed
    BY <1>2, <1>4, <1>6, <1>7 DEF Has
  <1>9. CASE Has(log, f)
    BY <1>1, <1>5, <1>9 DEF PendingRow
  <1>10. CASE ~Has(log, f)
    <2>1. \A j \in 1..m : Passed[j] # f
      BY <1>6, <1>7, <1>10 DEF Has
    <2>2. row.run <= e.run
      <3>1. k < m + 1
        OBVIOUS
      <3> QED BY <1>4, <1>7, <1>8, <3>1 DEF Taken, RunOrder
    <2>3. CASE row.run = e.run
      <3>1. e = Ev("end", row.run, e.n)
        BY <2>3 DEF Event, Ev
      <3>2. CASE row.n < e.n
        <4>1. \A h \in 1..(e.n - 1) : \E j \in 1..((m + 1) - 1) : Passed[j] = Ev("end", row.run, h)
          BY <1>7, <2>3, CallsPassed
        <4>2. b.n # 0
          BY <1>4, <1>8, CallsPassed
        <4>3. row.n \in 1..(e.n - 1) /\ (m + 1) - 1 = m
          BY <1>3, <1>4, <3>2, <4>2
        <4> QED BY <1>5, <2>1, <4>1, <4>3
      <3>3. CASE row.n > e.n
        <4>1. \A h \in 1..(row.n - 1) : \E j \in 1..(k - 1) : Passed[j] = Ev("end", row.run, h)
          BY <1>4, <1>8, CallsPassed
        <4>2. e.n # 0
          BY <1>7, CallsPassed
        <4>3. e.n \in 1..(row.n - 1)
          BY <1>3, <3>3, <4>2
        <4>4. PICK j \in 1..(k - 1) : Passed[j] = e
          BY <3>1, <4>1, <4>3
        <4>5. j \in 1..((m + 1) - 1)
          OBVIOUS
        <4>6. \A l \in 1..((m + 1) - 1) : Passed[l] # e
          BY <1>7, CallsPassed
        <4> QED BY <4>4, <4>5, <4>6
      <3>4. row.n # e.n
        BY <1>1, <2>3
      <3> QED BY <1>3, <3>2, <3>3, <3>4
    <2>4. CASE row.run < e.run
      <3>1. e.run <= current
        BY <1>7 DEF Taken, TakenRuns, IsEvent
      <3>2. ~(busy /\ current = f.run)
        BY <1>3, <1>5, <2>4, <3>1
      <3>3. ASSUME NEW j \in DOMAIN Passed, Passed[j] = f PROVE FALSE
        <4>1. j \in Nat /\ j > m
          <5>1. DOMAIN Passed = 1..Len(Passed) /\ Len(Passed) \in Nat
            BY PathTyped, SeqElement DEF Serving
          <5> QED BY <2>1, <3>3, <5>1
        <4>2. CASE j = m + 1
          BY <1>3, <1>5, <1>7, <2>4, <3>3, <4>2
        <4>3. CASE j > m + 1
          <5>1. e.run <= f.run
            BY <1>7, <3>3, <4>3 DEF Taken, RunOrder
          <5> QED BY <1>3, <1>5, <2>4, <5>1
        <4> QED BY <4>1, <4>2, <4>3
      <3>4. Never(f)
        BY <3>2, <3>3, NeverHas DEF Has
      <3>5. CutOff(i)
        BY <1>1, <1>2, <1>5, <3>4 DEF CutOff
      <3>6. i \in 1..i /\ \A l \in i..i : l = i
        BY SeqElement DEF Serving, Typed, ScreenTyped
      <3> QED BY <1>1, <1>2, <3>5, <3>6 DEF Shifted
    <2> QED BY <1>3, <2>2, <2>3, <2>4
  <1> QED BY <1>9, <1>10

LEMMA CutOffsStay ==
    ASSUME Serving, Taken, Shows, NEW e \in Event \cup Result, Handled(e),
           Keeps(screen'.rows, screen.rows), NEW i \in DOMAIN screen.rows, Shifted(i)
    PROVE  Shifted(i)'
  <1>1. \A y \in Event : y.run <= current /\ Never(y) => Never(y)'
    BY HandledFlow
  <1> QED BY <1>1, ShiftedStays DEF Serving

LEMMA PendingRowStays ==
    ASSUME Serving, Taken, Shows, NEW e \in Event \cup Result, Handled(e),
           Keeps(screen'.rows, screen.rows), NEW i \in DOMAIN screen.rows, PendingRow(i),
           \A k \in DOMAIN screen'.rows : k \in DOMAIN screen.rows \/ screen'.rows[k].what # "user",
           e = Ev("end", screen.rows[i].run, screen.rows[i].n) => Shifted(i)
    PROVE  PendingRow(i)'
  <1>1. PICK row : row = screen.rows[i]
    OBVIOUS
  <1>2. /\ screen'.rows[i].what = row.what /\ screen'.rows[i].run = row.run
        /\ screen'.rows[i].n = row.n
    BY <1>1 DEF Keeps
  <1>3. row.what = "call" /\ Has(log, Ev("begin", row.run, row.n))
    BY <1>1 DEF PendingRow
  <1>4. ASSUME NEW k \in DOMAIN screen'.rows, k >= i PROVE screen'.rows[k].what # "user"
    BY <1>4 DEF PendingRow, Keeps
  <1>5. Has(log', Ev("begin", row.run, row.n))
    BY <1>3, HandledFlow
  <1>6. ASSUME Has(log', Ev("end", row.run, row.n)) PROVE Shifted(i)'
    <2>1. Has(log, Ev("end", row.run, row.n)) \/ e = Ev("end", row.run, row.n)
      BY <1>6, HandledFlow
    <2>2. Shifted(i)
      BY <1>1, <2>1 DEF PendingRow
    <2> QED BY <2>2, CutOffsStay
  <1> QED BY <1>2, <1>3, <1>4, <1>5, <1>6 DEF PendingRow

\* What remains when the rows are as they should be.
LEMMA HandledShows ==
    ASSUME Serving, Taken, Shows, NEW e \in Event \cup Result, Handled(e),
           Keeps(screen'.rows, screen.rows),
           e.kind = "text" => Has(screen'.rows, Text(e)),
           e.kind = "result" => Has(screen'.rows, Text(e)) \/ screen.received,
           screen'.received => screen.received \/ e.kind = "text",
           Pending', CallRows', Misplaced'
    PROVE  Shows'
  <1>1. /\ e \in Entry /\ e.kind # "submit" /\ log' = Append(log, e)
        /\ DOMAIN log = 1..Len(log) /\ Len(log) \in Nat
        /\ DOMAIN log' = 1..(Len(log) + 1) /\ log'[Len(log) + 1] = e
        /\ \A i \in DOMAIN log : log'[i] = log[i]
    BY HandledFlow DEF Handled
  <1>2. \A y \in Event : y.run <= current /\ Never(y) => Never(y)'
    BY HandledFlow
  <1>3. \A y \in Event : Has(Coming, y) => Has(Coming', y) \/ e = y
    BY HandledFlow
  <1>4. Has(Passed, e)
    BY HandledFlow DEF Has
  <1>5. TextsShown' /\ AnswerShown'
    BY <1>1, <1>2, <1>3, <1>4, LogGrows DEF Serving
  <1>6. Received'
    <2> SUFFICES ASSUME screen'.received
                 PROVE  \E j \in 1..(Len(log) + 1) :
                            /\ log'[j].kind = "text"
                            /\ \A i \in 1..(Len(log) + 1) : i >= j => log'[i].kind # "submit"
      BY <1>1 DEF Received
    <2>1. CASE e.kind = "text"
      <3>1. Len(log) + 1 \in 1..(Len(log) + 1)
        BY <1>1
      <3>2. \A i \in 1..(Len(log) + 1) : i >= Len(log) + 1 => i = Len(log) + 1
        BY <1>1
      <3> QED BY <1>1, <2>1, <3>1, <3>2
    <2>2. CASE screen.received
      <3>1. PICK j \in DOMAIN log : /\ log[j].kind = "text"
                                    /\ \A i \in DOMAIN log : i >= j => log[i].kind # "submit"
        BY <2>2 DEF Shows, Received
      <3>2. j \in 1..(Len(log) + 1) /\ log'[j].kind = "text"
        BY <1>1, <3>1
      <3>3. ASSUME NEW i \in 1..(Len(log) + 1), i >= j PROVE log'[i].kind # "submit"
        <4>1. CASE i = Len(log) + 1
          BY <1>1, <4>1
        <4>2. CASE i # Len(log) + 1
          <5>1. i \in DOMAIN log
            BY <1>1, <4>2
          <5> QED BY <1>1, <3>1, <3>3, <5>1
        <4> QED BY <4>1, <4>2
      <3> QED BY <3>2, <3>3
    <2> QED BY <2>1, <2>2
  <1> QED BY <1>5, <1>6 DEF Shows

\* A row is added, and nothing is pending that was not before.
LEMMA RowShown ==
    ASSUME Serving, Taken, Shows, NEW e \in Event \cup Result, Handled(e), NEW row \in Rows,
           screen'.rows = Append(screen.rows, row), screen'.pending = screen.pending,
           row.what # "user", row.what = "call" => row.run <= current,
           row.trace \in {<<>>, <<row.run, row.n>>},
           e.kind = "end" => screen.pending = <<>>,
           e.kind \in {"text", "result"} => row = Text(e),
           screen'.received => screen.received \/ e.kind = "text"
    PROVE  Shows'
  <1>1. PICK rows \in Seq(Rows) : rows = screen.rows
    BY DEF Serving, Typed, ScreenTyped
  <1>2. PICK new : new = screen'.rows
    OBVIOUS
  <1>3. /\ Keeps(new, rows) /\ Has(new, row)
        /\ Len(rows) \in Nat /\ DOMAIN rows = 1..Len(rows) /\ DOMAIN new = 1..(Len(rows) + 1)
        /\ \A i \in DOMAIN rows : new[i] = rows[i]
        /\ new[Len(rows) + 1] = row
    BY <1>1, <1>2, RowAdded
  <1>4. \A y \in Event : y.run <= current /\ Never(y) => Never(y)'
    BY HandledFlow
  <1>5. CallRows' /\ Misplaced'
    BY <1>4, AddedInPlace DEF Serving, Handled, clientVars
  <1>6. Pending'
    <2>1. ASSUME NEW p \in DOMAIN screen.pending PROVE PendingRow(screen.pending[p])'
      <3>1. PICK i : i = screen.pending[p] /\ i \in DOMAIN rows
        BY <1>1 DEF Serving, Typed, ScreenTyped
      <3>2. PendingRow(i)
        BY <3>1 DEF Shows, Pending
      <3>3. e.kind # "end"
        BY EmptySeq, SeqElement
      <3>4. e # Ev("end", rows[i].run, rows[i].n)
        BY <3>3 DEF Ev
      <3>5. ASSUME NEW k \in DOMAIN new PROVE k \in DOMAIN rows \/ new[k].what # "user"
        <4>1. k = Len(rows) + 1 \/ k \in DOMAIN rows
          BY <1>3
        <4> QED BY <1>3, <4>1
      <3>6. PendingRow(i)'
        BY <1>1, <1>2, <1>3, <3>1, <3>2, <3>4, <3>5, PendingRowStays
      <3> QED BY <3>1, <3>6
    <2>2. \A p \in DOMAIN screen.pending : screen.pending[p] \in DOMAIN rows
      BY <1>1 DEF Serving, Typed, ScreenTyped
    <2>3. PendingOrder(rows, screen.pending)
      BY <1>1 DEF Shows, Pending
    <2>4. PendingOrder(new, screen.pending)
      BY <1>3, <2>2, <2>3 DEF PendingOrder
    <2> QED BY <1>2, <2>1, <2>4 DEF Pending
  <1> QED BY <1>1, <1>2, <1>3, <1>5, <1>6, HandledShows

LEMMA BeginIsNew ==
    ASSUME Serving, Taken, NEW e \in Event, Handled(e), e.kind = "begin"
    PROVE  ~Has(log, e) /\ ~Has(log', Ev("end", e.run, e.n))
  <1>1. PICK m \in Nat : m = Len(log) /\ DOMAIN log = 1..m
    BY HandledFlow
  <1>2. /\ m + 1 \in DOMAIN Passed /\ Passed[m + 1] = e /\ IsEvent(e)
        /\ \A j \in 1..m : j \in DOMAIN Passed /\ Passed[j] = log[j]
    BY <1>1, HandledFlow, EventsAreEntries
  <1>3. \A j \in 1..m : Passed[j] # e
    <2>1. \A j \in 1..((m + 1) - 1) : Passed[j] # e
      BY <1>2, CallsPassed
    <2>2. (m + 1) - 1 = m
      OBVIOUS
    <2> QED BY <2>1, <2>2
  <1>4. ~Has(log, e)
    BY <1>1, <1>2, <1>3 DEF Has
  <1>5. PICK f \in Event : /\ f = Ev("end", e.run, e.n) /\ IsEvent(f)
                           /\ f.kind = "end" /\ f.run = e.run /\ f.n = e.n
    BY EvEvent DEF Event
  <1>6. e = Ev("begin", f.run, f.n)
    BY <1>5 DEF Event, Ev
  <1>7. ASSUME NEW k \in 1..m, log[k] = f PROVE FALSE
    <2>1. k \in DOMAIN Passed /\ Passed[k] = f
      BY <1>2, <1>7
    <2>2. PICK j \in 1..(k - 1) : Passed[j] = Ev("begin", f.run, f.n)
      BY <1>5, <2>1, CallsPassed
    <2>3. j \in 1..m
      OBVIOUS
    <2> QED BY <1>3, <1>6, <2>2, <2>3
  <1>8. ~Has(log, f) /\ e # f
    BY <1>1, <1>5, <1>7 DEF Has
  <1>9. ~Has(log', f)
    BY <1>8, HandledFlow
  <1> QED BY <1>4, <1>5, <1>9

\* A call begins: its row is pending, below the others.
LEMMA BeginShown ==
    ASSUME Serving, Taken, Shows, NEW e \in Event, Handled(e), e.kind = "begin",
           screen'.rows = Append(screen.rows, Running(e)),
           screen'.pending = Append(screen.pending, Len(screen.rows) + 1),
           screen'.received = screen.received
    PROVE  Shows'
  <1>1. PICK rows \in Seq(Rows) : rows = screen.rows
    BY DEF Serving, Typed, ScreenTyped
  <1>2. PICK new : new = screen'.rows
    OBVIOUS
  <1>3. PICK row \in Rows : row = Running(e)
    BY DEF Running, Rows, Event
  <1>4. row.what = "call" /\ row.run = e.run /\ row.n = e.n /\ row.trace = <<>>
    BY <1>3 DEF Running
  <1>5. /\ Keeps(new, rows) /\ Has(new, row)
        /\ Len(rows) \in Nat /\ DOMAIN rows = 1..Len(rows) /\ DOMAIN new = 1..(Len(rows) + 1)
        /\ \A i \in DOMAIN rows : new[i] = rows[i]
        /\ new[Len(rows) + 1] = row
    BY <1>1, <1>2, <1>3, RowAdded
  <1>6. \A y \in Event : y.run <= current /\ Never(y) => Never(y)'
    BY HandledFlow
  <1>7. CallRows' /\ Misplaced'
    <2>1. e.run <= current
      BY HandledFlow DEF Taken, TakenRuns
    <2> QED BY <1>3, <1>4, <1>6, <2>1, AddedInPlace DEF Serving, Handled, clientVars
  <1>8. PICK last \in Nat : last = Len(rows) + 1
    BY <1>5
  <1>9. PICK old \in Seq(Nat) : old = screen.pending
    BY DEF Serving, Typed, ScreenTyped
  <1>10. PICK pending : pending = screen'.pending
    OBVIOUS
  <1>11. /\ Len(old) \in Nat /\ DOMAIN old = 1..Len(old) /\ DOMAIN pending = 1..(Len(old) + 1)
         /\ \A p \in DOMAIN old : pending[p] = old[p]
         /\ pending[Len(old) + 1] = last
    <2>1. pending = Append(old, last)
      BY <1>1, <1>8, <1>9, <1>10
    <2> QED BY <2>1, SeqAppend, SeqElement
  <1>12. \A p \in DOMAIN old : old[p] \in DOMAIN rows /\ PendingRow(old[p])
    BY <1>1, <1>9 DEF Serving, Typed, ScreenTyped, Shows, Pending
  <1>13. ~Has(log, e) /\ ~Has(log', Ev("end", e.run, e.n))
    BY BeginIsNew
  <1>14. e = Ev("begin", e.run, e.n)
    BY DEF Event, Ev
  <1>15. ASSUME NEW i \in DOMAIN rows, PendingRow(i) PROVE PendingRow(i)'
    <2>1. e # Ev("end", rows[i].run, rows[i].n)
      BY DEF Ev
    <2>2. ASSUME NEW k \in DOMAIN new PROVE k \in DOMAIN rows \/ new[k].what # "user"
      <3>1. k = Len(rows) + 1 \/ k \in DOMAIN rows
        BY <1>5
      <3> QED BY <1>4, <1>5, <3>1
    <2> QED BY <1>1, <1>2, <1>5, <1>15, <2>1, <2>2, PendingRowStays
  <1>16. PendingRow(last)'
    <2>1. new[last] = row /\ \A k \in DOMAIN new : k >= last => k = last
      BY <1>5, <1>8
    <2>2. Has(log', e)
      BY HandledFlow
    <2> QED BY <1>2, <1>4, <1>13, <1>14, <2>1, <2>2 DEF PendingRow
  <1>17. Pending'
    <2>1. ASSUME NEW p \in DOMAIN pending PROVE PendingRow(pending[p])'
      <3>1. CASE p \in DOMAIN old
        <4>1. PICK i : i = old[p]
          OBVIOUS
        <4>2. PendingRow(i)'
          BY <1>12, <1>15, <3>1, <4>1
        <4> QED BY <1>11, <3>1, <4>1, <4>2
      <3>2. CASE p \notin DOMAIN old
        <4>1. pending[p] = last
          BY <1>11, <3>2
        <4> QED BY <1>16, <4>1
      <3> QED BY <3>1, <3>2
    <2>2. PendingOrder(rows, old)
      BY <1>1, <1>9 DEF Shows, Pending
    <2>3. ASSUME NEW p \in DOMAIN pending, NEW q \in DOMAIN pending, p < q
          PROVE  /\ pending[p] < pending[q]
                 /\ <<new[pending[p]].run, new[pending[p]].n>>
                       # <<new[pending[q]].run, new[pending[q]].n>>
      <3>1. p \in DOMAIN old /\ pending[p] = old[p]
        BY <1>11, <2>3
      <3>2. PICK i \in DOMAIN rows : i = old[p] /\ PendingRow(i) /\ new[i] = rows[i]
        BY <1>5, <1>12, <3>1
      <3>3. CASE q \in DOMAIN old
        <4>1. PICK j \in DOMAIN rows : j = old[q] /\ pending[q] = j /\ new[j] = rows[j]
          BY <1>5, <1>11, <1>12, <3>3
        <4>2. i < j /\ <<rows[i].run, rows[i].n>> # <<rows[j].run, rows[j].n>>
          <5>1. q \in DOMAIN old /\ p \in DOMAIN old /\ p < q
            BY <2>3, <3>1, <3>3
          <5>2. /\ old[p] < old[q]
                /\ <<rows[old[p]].run, rows[old[p]].n>> # <<rows[old[q]].run, rows[old[q]].n>>
            BY <2>2, <5>1 DEF PendingOrder
          <5> QED BY <3>2, <4>1, <5>2
        <4> QED BY <3>1, <3>2, <4>1, <4>2
      <3>4. CASE q \notin DOMAIN old
        <4>1. pending[q] = last /\ new[last] = row
          BY <1>5, <1>8, <1>11, <3>4
        <4>2. i < last
          BY <1>5, <1>8
        <4>3. Has(log, Ev("begin", rows[i].run, rows[i].n))
          BY <1>1, <3>2 DEF PendingRow
        <4>4. <<rows[i].run, rows[i].n>> # <<e.run, e.n>>
          BY <1>13, <1>14, <4>3
        <4> QED BY <1>4, <3>1, <3>2, <4>1, <4>2, <4>4
      <3> QED BY <3>3, <3>4
    <2>4. PendingOrder(new, pending)
      BY <2>3 DEF PendingOrder
    <2> QED BY <1>2, <1>10, <2>1, <2>4 DEF Pending
  <1>18. e.kind # "text" /\ e.kind # "result"
    OBVIOUS
  <1> QED BY <1>1, <1>2, <1>5, <1>7, <1>17, <1>18, HandledShows

\* A call ends: the highest pending row gets its result.
LEMMA EndShown ==
    ASSUME Serving, Taken, Shows, NEW e \in Event, Handled(e), e.kind = "end",
           screen.pending # <<>>,
           screen'.rows = [screen.rows EXCEPT ![Head(screen.pending)].trace = <<e.run, e.n>>],
           screen'.pending = Tail(screen.pending),
           screen'.received = screen.received
    PROVE  Shows'
  <1>1. PICK rows \in Seq(Rows) : rows = screen.rows
    BY DEF Serving, Typed, ScreenTyped
  <1>2. PICK new : new = screen'.rows
    OBVIOUS
  <1>3. PICK old \in Seq(Nat) : old = screen.pending
    BY DEF Serving, Typed, ScreenTyped
  <1>4. PICK pending : pending = screen'.pending
    OBVIOUS
  <1>5. PICK h \in Nat : h = Head(old) /\ h = old[1]
    BY <1>3, SeqTail
  <1>6. /\ Len(old) \in Nat /\ DOMAIN old = 1..Len(old) /\ DOMAIN pending = 1..(Len(old) - 1)
        /\ Len(old) > 0 /\ \A p \in DOMAIN pending : pending[p] = old[p + 1]
    BY <1>3, <1>4, SeqTail, SeqElement
  <1>7. \A p \in DOMAIN old : old[p] \in DOMAIN rows /\ PendingRow(old[p])
    BY <1>1, <1>3 DEF Serving, Typed, ScreenTyped, Shows, Pending
  <1>8. PendingOrder(rows, old)
    BY <1>1, <1>3 DEF Shows, Pending
  <1>9. h \in DOMAIN rows /\ PendingRow(h)
    BY <1>5, <1>6, <1>7
  <1>10. Len(rows) \in Nat /\ DOMAIN rows = 1..Len(rows) /\ \A i \in DOMAIN rows : rows[i] \in Rows
    BY SeqElement
  <1>11. PICK trace : trace = <<e.run, e.n>>
    OBVIOUS
  <1>12. new = [rows EXCEPT ![h].trace = trace]
    BY <1>1, <1>2, <1>3, <1>5, <1>11
  <1>13. /\ DOMAIN new = DOMAIN rows
         /\ \A i \in DOMAIN rows : /\ new[i].what = rows[i].what /\ new[i].run = rows[i].run
                                   /\ new[i].n = rows[i].n /\ (i # h => new[i] = rows[i])
         /\ new[h].trace = trace
    BY <1>9, <1>10, <1>12 DEF Rows
  <1>14. rows[h].what = "call"
    BY <1>1, <1>9 DEF PendingRow
  <1>15. Keeps(new, rows)
    <2>1. ASSUME NEW i \in DOMAIN rows, rows[i].what # "call" PROVE new[i] = rows[i]
      <3>1. i # h
        BY <1>14, <2>1
      <3> QED BY <1>13, <3>1
    <2> QED BY <1>13, <2>1 DEF Keeps
  <1>16. ASSUME NEW i \in DOMAIN rows, Shifted(i) PROVE Shifted(i)'
    BY <1>1, <1>2, <1>15, <1>16, CutOffsStay
  <1>17. \/ <<rows[h].run, rows[h].n>> = trace
         \/ Shifted(h)
    BY <1>1, <1>9, <1>11, OtherEnd
  <1>18. CallRows'
    <2>1. current' = current
      BY DEF Handled, clientVars
    <2>2. \A i \in DOMAIN new : new[i].what = "call" => new[i].run <= current
      BY <1>1, <1>13 DEF Shows, CallRows
    <2> QED BY <1>2, <2>1, <2>2 DEF CallRows
  <1>19. Misplaced'
    <2>1. ASSUME NEW i \in DOMAIN new, new[i].trace \notin {<<>>, <<new[i].run, new[i].n>>}
          PROVE  Shifted(i)'
      <3>1. CASE i = h
        <4>1. Shifted(h)
          BY <1>9, <1>13, <1>17, <2>1, <3>1
        <4> QED BY <1>9, <1>16, <3>1, <4>1
      <3>2. CASE i # h
        <4>1. i \in DOMAIN rows /\ new[i] = rows[i]
          BY <1>13, <3>2
        <4>2. Shifted(i)
          BY <1>1, <2>1, <4>1 DEF Shows, Misplaced
        <4> QED BY <1>16, <4>1, <4>2
      <3> QED BY <3>1, <3>2
    <2> QED BY <1>2, <2>1 DEF Misplaced
  <1>20. ASSUME NEW p \in DOMAIN pending
         PROVE  /\ p + 1 \in DOMAIN old /\ pending[p] = old[p + 1] /\ p \in Nat
                /\ h < old[p + 1] /\ old[p + 1] \in DOMAIN rows
                /\ <<rows[h].run, rows[h].n>> # <<rows[old[p + 1]].run, rows[old[p + 1]].n>>
    <2>1. /\ p + 1 \in DOMAIN old /\ pending[p] = old[p + 1] /\ p \in Nat
          /\ 1 \in DOMAIN old /\ 1 < p + 1
      BY <1>6
    <2> QED BY <1>5, <1>7, <1>8, <2>1 DEF PendingOrder
  <1>21. Pending'
    <2>1. ASSUME NEW p \in DOMAIN pending PROVE PendingRow(pending[p])'
      <3>1. PICK i \in DOMAIN rows : /\ i = pending[p] /\ PendingRow(i) /\ h < i
                                     /\ <<rows[h].run, rows[h].n>> # <<rows[i].run, rows[i].n>>
        BY <1>7, <1>20
      <3>2. ASSUME e = Ev("end", rows[i].run, rows[i].n) PROVE Shifted(i)
        <4>1. trace = <<rows[i].run, rows[i].n>>
          BY <1>11, <3>2 DEF Ev
        <4>2. Shifted(h)
          BY <1>17, <3>1, <4>1
        <4>3. h <= i
          BY <1>10, <3>1
        <4> QED BY <1>1, <1>9, <4>2, <4>3, ShiftedBelow DEF Serving
      <3>3. \A k \in DOMAIN new : k \in DOMAIN rows \/ new[k].what # "user"
        BY <1>13
      <3>4. PendingRow(i)'
        BY <1>1, <1>2, <1>15, <3>1, <3>2, <3>3, PendingRowStays
      <3> QED BY <3>1, <3>4
    <2>2. ASSUME NEW p \in DOMAIN pending, NEW q \in DOMAIN pending, p < q
          PROVE  /\ pending[p] < pending[q]
                 /\ <<new[pending[p]].run, new[pending[p]].n>>
                       # <<new[pending[q]].run, new[pending[q]].n>>
      <3>1. /\ p + 1 \in DOMAIN old /\ pending[p] = old[p + 1] /\ old[p + 1] \in DOMAIN rows
            /\ q + 1 \in DOMAIN old /\ pending[q] = old[q + 1] /\ old[q + 1] \in DOMAIN rows
        BY <1>20
      <3>2. p + 1 < q + 1
        BY <1>20, <2>2
      <3>3. /\ old[p + 1] < old[q + 1]
            /\ <<rows[old[p + 1]].run, rows[old[p + 1]].n>>
                  # <<rows[old[q + 1]].run, rows[old[q + 1]].n>>
        BY <1>8, <3>1, <3>2 DEF PendingOrder
      <3> QED BY <1>13, <3>1, <3>3
    <2>3. PendingOrder(new, pending)
      BY <2>2 DEF PendingOrder
    <2> QED BY <1>2, <1>4, <2>1, <2>3 DEF Pending
  <1>22. e.kind # "text" /\ e.kind # "result"
    OBVIOUS
  <1> QED BY <1>1, <1>2, <1>15, <1>18, <1>19, <1>21, <1>22, HandledShows

LEMMA NothingShown ==
    ASSUME Serving, Taken, Shows, NEW e \in Event \cup Result, Handled(e), screen' = screen,
           e.kind \notin {"text", "end"}, e.kind = "result" => screen.received
    PROVE  Shows'
  <1>1. Keeps(screen'.rows, screen.rows)
    BY DEF Keeps
  <1>2. ASSUME NEW i \in DOMAIN screen.rows, Shifted(i) PROVE Shifted(i)'
    BY <1>1, <1>2, CutOffsStay
  <1>3. Pending'
    <2>1. ASSUME NEW p \in DOMAIN screen.pending PROVE PendingRow(screen.pending[p])'
      <3>1. PICK i \in DOMAIN screen.rows : i = screen.pending[p] /\ PendingRow(i)
        BY DEF Serving, Typed, ScreenTyped, Shows, Pending
      <3>2. e # Ev("end", screen.rows[i].run, screen.rows[i].n)
        BY DEF Ev
      <3>3. PendingRow(i)'
        BY <1>1, <3>1, <3>2, PendingRowStays
      <3> QED BY <3>1, <3>3
    <2> QED BY <2>1 DEF Shows, Pending
  <1>4. CallRows'
    BY DEF Shows, CallRows, Handled, clientVars
  <1>5. Misplaced'
    BY <1>2 DEF Shows, Misplaced
  <1> QED BY <1>1, <1>3, <1>4, <1>5, HandledShows

\* The screen after an entry of the queue, with its type.
LEMMA ShownShows ==
    ASSUME Serving, Taken, Shows, NEW e \in Event \cup Result, Handled(e), screen' = Shown(e)
    PROVE  /\ Shows'
           /\ screen' \in [rows : Seq(Rows), pending : Seq(Nat), received : BOOLEAN]
           /\ \A p \in DOMAIN screen'.pending : screen'.pending[p] \in DOMAIN screen'.rows
  <1>1. PICK rows \in Seq(Rows) : rows = screen.rows
    BY DEF Serving, Typed, ScreenTyped
  <1>2. PICK pending \in Seq(Nat) : pending = screen.pending
    BY DEF Serving, Typed, ScreenTyped
  <1>3. PICK received \in BOOLEAN : received = screen.received
    BY DEF Serving, Typed, ScreenTyped
  <1>4. screen = [rows |-> rows, pending |-> pending, received |-> received]
    BY <1>1, <1>2, <1>3 DEF Serving, Typed, ScreenTyped
  <1>5. /\ \A p \in DOMAIN pending : pending[p] \in DOMAIN rows
        /\ DOMAIN rows = 1..Len(rows) /\ Len(rows) \in Nat
    BY <1>1, <1>2, SeqElement DEF Serving, Typed, ScreenTyped
  <1>6. ASSUME NEW row \in Rows, NEW flag \in BOOLEAN,
               screen' = [rows |-> Append(rows, row), pending |-> pending, received |-> flag]
        PROVE  /\ screen' \in [rows : Seq(Rows), pending : Seq(Nat), received : BOOLEAN]
               /\ \A p \in DOMAIN screen'.pending : screen'.pending[p] \in DOMAIN screen'.rows
               /\ screen'.rows = Append(screen.rows, row) /\ screen'.pending = screen.pending
               /\ screen'.received = flag
    <2>1. Append(rows, row) \in Seq(Rows) /\ DOMAIN Append(rows, row) = 1..(Len(rows) + 1)
      BY RowAdded
    <2>2. screen'.pending = pending /\ screen'.rows = Append(rows, row) /\ screen'.received = flag
      BY <1>6
    <2>3. \A p \in DOMAIN pending : pending[p] \in 1..(Len(rows) + 1)
      BY <1>5
    <2> QED BY <1>1, <1>2, <1>6, <2>1, <2>2, <2>3
  <1>7. e.run <= current /\ e.kind # "submit"
    BY HandledFlow DEF Taken, TakenRuns
  <1>8. e.run \in Runs /\ e.n \in Nat
    BY Bounds DEF Event, Result
  <1>9. CASE e.kind = "text"
    <2>1. PICK row \in Rows : row = Text(e)
      BY <1>8 DEF Text, Rows
    <2>2. screen' = [rows |-> Append(rows, row), pending |-> pending, received |-> TRUE]
      BY <1>4, <1>9, <2>1 DEF Shown, Push
    <2>3. row.what = "text" /\ row.trace = <<>>
      BY <2>1 DEF Text
    <2>4. Shows'
      BY <1>6, <1>9, <2>1, <2>2, <2>3, RowShown
    <2> QED BY <1>6, <2>2, <2>4
  <1>10. CASE e.kind = "begin"
    <2>1. PICK row \in Rows : row = Running(e)
      BY <1>10 DEF Running, Rows, Event, Result
    <2>2. screen' = [rows |-> Append(rows, row), pending |-> Append(pending, Len(rows) + 1),
                     received |-> received]
      BY <1>4, <1>10, <2>1 DEF Shown, Push
    <2>3. Append(rows, row) \in Seq(Rows) /\ DOMAIN Append(rows, row) = 1..(Len(rows) + 1)
      BY RowAdded
    <2>4. /\ Append(pending, Len(rows) + 1) \in Seq(Nat)
          /\ DOMAIN Append(pending, Len(rows) + 1) = 1..(Len(pending) + 1)
          /\ DOMAIN pending = 1..Len(pending) /\ Len(pending) \in Nat
          /\ \A p \in DOMAIN pending : Append(pending, Len(rows) + 1)[p] = pending[p]
          /\ Append(pending, Len(rows) + 1)[Len(pending) + 1] = Len(rows) + 1
      BY <1>5, SeqAppend, SeqElement
    <2>5. \A p \in 1..(Len(pending) + 1) : Append(pending, Len(rows) + 1)[p] \in 1..(Len(rows) + 1)
      <3> SUFFICES ASSUME NEW p \in 1..(Len(pending) + 1)
                   PROVE  Append(pending, Len(rows) + 1)[p] \in 1..(Len(rows) + 1)
        OBVIOUS
      <3>1. CASE p \in DOMAIN pending
        BY <1>5, <2>4, <3>1
      <3>2. CASE p \notin DOMAIN pending
        <4>1. p = Len(pending) + 1
          BY <2>4, <3>2
        <4> QED BY <1>5, <2>4, <4>1
      <3> QED BY <3>1, <3>2
    <2>6. /\ screen'.rows = Append(rows, row) /\ screen'.pending = Append(pending, Len(rows) + 1)
          /\ screen'.received = received
      BY <2>2
    <2>7. e \in Event
      BY <1>10 DEF Result
    <2>8. Shows'
      BY <1>1, <1>2, <1>3, <1>10, <2>1, <2>6, <2>7, BeginShown
    <2>9. screen' \in [rows : Seq(Rows), pending : Seq(Nat), received : BOOLEAN]
      BY <2>2, <2>3, <2>4
    <2> QED BY <2>3, <2>4, <2>5, <2>6, <2>8, <2>9
  <1>11. CASE e.kind = "end" /\ pending = <<>>
    <2>1. PICK row \in Rows : row = Completed(e)
      BY <1>11 DEF Completed, Rows, Event, Result
    <2>2. screen' = [rows |-> Append(rows, row), pending |-> pending, received |-> received]
      BY <1>4, <1>11, <2>1 DEF Shown, Push
    <2>3. row.what = "call" /\ row.run = e.run /\ row.trace = <<row.run, row.n>>
      BY <2>1 DEF Completed
    <2>4. Shows'
      BY <1>2, <1>3, <1>6, <1>7, <1>11, <2>2, <2>3, RowShown
    <2> QED BY <1>6, <2>2, <2>4
  <1>12. CASE e.kind = "end" /\ pending # <<>>
    <2>1. PICK trace : trace = <<e.run, e.n>>
      OBVIOUS
    <2>2. PICK h \in Nat : h = Head(pending) /\ h = pending[1] /\ 1 \in DOMAIN pending
      BY <1>12, SeqTail, SeqElement
    <2>3. PICK new : new = [rows EXCEPT ![h].trace = trace]
      OBVIOUS
    <2>4. screen' = [rows |-> new, pending |-> Tail(pending), received |-> received]
      BY <1>4, <1>12, <2>1, <2>2, <2>3 DEF Shown
    <2>5. new \in Seq(Rows) /\ DOMAIN new = DOMAIN rows
      <3>1. h \in DOMAIN rows /\ rows[h] \in Rows
        BY <1>5, <2>2, SeqElement
      <3>2. PICK row : row = [rows[h] EXCEPT !.trace = trace]
        OBVIOUS
      <3>3. e.run \in Runs /\ e.n \in Nat
        BY Bounds DEF Event, Result
      <3>4. row \in Rows
        BY <2>1, <3>1, <3>2, <3>3 DEF Rows
      <3>5. new = [rows EXCEPT ![h] = row]
        BY <2>3, <3>2
      <3> QED BY <3>1, <3>4, <3>5, <1>5
    <2>6. /\ Tail(pending) \in Seq(Nat) /\ DOMAIN Tail(pending) = 1..(Len(pending) - 1)
          /\ DOMAIN pending = 1..Len(pending) /\ Len(pending) \in Nat
          /\ \A p \in DOMAIN Tail(pending) : Tail(pending)[p] = pending[p + 1]
      BY <1>12, SeqTail, SeqElement
    <2>7. \A p \in DOMAIN Tail(pending) : Tail(pending)[p] \in DOMAIN new
      BY <1>5, <2>5, <2>6
    <2>8. screen'.rows = new /\ screen'.pending = Tail(pending) /\ screen'.received = received
      BY <2>4
    <2>9. e \in Event
      BY <1>12 DEF Result
    <2>10. Shows'
      BY <1>1, <1>2, <1>3, <1>12, <2>1, <2>2, <2>3, <2>8, <2>9, EndShown
    <2>11. screen' \in [rows : Seq(Rows), pending : Seq(Nat), received : BOOLEAN]
      BY <2>4, <2>5, <2>6
    <2> QED BY <2>7, <2>8, <2>10, <2>11
  <1>13. CASE e.kind = "result" /\ ~received
    <2>1. PICK row \in Rows : row = Text(e)
      BY <1>8 DEF Text, Rows
    <2>2. screen' = [rows |-> Append(rows, row), pending |-> pending, received |-> received]
      BY <1>4, <1>13, <2>1 DEF Shown, Push
    <2>3. row.what = "text" /\ row.trace = <<>>
      BY <2>1 DEF Text
    <2>4. Shows'
      BY <1>3, <1>6, <1>13, <2>1, <2>2, <2>3, RowShown
    <2> QED BY <1>6, <2>2, <2>4
  <1>14. CASE e.kind = "ask" \/ (e.kind = "result" /\ received)
    <2>1. screen' = screen
      BY <1>4, <1>14 DEF Shown
    <2>2. Shows'
      BY <1>3, <1>14, <2>1, NothingShown
    <2> QED BY <2>1, <2>2 DEF Serving, Typed, ScreenTyped
  <1>15. e.kind \in {"text", "ask", "begin", "end", "result"}
    BY DEF Event, Result
  <1> QED BY <1>9, <1>10, <1>11, <1>12, <1>13, <1>14, <1>15

LEMMA HandleServes ==
    ASSUME IInv, Handle
    PROVE  IInv'
  <1>1. Serving /\ Taken /\ Shows /\ Typed /\ Owned /\ Emission /\ Flow
    BY DEF IInv, Serving
  <1>2. PICK e \in Event \cup Result : e = Head(external)
    BY <1>1, SeqTail DEF Handle, Typed, ScreenTyped
  <1>3. Handled(e) /\ screen' = Shown(e) /\ Consume(e)
    BY <1>2 DEF Handle, Handled
  <1>4. /\ Shows'
        /\ screen' \in [rows : Seq(Rows), pending : Seq(Nat), received : BOOLEAN]
        /\ \A p \in DOMAIN screen'.pending : screen'.pending[p] \in DOMAIN screen'.rows
    BY <1>1, <1>3, ShownShows
  <1>5. /\ Taken' /\ Passed' = Passed /\ external' \in Seq(Event \cup Result) /\ log' \in Seq(Entry)
        /\ \A r : Path(r)' = Path(r)
    BY <1>1, <1>3, HandledFlow
  <1>6. /\ approval' = approval /\ events' = events /\ emitted' = emitted /\ stream' = stream
        /\ ctl' = ctl /\ inputs' = inputs /\ current' = current /\ busy' = busy
        /\ quit' = quit /\ faults' = faults
    BY <1>3 DEF Handled, clientVars
  <1>7. ASSUME NEW r \in Runs
        PROVE  /\ runs'[r] \in RunType /\ runs'[r].at = runs[r].at
               /\ runs'[r].turn = runs[r].turn /\ runs'[r].calls = runs[r].calls
    <2>1. PICK run \in RunType : run = runs[r]
      BY <1>1 DEF Typed, RunsTyped
    <2>2. CASE runs' = runs
      BY <2>1, <2>2
    <2>3. CASE runs' # runs
      <3>1. PICK d \in Decisions : runs' = [runs EXCEPT ![e.run].decision = d]
        BY <1>3, <2>3 DEF Consume, Decisions
      <3>2. CASE r = e.run
        <4>1. runs'[r] = [run EXCEPT !.decision = d]
          BY <1>1, <2>1, <3>1, <3>2 DEF Typed, RunsTyped
        <4> QED BY <2>1, <4>1 DEF RunType
      <3>3. CASE r # e.run
        <4>1. runs'[r] = runs[r]
          BY <1>1, <3>1, <3>3 DEF Typed, RunsTyped
        <4> QED BY <2>1, <4>1
      <3> QED BY <3>2, <3>3
    <2> QED BY <2>2, <2>3
  <1>8. runs' \in [Runs -> RunType]
    <2>1. CASE runs' = runs
      BY <1>1, <2>1 DEF Typed, RunsTyped
    <2>2. CASE runs' # runs
      <3>1. PICK d \in Decisions : runs' = [runs EXCEPT ![e.run].decision = d]
        BY <1>3, <2>2 DEF Consume, Decisions
      <3>2. PICK run \in RunType : run = runs[e.run]
        BY <1>1, Bounds DEF Typed, RunsTyped, Event, Result
      <3>3. PICK new \in RunType : new = [run EXCEPT !.decision = d]
        BY DEF RunType
      <3>4. runs' = [runs EXCEPT ![e.run] = new]
        BY <3>1, <3>2, <3>3
      <3> QED BY <1>1, <3>4 DEF Typed, RunsTyped
    <2> QED BY <2>1, <2>2
  <1>9. Typed'
    <2>1. RunsTyped'
      <3>1. ASSUME NEW r \in Runs PROVE Allowed(runs'[r])
        <4>1. PICK new : new = runs'[r]
          OBVIOUS
        <4>2. PICK run : run = runs[r] /\ Allowed(run)
          BY <1>1 DEF Typed, RunsTyped
        <4>3. Allowed(new)
          BY <1>7, <4>1, <4>2 DEF Allowed
        <4> QED BY <4>1, <4>3
      <3> QED BY <1>1, <1>6, <1>8, <3>1 DEF Typed, RunsTyped, Allowed
    <2>2. ServerTyped' /\ ClientTyped'
      BY <1>1, <1>6, ServerKept, ClientKept DEF Typed
    <2>3. ScreenTyped'
      BY <1>1, <1>4, <1>5, <1>6 DEF Typed, ScreenTyped
    <2> QED BY <2>1, <2>2, <2>3 DEF Typed
  <1>10. Owned'
    <2>1. ASSUME NEW r \in Runs, r > current PROVE Idle(r)'
      <3>1. Idle(r)
        BY <1>1, <2>1 DEF Owned
      <3> QED BY <1>6, <1>7, <3>1 DEF Idle
    <2> QED BY <1>1, <1>6, <2>1 DEF Owned
  <1>11. Emission'
    <2>1. ASSUME NEW r \in Runs PROVE Sent(r, emitted[r], runs'[r])
      <3>1. PICK new \in RunType : new = runs'[r]
        BY <1>7
      <3>2. PICK run \in RunType : run = runs[r]
        BY <1>1 DEF Typed, RunsTyped
      <3>3. PICK sent \in Seq(Event) : sent = emitted[r] /\ Sent(r, sent, run)
        BY <1>1, <3>2, RunFacts
      <3>4. new.at = run.at /\ new.turn = run.turn /\ new.calls = run.calls
        BY <1>7, <3>1, <3>2
      <3>5. Sent(r, sent, new)
        BY <3>3, <3>4, SentSilent
      <3> QED BY <3>1, <3>3, <3>5
    <2>2. ASSUME NEW r \in Runs PROVE Sent(r, emitted[r], runs[r])'
      BY <1>6, <2>1 DEF Sent, SentBounded, Distinct, CallOrder, CallsEnded, Bounded, Has
    <2> QED BY <2>2 DEF Emission
  <1>12. Flow'
    BY <1>1, <1>5, <1>6 DEF Flow, Watched
  <1> QED BY <1>4, <1>5, <1>9, <1>10, <1>11, <1>12 DEF IInv, Serving

LEMMA QuitServes ==
    ASSUME IInv, Quit
    PROVE  IInv'
  <1>1. Serving /\ Taken /\ Shows /\ Typed /\ Owned /\ Emission /\ Flow
    BY DEF IInv, Serving
  <1>2. /\ approval' = approval /\ runs' = runs /\ events' = events /\ emitted' = emitted
        /\ stream' = stream /\ ctl' = ctl /\ inputs' = inputs /\ current' = current
        /\ busy' = busy /\ external' = external /\ screen' = screen /\ log' = log
        /\ quit' = TRUE /\ Fault
    BY DEF Quit, serverVars, clientVars
  <1>3. Typed'
    <2>1. RunsTyped' /\ ServerTyped' /\ ClientTyped'
      BY <1>1, <1>2, RunsKept, ServerKept, ClientKept DEF Typed
    <2>2. faults' \in 0..MaxFaults
      BY <1>1, <1>2, FaultCounted DEF Typed
    <2>3. ScreenTyped'
      BY <1>1, <1>2, <2>2 DEF Typed, ScreenTyped
    <2> QED BY <2>1, <2>3 DEF Typed
  <1>4. Owned' /\ Emission'
    BY <1>1, <1>2 DEF Owned, Idle, Emission
  <1>5. Flow'
    <2>1. Passed' = Passed
      BY <1>2 DEF Passed, Coming
    <2> QED BY <1>1, <1>2, <2>1 DEF Flow, Watched
  <1>6. Taken' /\ Shows'
    BY <1>1, <1>2, ViewKept DEF View
  <1> QED BY <1>3, <1>4, <1>5, <1>6 DEF IInv, Serving

-----------------------------------------------------------------------------
(* The theorems *)

LEMMA InitIInv == Init => IInv
  <1> SUFFICES ASSUME Init PROVE IInv
    OBVIOUS
  <1>1. PICK run : run = [at |-> "off", turn |-> 1, calls |-> 0, decision |-> "none"]
    OBVIOUS
  <1>2. /\ approval \in BOOLEAN /\ runs = [r \in Runs |-> run]
        /\ events = [r \in Runs |-> <<>>] /\ stream = [r \in Runs |-> <<>>]
        /\ emitted = [r \in Runs |-> <<>>]
        /\ ctl = <<>> /\ external = <<>> /\ log = <<>>
        /\ inputs = 0 /\ current = 0 /\ busy = FALSE /\ quit = FALSE /\ faults = 0
        /\ screen = [rows |-> <<>>, pending |-> <<>>, received |-> FALSE]
    BY <1>1 DEF Init
  <1>3. run \in RunType /\ Allowed(run) /\ run.calls = 0 /\ run.at = "off"
    BY <1>1, Bounds DEF RunType, Ats, Decisions, Allowed
  <1>4. /\ \A S : <<>> \in Seq(S)
        /\ Len(<<>>) = 0 /\ \A i : i \notin DOMAIN <<>>
    <2>1. \A S : <<>> \in Seq(S)
      BY EmptySeq
    <2>2. <<>> \in Seq(Nat)
      BY <2>1
    <2> QED BY <2>1, <2>2, EmptySeq, SeqElement
  <1>5. screen.rows = <<>> /\ screen.pending = <<>> /\ screen.received = FALSE
    BY <1>2
  <1>6. Typed
    <2>1. RunsTyped
      BY <1>2, <1>3 DEF RunsTyped
    <2>2. ServerTyped
      BY <1>2, <1>4, Bounds DEF ServerTyped
    <2>3. ClientTyped
      <3>1. ctl \in Seq(Event)
        BY <1>2, <1>4, Zenon
      <3>2. Len(ctl) <= Capacity
        BY <1>2, <1>4, Bounds
      <3>3. 0 \in 0..MaxInputs /\ 0 \in 0..0 /\ 0 <= Capacity
        BY Bounds
      <3> QED BY <1>2, <3>1, <3>2, <3>3 DEF ClientTyped
    <2>4. ScreenTyped
      <3>1. external \in Seq(Event \cup Result) /\ log \in Seq(Entry)
        BY <1>2, <1>4, Zenon
      <3>2. <<>> \in Seq(Rows) /\ <<>> \in Seq(Nat)
        BY <1>4, Zenon
      <3>3. screen \in [rows : Seq(Rows), pending : Seq(Nat), received : BOOLEAN]
        BY <1>2, <3>2
      <3>4. \A p \in DOMAIN screen.pending : screen.pending[p] \in DOMAIN screen.rows
        BY <1>4, <1>5
      <3>5. 0 \in 0..MaxFaults
        BY Bounds
      <3> QED BY <1>2, <3>1, <3>3, <3>4, <3>5 DEF ScreenTyped
    <2> QED BY <2>1, <2>2, <2>3, <2>4 DEF Typed
  <1>7. Owned
    BY <1>2, <1>3, <1>4 DEF Owned, Idle
  <1>8. Emission
    <2>1. \A r \in Runs : Sent(r, <<>>, run)
      BY <1>3, SentNothing
    <2> QED BY <1>2, <2>1 DEF Emission
  <1>9. Passed = <<>> /\ Coming = <<>>
    <2>1. <<>> \o <<>> = <<>>
      BY <1>4, ConcatEmptySeq
    <2> QED BY <1>2, <2>1 DEF Passed, Coming
  <1>10. Flow
    BY <1>2, <1>4, <1>9 DEF Flow, InOrder, Watched
  <1>11. Taken
    BY <1>2, <1>4, <1>9 DEF Taken, RunOrder, TakenRuns, Submits
  <1>12. Shows
    BY <1>2, <1>4, <1>5, <1>9
       DEF Shows, Pending, PendingOrder, CallRows, Misplaced, Received, TextsShown, AnswerShown
  <1> QED BY <1>6, <1>7, <1>8, <1>10, <1>11, <1>12 DEF IInv, Serving

LEMMA NextIInv == IInv /\ [Next]_vars => IInv'
  <1> SUFFICES ASSUME IInv, [Next]_vars PROVE IInv'
    OBVIOUS
  <1>1. Serving /\ Taken /\ Shows /\ Typed /\ Emission
    BY DEF IInv, Serving
  <1>2. ASSUME NEW r \in Runs, Moves(r), UNCHANGED <<approval, stream, View, quit>>,
               Fault \/ UNCHANGED faults
        PROVE  IInv'
    <2>1. Serving'
      BY <1>1, <1>2, MovesServing
    <2>2. Taken' /\ Shows'
      BY <1>1, <1>2, ViewKept
    <2> QED BY <2>1, <2>2 DEF IInv
  <1>3. ASSUME NEW r \in Runs, Answer(r) PROVE IInv'
    <2>1. UNCHANGED <<approval, stream, View, quit>> /\ UNCHANGED faults
      BY <1>3 DEF Answer, View, clientVars, screenVars
    <2> QED BY <1>1, <1>2, <1>3, <2>1, AnswerMoves
  <1>4. ASSUME NEW r \in Runs, CallTool(r) PROVE IInv'
    <2>1. UNCHANGED <<approval, stream, View, quit>> /\ UNCHANGED faults
      BY <1>4 DEF CallTool, View, clientVars, screenVars
    <2> QED BY <1>1, <1>2, <1>4, <2>1, CallToolMoves
  <1>5. ASSUME NEW r \in Runs, Decided(r) PROVE IInv'
    <2>1. UNCHANGED <<approval, stream, View, quit>> /\ UNCHANGED faults
      BY <1>5 DEF Decided, View, clientVars, screenVars
    <2> QED BY <1>1, <1>2, <1>5, <2>1, DecidedMoves
  <1>6. ASSUME NEW r \in Runs, ToolAnswers(r) PROVE IInv'
    <2>1. UNCHANGED <<approval, stream, View, quit>> /\ UNCHANGED faults
      BY <1>6 DEF ToolAnswers, View, clientVars, screenVars
    <2> QED BY <1>1, <1>2, <1>6, <2>1, ToolAnswersMoves
  <1>7. ASSUME NEW r \in Runs, InvokeFails(r) PROVE IInv'
    <2>1. UNCHANGED <<approval, stream, View, quit>> /\ Fault
      BY <1>7 DEF InvokeFails, View, clientVars, screenVars
    <2> QED BY <1>1, <1>2, <1>7, <2>1, InvokeFailsMoves
  <1>8. ASSUME NEW r \in Runs, Pump(r) PROVE IInv'
    <2>1. Serving'
      BY <1>1, <1>8, PumpServing
    <2>2. UNCHANGED View
      BY <1>8 DEF Pump, View, clientVars, screenVars
    <2> QED BY <1>1, <2>1, <2>2, ViewKept DEF IInv
  <1>9. ASSUME NEW r \in Runs, End(r) PROVE IInv'
    <2>1. Serving'
      BY <1>1, <1>9, EndServing
    <2>2. UNCHANGED View
      BY <1>9 DEF End, View, clientVars, screenVars
    <2> QED BY <1>1, <2>1, <2>2, ViewKept DEF IInv
  <1>10. CASE Take
    BY <1>10, TakeKeeps
  <1>11. CASE Drain
    BY <1>11, DrainKeeps
  <1>12. CASE Finish
    BY <1>12, FinishKeeps
  <1>13. CASE Forward
    BY <1>13, ForwardKeeps
  <1>14. CASE Handle
    BY <1>14, HandleServes
  <1>15. CASE Submit
    BY <1>15, SubmitServes
  <1>16. CASE ConnectionLost
    BY <1>16, ConnectionLostKeeps
  <1>17. CASE Quit
    BY <1>17, QuitServes
  <1>18. CASE UNCHANGED vars
    <2>1. /\ approval' = approval /\ runs' = runs /\ events' = events /\ emitted' = emitted
          /\ stream' = stream /\ ctl' = ctl /\ inputs' = inputs /\ current' = current
          /\ busy' = busy /\ external' = external /\ screen' = screen /\ log' = log
          /\ quit' = quit /\ faults' = faults
      BY <1>18 DEF vars
    <2>2. Taken' /\ Shows'
      BY <1>1, <2>1, ViewKept DEF View
    <2>3. Typed'
      <3>1. RunsTyped' /\ ServerTyped' /\ ClientTyped'
        BY <1>1, <2>1, RunsKept, ServerKept, ClientKept DEF Typed
      <3>2. ScreenTyped'
        BY <1>1, <2>1 DEF Typed, ScreenTyped
      <3> QED BY <3>1, <3>2 DEF Typed
    <2>4. Owned' /\ Emission'
      BY <1>1, <2>1 DEF Serving, Owned, Idle, Emission
    <2>5. Flow'
      <3>1. Passed' = Passed
        BY <2>1 DEF Passed, Coming
      <3> QED BY <1>1, <2>1, <3>1 DEF Serving, Flow, Path, Watched
    <2> QED BY <2>2, <2>3, <2>4, <2>5 DEF IInv, Serving
  <1> QED BY <1>3, <1>4, <1>5, <1>6, <1>7, <1>8, <1>9, <1>10, <1>11, <1>12, <1>13, <1>14,
             <1>15, <1>16, <1>17, <1>18 DEF Next, Tasks

LEMMA IInvTypeOK == IInv => TypeOK
  <1> SUFFICES ASSUME IInv PROVE TypeOK
    OBVIOUS
  <1>1. Typed
    BY DEF IInv, Serving
  <1>2. approval \in BOOLEAN /\ runs \in [Runs -> RunType]
    BY <1>1 DEF Typed, RunsTyped
  <1>3. \A r \in Runs : /\ emitted[r] \in Seq(Event)
                        /\ events[r] \in Seq(Event) /\ Len(events[r]) <= Capacity
                        /\ stream[r] \in Seq(Event \cup Result) /\ Len(stream[r]) <= Capacity
    BY <1>1 DEF Typed, ServerTyped
  <1>4. ToSet(screen.pending) \subseteq DOMAIN screen.rows
    BY <1>1 DEF Typed, ScreenTyped, ToSet
  <1>5. screen.rows \in Seq(Rows) /\ screen.received \in BOOLEAN
    BY <1>1 DEF Typed, ScreenTyped
  <1> QED BY <1>1, <1>2, <1>3, <1>4, <1>5
          DEF TypeOK, Typed, ClientTyped, ScreenTyped, RunType, Ats, Decisions

LEMMA IInvScreenTrue == IInv => ScreenTrue
  <1> SUFFICES ASSUME IInv PROVE ScreenTrue
    OBVIOUS
  <1>1. Serving /\ Taken /\ Shows /\ Typed
    BY DEF IInv, Serving
  <1>2. ASSUME NEW r \in Runs, NEW i \in DOMAIN emitted[r], NEW j \in DOMAIN emitted[r],
               emitted[r][i] = emitted[r][j]
        PROVE  i = j
    BY <1>1, <1>2 DEF Serving, Emission, Sent, Distinct
  <1>3. log \in Seq(Entry) /\ Coming \in Seq(Entry)
    BY <1>1, PathTyped
  <1>4. InOrder(log, emitted)
    <2>1. InOrder(log \o Coming, emitted)
      BY <1>1 DEF Serving, Flow, Passed
    <2> QED BY <1>3, <2>1, FrontInOrder
  <1>5. ASSUME NEW j \in DOMAIN log, NEW k \in DOMAIN log, j < k, log[j].run > log[k].run
        PROVE  log[j].kind \in {"submit", "result"} /\ log[k].kind # "submit"
    <2>1. log[j].run \in Nat /\ log[k].run \in Nat
      <3>1. log[j] \in Entry /\ log[k] \in Entry
        BY <1>3, SeqElement
      <3> QED BY <1>1, <3>1, ClientNats DEF Entry
    <2>2. \A i \in DOMAIN log : i \in DOMAIN Passed /\ Passed[i] = log[i]
      BY <1>3, SeqConcat, SeqElement DEF Passed
    <2>3. ~IsEvent(log[j])
      <3>1. ASSUME IsEvent(log[j]) PROVE log[j].run <= log[k].run
        BY <1>1, <1>5, <2>2, <3>1 DEF Taken, RunOrder
      <3> QED BY <1>5, <2>1, <3>1
    <2>4. log[k].kind # "submit"
      BY <1>1, <1>5, <2>1 DEF Taken, Submits
    <2> QED BY <2>3, <2>4 DEF IsEvent
  <1>6. \A i \in DOMAIN screen.rows :
           screen.rows[i].trace \notin {<<>>, <<screen.rows[i].run, screen.rows[i].n>>}
              => \E h \in 1..i : CutOff(h) /\ \A k \in h..i : screen.rows[k].what # "user"
    BY <1>1 DEF Shows, Misplaced, Shifted
  <1>7. RowsMatch
    BY <1>2, <1>4, <1>5, <1>6 DEF RowsMatch
  <1> QED BY <1>1, <1>7 DEF ScreenTrue, Shows

\* Every variable has its type and no channel holds more than its capacity, whatever the
\* bounds, the capacity and the faults: emit waits for room, and the pump and the client take
\* one entry for one they pass on.
THEOREM TypeCorrect == Spec => []TypeOK
  <1>1. Init => IInv
    BY InitIInv
  <1>2. IInv /\ [Next]_vars => IInv'
    BY NextIInv
  <1>3. IInv => TypeOK
    BY IInvTypeOK
  <1> QED BY <1>1, <1>2, <1>3, PTL DEF Spec

\* The screen shows what happened: events come in the order and without the gaps of their run,
\* each result of a call goes to its row unless an end before it was cut off, and an answer is
\* there or on its way unless the code takes an earlier text for it.
THEOREM ScreenCorrect == Spec => []ScreenTrue
  <1>1. Init => IInv
    BY InitIInv
  <1>2. IInv /\ [Next]_vars => IInv'
    BY NextIInv
  <1>3. IInv => ScreenTrue
    BY IInvScreenTrue
  <1> QED BY <1>1, <1>2, <1>3, PTL DEF Spec
===============================================================================
