-------------------------- MODULE ProviderCallsProofs --------------------------
(* Proofs about ProviderCalls: its types, what a commit names, the chain of an orderly turn *)
(* and what its calls read.                                                                *)
EXTENDS ProviderCalls, SequenceTheorems, TLAPS
-----------------------------------------------------------------------------
(* Sequences *)

\* Elements of a sequence of S are in S.
LEMMA SeqElement ==
    ASSUME NEW S, NEW q \in Seq(S)
    PROVE  /\ \A i \in DOMAIN q : q[i] \in S
           /\ DOMAIN q = 1..Len(q)
           /\ Len(q) \in Nat
  BY LenProperties

\* Appending keeps every element where it is and adds one at the end.
LEMMA SeqAppend ==
    ASSUME NEW S, NEW q \in Seq(S), NEW x \in S
    PROVE  /\ Append(q, x) \in Seq(S)
           /\ Len(Append(q, x)) = Len(q) + 1
           /\ DOMAIN Append(q, x) = DOMAIN q \cup {Len(q) + 1}
           /\ \A i \in DOMAIN q : Append(q, x)[i] = q[i]
           /\ Append(q, x)[Len(q) + 1] = x
  BY AppendProperties, LenProperties

\* Changing one element to a value of the same set keeps a sequence of that set.
LEMMA SeqExcept ==
    ASSUME NEW S, NEW q \in Seq(S), NEW i, NEW x, i \in DOMAIN q => x \in S
    PROVE  /\ [q EXCEPT ![i] = x] \in Seq(S)
           /\ Len([q EXCEPT ![i] = x]) = Len(q)
           /\ DOMAIN [q EXCEPT ![i] = x] = DOMAIN q
           /\ \A j \in DOMAIN q : [q EXCEPT ![i] = x][j] = IF j = i THEN x ELSE q[j]
  <1>1. DOMAIN q = 1..Len(q) /\ q \in [1..Len(q) -> S] /\ Len(q) \in Nat
    BY LenProperties
  <1>2. CASE i \in DOMAIN q
    BY <1>1, <1>2, ExceptSeq
  <1>3. CASE i \notin DOMAIN q
    <2>1. [q EXCEPT ![i] = x] = q
      BY <1>1, <1>3
    <2> QED BY <1>1, <1>3, <2>1
  <1> QED BY <1>2, <1>3

\* A sequence that keeps the elements of another.
Continues(r, q) == DOMAIN q \subseteq DOMAIN r /\ \A i \in DOMAIN q : r[i] = q[i]

LEMMA AppendContinues ==
    ASSUME NEW S, NEW q \in Seq(S), NEW x \in S
    PROVE  Continues(Append(q, x), q)
  BY SeqAppend DEF Continues

LEMMA SelfContinues == ASSUME NEW q PROVE Continues(q, q)
  BY DEF Continues

\* Without what was appended, the sequence is what it was.
LEMMA SubSeqFront ==
    ASSUME NEW S, NEW q \in Seq(S), NEW x \in S
    PROVE  SubSeq(Append(q, x), 1, Len(Append(q, x)) - 1) = q
  <1>1. PICK n : n = Len(q)
    OBVIOUS
  <1>2. n \in Nat /\ Len(Append(q, x)) - 1 = n
    BY <1>1, SeqAppend, SeqElement
  <1>3. SubSeq(Append(q, x), 1, n) = q
    <2>1. CASE n = 0
      <3>1. q = <<>>
        BY <1>1, <2>1, EmptySeq
      <3>2. SubSeq(Append(q, x), 1, n) = <<>>
        BY <2>1, SubSeqEmpty
      <3> QED BY <3>1, <3>2
    <2>2. CASE n # 0
      <3>1. PICK end : end = <<x>>
        OBVIOUS
      <3>2. end \in Seq(S) /\ 1 \in 1..Len(q) /\ n \in 1..Len(q)
        BY <1>1, <1>2, <2>2, <3>1
      <3>3. Append(q, x) = q \o end
        BY <3>1, AppendIsConcat
      <3>4. SubSeq(q \o end, 1, n) = SubSeq(q, 1, n)
        BY <3>2, SubSeqOfConcat1
      <3> QED BY <1>1, <3>3, <3>4, SubSeqFull
    <2> QED BY <2>1, <2>2
  <1> QED BY <1>2, <1>3

-----------------------------------------------------------------------------
(* The inductive invariant *)

\* The turn that the sidecar dispatches.
Live(t) == dispatch.at # "idle" /\ dispatch.turn = t
Apart(c) == turns[calls[c].turn].apart
Orderly(c) == turns[calls[c].turn].orderly

TurnOK(t) ==
    /\ turns[t].node \in DOMAIN dag
    /\ dag[turns[t].node].type = "invoke" /\ dag[turns[t].node].turn = t
    /\ dag[turns[t].node].state = turns[t].state
    /\ Known(turns[t].session, turns[t].state)
    /\ turns[t].orderly => turns[t].apart
TurnsOK == \A t \in DOMAIN turns : TurnOK(t)

\* What the answer to a call says.
Commit(c) == Append(Sent(c), NextView(c))
ReplyOK(c, state, answer) ==
    /\ calls[c].op # "put" => state = Sent(c)
    /\ calls[c].op = "put" => \/ state = Commit(c) /\ Commit(c) \in store[SessionOf(c)].commits
                              \/ state = Sent(c) /\ ~Apart(c)
    /\ Sent(c) # Root /\ Apart(c) =>
           /\ calls[c].op = "get" => answer = ViewOf(Sent(c))[calls[c].path]
           /\ calls[c].op = "list" => answer = {p \in Paths : ViewOf(Sent(c))[p] # Absent}

\* A state has the puts that were answered in turn t before call c.
Taken(t, c) == {d \in 1..(c - 1) : calls[d].turn = t /\ calls[d].at \in {"headed", "ok"}}
Puts(t, c, p) == {d \in Taken(t, c) : calls[d].op = "put" /\ calls[d].path = p}
Has(state, t, c) ==
    \A p \in Paths : \A d \in Puts(t, c, p) :
        /\ state # Root /\ ViewOf(state)[p] \in Values
        /\ IsLatest(d, Puts(t, c, p)) => ViewOf(state)[p] = calls[d].value

\* A chain that ends at node n has taken the calls of S.
EndsAt(n, t, S) ==
    /\ n \in DOMAIN dag
    /\ IF S = {} THEN n = turns[t].node
       ELSE \E d \in S : /\ IsLatest(d, S)
                         /\ dag[n].type = "response" /\ dag[n].parent = calls[d].node

CallOK(c) ==
    /\ calls[c].turn \in DOMAIN turns /\ calls[c].key = calls[c].turn
    /\ calls[c].parent \in 0..Len(dag)
    /\ calls[c].at = "routed" => calls[c].node = 0
    /\ calls[c].at \in {"sent", "headed", "ok"} => calls[c].node # 0
    /\ calls[c].op # "list" => calls[c].path \in Paths
    /\ calls[c].op = "put" => calls[c].value \in Values
    /\ calls[c].at \in {"headed", "ok"} => ReplyOK(c, calls[c].state, calls[c].answer)
SentOK(c) ==
    calls[c].node # 0 =>
        /\ calls[c].node \in DOMAIN dag /\ dag[calls[c].node].type = "request"
        /\ dag[calls[c].node].turn = calls[c].turn /\ Sent(c) \in State
        /\ Orderly(c) => /\ EndsAt(dag[calls[c].node].parent, calls[c].turn,
                                   Taken(calls[c].turn, c))
                         /\ Has(Sent(c), calls[c].turn, c)
CallsOK == \A c \in DOMAIN calls : CallOK(c) /\ SentOK(c)

\* While a turn is apart, the open calls are its own, and while it is orderly there is one.
OpenOK(c) ==
    /\ Apart(c) => dispatch.at = "running" /\ dispatch.turn = calls[c].turn
    /\ dispatch.at # "idle" /\ turns[dispatch.turn].apart => calls[c].turn = dispatch.turn
    /\ Orderly(c) => c = Len(calls)
    /\ Apart(c) => calls[c].parent \in DOMAIN dag /\ dag[calls[c].parent].turn = calls[c].turn
    /\ Orderly(c) /\ calls[c].at = "routed" => calls[c].parent = head
AllOpenOK == \A c \in Open : OpenOK(c)

NodeOK(n) ==
    /\ dag[n].turn \in DOMAIN turns /\ dag[n].parent \in 0..(n - 1)
    /\ dag[n].type = "response" => dag[n].state \in State
    /\ turns[dag[n].turn].apart =>
           /\ dag[n].parent # 0 => dag[dag[n].parent].turn = dag[n].turn
           /\ dag[n].state # NoState => Known(turns[dag[n].turn].session, dag[n].state)
    /\ dag[n].type = "complete" => ~Live(dag[n].turn)
    /\ dag[n].type \in {"request", "complete"} /\ dag[n].parent # 0
           /\ turns[dag[n].turn].orderly =>
           /\ dag[n].state = dag[dag[n].parent].state
           /\ dag[n].type = "complete" =>
                  EndsAt(dag[n].parent, dag[n].turn, Taken(dag[n].turn, Len(calls) + 1))
NodesOK == \A n \in DOMAIN dag : NodeOK(n)

\* The registers, while nobody else writes them.
Headed == dispatch.at \in {"headed", "routed", "running", "answered"}
Reading == dispatch.at \in {"running", "answered"}
Latest == IF dispatch.at = "answered" THEN dispatch.state ELSE register
RegistersOK ==
    /\ dispatch.at # "idle" => dispatch.turn \in DOMAIN turns
    /\ dispatch.at \in {"received", "headed", "routed"} =>
           \A c \in DOMAIN calls : calls[c].turn # dispatch.turn
    /\ dispatch.at \in {"routed", "running"} => routing = dispatch.turn
    /\ Open # {} \/ Reading => register \in State
    /\ dispatch.at = "answered" => dispatch.state \in State
HeadApart ==
    Headed /\ turns[dispatch.turn].apart =>
        /\ head \in DOMAIN dag /\ dag[head].turn = dispatch.turn
        /\ Reading => Known(turns[dispatch.turn].session, Latest)
HeadOrderly ==
    Headed /\ turns[dispatch.turn].orderly =>
        /\ EndsAt(head, dispatch.turn, Taken(dispatch.turn, Len(calls) + 1))
        /\ Has(dag[head].state, dispatch.turn, Len(calls) + 1)
        /\ Reading => \/ Latest = dag[head].state
                      \/ \E c \in Open : calls[c].at = "headed"
        /\ \A c \in Open : calls[c].at = "headed" => calls[c].state = dag[head].state
DispatchOK == RegistersOK /\ HeadApart /\ HeadOrderly

RequestsOK == \A c \in requests : c \in DOMAIN calls /\ calls[c].node # 0
ReplyIn(reply) ==
    /\ reply.call \in DOMAIN calls /\ calls[reply.call].node # 0
    /\ reply.node \in DOMAIN dag /\ reply.state \in State /\ reply.answer \in Response
    /\ dag[reply.node].type = "response" /\ dag[reply.node].state = reply.state
    /\ dag[reply.node].parent = calls[reply.call].node
    /\ dag[reply.node].turn = calls[reply.call].turn
    /\ ReplyOK(reply.call, reply.state, reply.answer)
RepliesOK == \A reply \in replies : ReplyIn(reply)

WorkerOK(op) ==
    LET c == worker[op].call IN
    worker[op].at # "idle" =>
        /\ c \in requests /\ calls[c].op = op
        /\ worker[op].at \in {"filed", "valued", "snapped"} =>
               op = "put" /\ worker[op].state = Sent(c)
        /\ worker[op].at \in {"valued", "snapped"} => calls[c].value \in store[SessionOf(c)].values
        /\ worker[op].at = "snapped" => /\ Known(SessionOf(c), Sent(c))
                                        /\ NextView(c) \in store[SessionOf(c)].snapshots
        /\ worker[op].at = "done" => /\ op \in {"put", "delete"} /\ worker[op].state \in State
                                     /\ ReplyOK(c, worker[op].state, Absent)
WorkersOK == \A op \in Ops : WorkerOK(op)

StoreOK == CommitsWhole /\ \A s \in Sessions : Root \notin store[s].commits

IInv == /\ TypeOK /\ TurnsOK /\ CallsOK /\ AllOpenOK /\ NodesOK /\ DispatchOK /\ RequestsOK
        /\ RepliesOK /\ WorkersOK /\ StoreOK

-----------------------------------------------------------------------------
(* Types *)

TurnRecord == [session : Sessions, state : State, node : Nat, apart : BOOLEAN, orderly : BOOLEAN]
CallRecord == [op : Ops, path : Paths \cup {Top}, value : MaybeValue, turn : Nat, key : Nat,
               at : {"routed", "sent", "headed", "ok", "failed"},
               parent : Nat, node : Nat, state : MaybeState, answer : Response]
DispatchRecord == [at : {"idle", "received", "headed", "routed", "running", "answered"},
                   turn : Nat, state : MaybeState]
Tables == [Sessions -> [files : View, values : SUBSET Values, snapshots : SUBSET View,
                        commits : SUBSET State]]

LEMMA TypeParts ==
    ASSUME TypeOK
    PROVE  /\ turns \in Seq(TurnRecord) /\ calls \in Seq(CallRecord) /\ dag \in Seq(Node)
           /\ dispatch \in DispatchRecord /\ store \in Tables
           /\ head \in 0..Len(dag) /\ routing \in 0..Len(turns) /\ register \in MaybeState
           /\ requests \subseteq DOMAIN calls /\ faults \in 0..MaxFaults
  BY DEF TypeOK, TurnRecord, CallRecord, DispatchRecord, Tables

LEMMA Lengths ==
    ASSUME TypeOK
    PROVE  /\ Len(turns) \in Nat /\ Len(calls) \in Nat /\ Len(dag) \in Nat
           /\ DOMAIN turns = 1..Len(turns) /\ DOMAIN calls = 1..Len(calls)
           /\ DOMAIN dag = 1..Len(dag)
  BY TypeParts, SeqElement

LEMMA TurnType ==
    ASSUME TypeOK, NEW t \in DOMAIN turns
    PROVE  /\ turns[t] \in TurnRecord /\ t \in Nat /\ t # 0
           /\ turns[t].session \in Sessions /\ turns[t].state \in State
           /\ turns[t].node \in Nat /\ turns[t].apart \in BOOLEAN /\ turns[t].orderly \in BOOLEAN
  <1>1. turns[t] \in TurnRecord /\ t \in 1..Len(turns) /\ Len(turns) \in Nat
    BY TypeParts, SeqElement
  <1> QED BY <1>1 DEF TurnRecord

LEMMA CallType ==
    ASSUME TypeOK, NEW c \in DOMAIN calls
    PROVE  /\ calls[c] \in CallRecord /\ c \in Nat /\ c # 0 /\ c \in 1..Len(calls)
           /\ calls[c].op \in Ops /\ calls[c].path \in Paths \cup {Top}
           /\ calls[c].value \in MaybeValue /\ calls[c].turn \in Nat /\ calls[c].key \in Nat
           /\ calls[c].at \in {"routed", "sent", "headed", "ok", "failed"}
           /\ calls[c].parent \in Nat /\ calls[c].node \in Nat
           /\ calls[c].state \in MaybeState /\ calls[c].answer \in Response
  <1>1. calls[c] \in CallRecord /\ c \in 1..Len(calls) /\ Len(calls) \in Nat
    BY TypeParts, SeqElement
  <1> QED BY <1>1 DEF CallRecord

LEMMA NodeType ==
    ASSUME TypeOK, NEW n \in DOMAIN dag
    PROVE  /\ dag[n] \in Node /\ n \in Nat /\ n # 0 /\ n \in 1..Len(dag)
           /\ dag[n].type \in {"invoke", "request", "response", "complete"}
           /\ dag[n].parent \in Nat /\ dag[n].turn \in Nat /\ dag[n].state \in MaybeState
  <1>1. dag[n] \in Node /\ n \in 1..Len(dag) /\ Len(dag) \in Nat
    BY TypeParts, SeqElement
  <1> QED BY <1>1 DEF Node, MaybeState

LEMMA StoreType ==
    ASSUME TypeOK, NEW s \in Sessions
    PROVE  /\ store[s] \in [files : View, values : SUBSET Values, snapshots : SUBSET View,
                            commits : SUBSET State]
           /\ store[s].files \in View /\ store[s].values \subseteq Values
           /\ store[s].snapshots \subseteq View /\ store[s].commits \subseteq State
  BY TypeParts DEF Tables

LEMMA FaultType ==
    ASSUME TypeOK, faults < MaxFaults, faults' = faults + 1
    PROVE  faults' \in 0..MaxFaults
  <1>1. faults \in 0..MaxFaults /\ MaxFaults \in Nat
    BY TypeParts, ProviderConstants
  <1> QED BY <1>1

LEMMA WorkerType ==
    ASSUME TypeOK, NEW op \in Ops
    PROVE  /\ worker[op].at \in {"idle", "filed", "valued", "snapped", "done", "responded"}
           /\ worker[op].call \in 0..Len(calls) /\ worker[op].state \in MaybeState
  BY DEF TypeOK

-----------------------------------------------------------------------------
(* States *)

LEMMA NotAState == NoState \notin State
  BY ProviderConstants DEF State, View

\* What a state shows.
LEMMA StateView ==
    ASSUME NEW s \in State
    PROVE  ViewOf(s) \in View
  <1>1. CASE s = Root
    BY <1>1 DEF ViewOf, View, Empty
  <1>2. CASE s # Root
    <2>1. Len(s) \in DOMAIN s
      BY <1>2, EmptySeq, LenProperties DEF State, Root
    <2>2. s[Len(s)] \in View
      BY <2>1, SeqElement DEF State
    <2> QED BY <1>2, <2>2 DEF ViewOf
  <1> QED BY <1>1, <1>2

\* The commit of a view on top of a state.
LEMMA StateCommit ==
    ASSUME NEW s \in State, NEW v \in View, NEW k, k = Append(s, v)
    PROVE  /\ k \in State /\ k # Root /\ ViewOf(k) = v /\ SubSeq(k, 1, Len(k) - 1) = s
  <1>1. /\ k \in Seq(View) /\ Len(k) = Len(s) + 1 /\ Len(s) \in Nat
        /\ \A i \in 1..Len(s) : k[i] = s[i]
        /\ k[Len(k)] = v
    BY SeqAppend, SeqElement DEF State
  <1>2. k # Root
    BY <1>1 DEF Root
  <1>3. SubSeq(k, 1, Len(k) - 1) = s
    BY SubSeqFront DEF State
  <1> QED BY <1>1, <1>2, <1>3 DEF State, ViewOf

-----------------------------------------------------------------------------
(* What the invariant says of one turn, call or node *)

LEMMA CallFacts ==
    ASSUME IInv, NEW c \in DOMAIN calls
    PROVE  /\ CallOK(c) /\ SentOK(c) /\ calls[c].turn \in DOMAIN turns
           /\ calls[c].key = calls[c].turn /\ SessionOf(c) \in Sessions
           /\ SessionOf(c) = turns[calls[c].turn].session
           /\ Orderly(c) => Apart(c)
           /\ Apart(c) \in BOOLEAN /\ Orderly(c) \in BOOLEAN
  <1>1. CallOK(c) /\ SentOK(c)
    BY DEF IInv, CallsOK
  <1>2. calls[c].turn \in DOMAIN turns /\ calls[c].key = calls[c].turn
    BY <1>1 DEF CallOK
  <1>3. /\ turns[calls[c].turn].session \in Sessions /\ turns[calls[c].turn].apart \in BOOLEAN
        /\ turns[calls[c].turn].orderly \in BOOLEAN
    BY <1>2, TurnType DEF IInv
  <1>4. turns[calls[c].turn].orderly => turns[calls[c].turn].apart
    BY <1>2 DEF IInv, TurnsOK, TurnOK
  <1> QED BY <1>1, <1>2, <1>3, <1>4 DEF SessionOf, Apart, Orderly

LEMMA SentFacts ==
    ASSUME IInv, NEW c \in DOMAIN calls, calls[c].node # 0
    PROVE  /\ calls[c].node \in DOMAIN dag /\ dag[calls[c].node].type = "request"
           /\ dag[calls[c].node].turn = calls[c].turn
           /\ Sent(c) \in State /\ ViewOf(Sent(c)) \in View
           /\ Sent(c) = dag[calls[c].node].state
           /\ Apart(c) => Known(SessionOf(c), Sent(c))
  <1>1. /\ calls[c].node \in DOMAIN dag /\ dag[calls[c].node].type = "request"
        /\ dag[calls[c].node].turn = calls[c].turn /\ Sent(c) \in State
    BY CallFacts DEF SentOK
  <1>2. NodeOK(calls[c].node)
    BY <1>1 DEF IInv, NodesOK
  <1>3. Sent(c) # NoState
    BY <1>1, NotAState
  <1>4. Apart(c) => Known(SessionOf(c), Sent(c))
    BY <1>1, <1>2, <1>3, CallFacts DEF NodeOK, Apart, Sent
  <1> QED BY <1>1, <1>4, StateView DEF Sent

\* What a put makes of its state.
LEMMA PutFacts ==
    ASSUME IInv, NEW c \in DOMAIN calls, calls[c].node # 0, calls[c].op = "put"
    PROVE  /\ NextView(c) \in View /\ Commit(c) \in State /\ Commit(c) # Root
           /\ ViewOf(Commit(c)) = NextView(c)
           /\ SubSeq(Commit(c), 1, Len(Commit(c)) - 1) = Sent(c)
           /\ calls[c].path \in Paths /\ calls[c].value \in Values
           /\ NextView(c)[calls[c].path] = calls[c].value
           /\ \A p \in Paths : p # calls[c].path => NextView(c)[p] = ViewOf(Sent(c))[p]
  <1>1. calls[c].path \in Paths /\ calls[c].value \in Values
    BY CallFacts DEF CallOK
  <1>2. ViewOf(Sent(c)) \in View /\ Sent(c) \in State
    BY SentFacts
  <1>3. /\ NextView(c) \in View /\ NextView(c)[calls[c].path] = calls[c].value
        /\ \A p \in Paths : p # calls[c].path => NextView(c)[p] = ViewOf(Sent(c))[p]
    BY <1>1, <1>2 DEF NextView, View
  <1> QED BY <1>1, <1>2, <1>3, StateCommit DEF Commit

\* A call that is open, and the turns that it keeps to.
LEMMA OpenFacts ==
    ASSUME IInv, NEW c \in Open
    PROVE  /\ c \in DOMAIN calls /\ OpenOK(c) /\ register \in State
           /\ calls[c].at \in {"routed", "sent", "headed"}
           /\ Apart(c) => /\ dispatch.at = "running" /\ Live(calls[c].turn)
                          /\ dispatch.turn = calls[c].turn
           /\ Orderly(c) => c = Len(calls)
  <1>1. c \in DOMAIN calls /\ OpenOK(c) /\ calls[c].at \in {"routed", "sent", "headed"}
    BY DEF IInv, AllOpenOK, Open
  <1>2. register \in State
    BY DEF IInv, DispatchOK, RegistersOK, Reading
  <1> QED BY <1>1, <1>2 DEF OpenOK, Live

\* While the turn of the sidecar is apart, open calls are its own, and while it is orderly
\* the last one.
LEMMA LiveFacts ==
    ASSUME IInv, dispatch.at # "idle", NEW c \in Open
    PROVE  /\ turns[dispatch.turn].apart => /\ calls[c].turn = dispatch.turn /\ Apart(c)
                                            /\ dispatch.at = "running"
           /\ turns[dispatch.turn].orderly => /\ c = Len(calls) /\ Orderly(c)
                                              /\ turns[dispatch.turn].apart
  <1>1. OpenOK(c) /\ c \in DOMAIN calls
    BY OpenFacts
  <1>2. dispatch.turn \in DOMAIN turns
    BY DEF IInv, DispatchOK, RegistersOK, Reading
  <1>3. turns[dispatch.turn].orderly => turns[dispatch.turn].apart
    BY <1>2 DEF IInv, TurnsOK, TurnOK
  <1>4. turns[dispatch.turn].apart => calls[c].turn = dispatch.turn
    BY <1>1 DEF OpenOK
  <1> QED BY <1>1, <1>3, <1>4 DEF OpenOK, Apart, Orderly

-----------------------------------------------------------------------------
(* What every step keeps *)

TurnKept(t) ==
    /\ turns'[t].session = turns[t].session /\ turns'[t].state = turns[t].state
    /\ turns'[t].node = turns[t].node
    /\ turns'[t].apart => turns[t].apart
    /\ turns'[t].orderly => turns[t].orderly /\ turns'[t].apart = turns[t].apart
CallKept(c) ==
    /\ calls'[c].op = calls[c].op /\ calls'[c].path = calls[c].path
    /\ calls'[c].value = calls[c].value /\ calls'[c].turn = calls[c].turn
    /\ calls'[c].key = calls[c].key /\ calls'[c].parent = calls[c].parent
    /\ calls[c].node # 0 => calls'[c].node = calls[c].node
    /\ c \notin Open => calls'[c] = calls[c]
TablesKept(s) ==
    /\ store[s].commits \subseteq store'[s].commits
    /\ store[s].snapshots \subseteq store'[s].snapshots
    /\ store[s].values \subseteq store'[s].values
Frame ==
    /\ Continues(dag', dag)
    /\ DOMAIN turns \subseteq DOMAIN turns' /\ \A t \in DOMAIN turns : TurnKept(t)
    /\ DOMAIN calls \subseteq DOMAIN calls' /\ \A c \in DOMAIN calls : CallKept(c)
    /\ \A c \in DOMAIN calls' \ DOMAIN calls : calls'[c].at = "routed"
    /\ \A s \in Sessions : TablesKept(s)

LEMMA DagKept ==
    ASSUME Frame, NEW n \in DOMAIN dag
    PROVE  n \in DOMAIN dag' /\ dag'[n] = dag[n]
  BY DEF Frame, Continues

LEMMA KnownStays ==
    ASSUME Frame, NEW s \in Sessions, NEW state, Known(s, state)
    PROVE  Known(s, state)'
  BY DEF Frame, TablesKept, Known

LEMMA TurnStays ==
    ASSUME IInv, Frame, NEW t \in DOMAIN turns
    PROVE  TurnOK(t)'
  <1>1. TurnOK(t) /\ TurnKept(t) /\ turns[t].session \in Sessions
    BY TurnType DEF IInv, TurnsOK, Frame
  <1>2. turns[t].node \in DOMAIN dag' /\ dag'[turns[t].node] = dag[turns[t].node]
    BY <1>1, DagKept DEF TurnOK
  <1>3. Known(turns[t].session, turns[t].state)'
    <2>1. PICK s, state : s = turns'[t].session /\ state = turns'[t].state
      OBVIOUS
    <2>2. Known(s, state)
      BY <1>1, <2>1 DEF TurnOK, TurnKept
    <2>3. Known(s, state)'
      BY <1>1, <2>1, <2>2, KnownStays DEF TurnKept
    <2> QED BY <2>1, <2>3 DEF Known
  <1> QED BY <1>1, <1>2, <1>3 DEF TurnOK, TurnKept

LEMMA SentStays ==
    ASSUME IInv, Frame, NEW c \in DOMAIN calls, calls[c].node # 0
    PROVE  /\ c \in DOMAIN calls' /\ calls'[c].node = calls[c].node
           /\ Sent(c)' = Sent(c) /\ NextView(c)' = NextView(c) /\ Commit(c)' = Commit(c)
  <1>1. c \in DOMAIN calls' /\ CallKept(c)
    BY DEF Frame
  <1>2. dag'[calls[c].node] = dag[calls[c].node]
    BY SentFacts, DagKept
  <1>3. Sent(c)' = Sent(c)
    BY <1>1, <1>2 DEF Sent, CallKept
  <1>4. NextView(c)' = NextView(c)
    BY <1>1, <1>3 DEF NextView, ViewOf, CallKept
  <1> QED BY <1>1, <1>3, <1>4 DEF Commit, CallKept

LEMMA CallTurnStays ==
    ASSUME IInv, Frame, NEW c \in DOMAIN calls
    PROVE  /\ c \in DOMAIN calls' /\ calls'[c].turn = calls[c].turn /\ calls'[c].op = calls[c].op
           /\ SessionOf(c)' = SessionOf(c) /\ calls'[c].turn \in DOMAIN turns'
           /\ Apart(c)' => Apart(c)
           /\ Orderly(c)' => Orderly(c)
  <1>1. c \in DOMAIN calls' /\ CallKept(c) /\ calls[c].turn \in DOMAIN turns
        /\ calls[c].key = calls[c].turn
    BY CallFacts DEF Frame
  <1>2. TurnKept(calls[c].turn) /\ calls[c].turn \in DOMAIN turns'
    BY <1>1 DEF Frame
  <1> QED BY <1>1, <1>2 DEF CallKept, TurnKept, SessionOf, Apart, Orderly

\* What was answered stays true.
LEMMA ReplyStays ==
    ASSUME IInv, Frame, NEW c \in DOMAIN calls, calls[c].node # 0, NEW state, NEW answer,
           ReplyOK(c, state, answer)
    PROVE  ReplyOK(c, state, answer)'
  <1>1. /\ Sent(c)' = Sent(c) /\ Commit(c)' = Commit(c)
        /\ ViewOf(Sent(c))' = ViewOf(Sent(c))
    BY SentStays DEF ViewOf
  <1>2. calls'[c].op = calls[c].op /\ calls'[c].path = calls[c].path
    BY DEF Frame, CallKept
  <1>3. SessionOf(c)' = SessionOf(c) /\ (Apart(c)' => Apart(c)) /\ SessionOf(c) \in Sessions
    BY CallTurnStays, CallFacts
  <1>4. store[SessionOf(c)].commits \subseteq store'[SessionOf(c)].commits
    BY <1>3 DEF Frame, TablesKept
  <1> QED BY <1>1, <1>2, <1>3, <1>4 DEF ReplyOK

\* What was taken before a call stays so, as an orderly turn has its last call open only.
LEMMA TakenStays ==
    ASSUME IInv, Frame, NEW t, turns'[t].orderly, t \in DOMAIN turns, NEW x \in DOMAIN calls
    PROVE  Taken(t, x)' = Taken(t, x)
  <1>1. ASSUME NEW d \in 1..(x - 1)
        PROVE  d \in Taken(t, x)' <=> d \in Taken(t, x)
    <2>1. d \in DOMAIN calls /\ d < x /\ x <= Len(calls) /\ d \in Nat /\ x \in Nat
          /\ Len(calls) \in Nat
      BY Lengths DEF IInv
    <2>2. CallKept(d) /\ turns[t].orderly
      BY <2>1 DEF Frame, TurnKept
    <2>3. calls[d].turn = t => d \notin Open
      BY <2>1, <2>2, OpenFacts DEF Orderly
    <2> QED BY <2>2, <2>3 DEF Taken, CallKept
  <1> QED BY <1>1 DEF Taken

LEMMA TakenBefore ==
    ASSUME IInv, NEW t, NEW c \in 1..(Len(calls) + 1), NEW d \in Taken(t, c)
    PROVE  /\ d \in DOMAIN calls /\ d \in Nat /\ d < c /\ calls[d].turn = t
           /\ calls[d].at \in {"headed", "ok"} /\ calls[d].node # 0
  <1>1. /\ d \in 1..(c - 1) /\ calls[d].turn = t /\ calls[d].at \in {"headed", "ok"}
    BY DEF Taken
  <1>2. Len(calls) \in Nat /\ DOMAIN calls = 1..Len(calls)
    BY Lengths DEF IInv
  <1>3. d \in DOMAIN calls /\ d \in Nat /\ d < c
    BY <1>1, <1>2
  <1>4. calls[d].node # 0
    BY <1>1, <1>3, CallFacts DEF CallOK
  <1> QED BY <1>1, <1>3, <1>4

\* What was taken in a turn that the sidecar has left.
LEMMA TakenRests ==
    ASSUME IInv, TypeOK', Frame, NEW t \in DOMAIN turns, turns'[t].orderly,
           \A d \in DOMAIN calls : calls[d].turn = t =>
               (calls'[d].at \in {"headed", "ok"} <=> calls[d].at \in {"headed", "ok"})
    PROVE  Taken(t, Len(calls) + 1)' = Taken(t, Len(calls) + 1)
  <1>1. /\ Len(calls) \in Nat /\ DOMAIN calls = 1..Len(calls) /\ Len(calls)' \in Nat
        /\ DOMAIN calls' = 1..Len(calls)'
    BY Lengths, TypeParts, SeqElement DEF IInv
  <1>2. PICK n : n = Len(calls) + 1
    OBVIOUS
  <1>3. PICK m : m = Len(calls)' + 1
    OBVIOUS
  <1>4. 1..(n - 1) = DOMAIN calls /\ 1..(m - 1) = DOMAIN calls'
    BY <1>1, <1>2, <1>3
  <1>5. ASSUME NEW d \in DOMAIN calls' \ DOMAIN calls
        PROVE  calls'[d].at \notin {"headed", "ok"}
    BY DEF Frame
  <1>6. ASSUME NEW d \in DOMAIN calls
        PROVE  calls'[d].turn = calls[d].turn /\ d \in DOMAIN calls'
    BY DEF Frame, CallKept
  <1>7. Taken(t, n) = {d \in DOMAIN calls : calls[d].turn = t /\ calls[d].at \in {"headed", "ok"}}
    BY <1>4 DEF Taken
  <1>8. Taken(t, m)' = {d \in DOMAIN calls' : calls'[d].turn = t /\ calls'[d].at \in {"headed", "ok"}}
    BY <1>3, <1>4 DEF Taken
  <1>9. Taken(t, m)' = Taken(t, n)
    BY <1>5, <1>6, <1>7, <1>8
  <1> QED BY <1>2, <1>3, <1>9 DEF Taken

LEMMA EndsStays ==
    ASSUME IInv, Frame, NEW n, NEW t \in DOMAIN turns, NEW S,
           \A d \in S : d \in DOMAIN calls /\ calls[d].node # 0,
           EndsAt(n, t, S)
    PROVE  EndsAt(n, t, S)'
  <1>1. n \in DOMAIN dag' /\ dag'[n] = dag[n] /\ turns'[t].node = turns[t].node
    BY DagKept DEF Frame, TurnKept, EndsAt
  <1>2. \A d \in S : calls'[d].node = calls[d].node
    BY DEF Frame, CallKept
  <1> QED BY <1>1, <1>2 DEF EndsAt, IsLatest

\* The puts that a state has, when as many were taken.
LEMMA HasStays ==
    ASSUME IInv, Frame, NEW state, NEW t, NEW x \in 1..(Len(calls) + 1), NEW y,
           Taken(t, y)' = Taken(t, x), Has(state, t, x)
    PROVE  Has(state, t, y)'
  <1>1. \A d \in Taken(t, x) : d \in DOMAIN calls
    BY TakenBefore
  <1>2. \A d \in Taken(t, x) : /\ calls'[d].op = calls[d].op /\ calls'[d].path = calls[d].path
                               /\ calls'[d].value = calls[d].value
    BY <1>1 DEF Frame, CallKept
  <1>3. \A p : Puts(t, y, p)' = Puts(t, x, p)
    BY <1>2 DEF Puts
  <1>4. ViewOf(state)' = ViewOf(state)
    BY DEF ViewOf
  <1>5. \A p : Puts(t, x, p) \subseteq Taken(t, x)
    BY DEF Puts
  <1> QED BY <1>2, <1>3, <1>4, <1>5 DEF Has, IsLatest

LEMMA SentOKStays ==
    ASSUME IInv, Frame, NEW c \in DOMAIN calls, calls'[c].node = calls[c].node
    PROVE  SentOK(c)'
  <1>1. PICK t, n : t = calls[c].turn /\ n = calls[c].node
    OBVIOUS
  <1>2. calls'[c].turn = t /\ calls'[c].node = n /\ t \in DOMAIN turns
    BY <1>1, CallTurnStays, CallFacts
  <1>3. CASE n # 0
    <2>1. n \in DOMAIN dag /\ n \in DOMAIN dag' /\ dag'[n] = dag[n] /\ dag[n].type = "request"
          /\ dag[n].turn = t /\ Sent(c) \in State /\ Sent(c)' = Sent(c)
      BY <1>1, <1>3, SentFacts, SentStays, DagKept
    <2>2. ASSUME Orderly(c)'
          PROVE  EndsAt(dag[n].parent, t, Taken(t, c))' /\ Has(Sent(c), t, c)'
      <3>1. Orderly(c) /\ turns'[t].orderly
        BY <1>2, <2>2, CallTurnStays DEF Orderly
      <3>2. EndsAt(dag[n].parent, t, Taken(t, c)) /\ Has(Sent(c), t, c)
        BY <1>1, <1>3, <3>1, CallFacts DEF SentOK
      <3>3. Taken(t, c)' = Taken(t, c)
        BY <1>2, <3>1, TakenStays
      <3>4. c \in 1..(Len(calls) + 1)
        BY Lengths DEF IInv
      <3>5. PICK S, parent, state : S = Taken(t, c) /\ parent = dag[n].parent /\ state = Sent(c)
        OBVIOUS
      <3>6. \A d \in S : d \in DOMAIN calls /\ calls[d].node # 0
        BY <3>4, <3>5, TakenBefore
      <3>7. EndsAt(parent, t, S)'
        BY <1>2, <3>2, <3>5, <3>6, EndsStays
      <3>8. Has(state, t, c)'
        BY <3>2, <3>3, <3>4, <3>5, HasStays
      <3>9. S = Taken(t, c)' /\ parent = dag'[n].parent /\ state = Sent(c)'
        BY <2>1, <3>3, <3>5
      <3> QED BY <3>7, <3>8, <3>9
    <2> QED BY <1>2, <2>1, <2>2 DEF SentOK
  <1>4. CASE n = 0
    BY <1>2, <1>4 DEF SentOK
  <1> QED BY <1>3, <1>4

LEMMA DagGrows ==
    ASSUME IInv, TypeOK', Frame
    PROVE  Len(dag) \in Nat /\ Len(dag)' \in Nat /\ Len(dag) <= Len(dag)'
  <1>1. DOMAIN dag = 1..Len(dag) /\ DOMAIN dag' = 1..Len(dag)' /\ Len(dag) \in Nat
        /\ Len(dag)' \in Nat
    BY Lengths, TypeParts, SeqElement DEF IInv, TypeOK
  <1> QED BY <1>1 DEF Frame, Continues

LEMMA CallOKStays ==
    ASSUME IInv, TypeOK', Frame, NEW c \in DOMAIN calls, calls'[c].at = calls[c].at,
           calls'[c].node = calls[c].node, calls'[c].state = calls[c].state,
           calls'[c].answer = calls[c].answer
    PROVE  CallOK(c)'
  <1>1. CallOK(c) /\ CallKept(c) /\ calls'[c].turn \in DOMAIN turns'
    BY CallFacts, CallTurnStays DEF Frame
  <1>2. calls[c].parent \in 0..Len(dag)'
    BY <1>1, DagGrows DEF CallOK
  <1>3. calls[c].at \in {"headed", "ok"} => ReplyOK(c, calls[c].state, calls[c].answer)'
    BY <1>1, ReplyStays DEF CallOK
  <1> QED BY <1>1, <1>2, <1>3 DEF CallOK, CallKept

\* A node stays right, as the sidecar does not come back to a turn.
LEMMA NodeStays ==
    ASSUME IInv, TypeOK', Frame, \A t \in DOMAIN turns : Live(t)' => Live(t),
           NEW n \in DOMAIN dag
    PROVE  NodeOK(n)'
  <1>1. NodeOK(n) /\ dag'[n] = dag[n] /\ n \in DOMAIN dag'
    BY DagKept DEF IInv, NodesOK
  <1>2. PICK t, parent, state : t = dag[n].turn /\ parent = dag[n].parent /\ state = dag[n].state
    OBVIOUS
  <1>3. t \in DOMAIN turns /\ parent \in 0..(n - 1) /\ n \in Nat /\ n \in 1..Len(dag)
        /\ DOMAIN dag = 1..Len(dag) /\ Len(dag) \in Nat
    BY <1>1, <1>2, NodeType, Lengths DEF NodeOK, IInv
  <1>4. parent # 0 => parent \in DOMAIN dag /\ dag'[parent] = dag[parent]
    BY <1>3, DagKept
  <1>5. TurnKept(t) /\ t \in DOMAIN turns' /\ turns[t].session \in Sessions
    BY <1>3, TurnType DEF Frame, IInv
  <1>6. turns'[t].apart => /\ parent # 0 => dag'[parent].turn = t
                           /\ state # NoState => Known(turns[t].session, state)'
    <2>1. turns'[t].apart => /\ parent # 0 => dag[parent].turn = t
                             /\ state # NoState => Known(turns[t].session, state)
      BY <1>1, <1>2, <1>5 DEF NodeOK, TurnKept
    <2>2. PICK s : s = turns[t].session
      OBVIOUS
    <2>3. Known(s, state) => Known(s, state)'
      BY <1>5, <2>2, KnownStays
    <2>4. Known(turns[t].session, state)' <=> Known(s, state)'
      BY <1>5, <2>2 DEF Known, TurnKept
    <2> QED BY <1>4, <2>1, <2>2, <2>3, <2>4
  <1>7. dag[n].type = "complete" => ~Live(t)'
    BY <1>1, <1>2, <1>3 DEF NodeOK
  <1>8. dag[n].type \in {"request", "complete"} /\ parent # 0 /\ turns'[t].orderly =>
            state = dag'[parent].state
    BY <1>1, <1>2, <1>4, <1>5 DEF NodeOK, TurnKept
  <1>9. ASSUME dag[n].type = "complete", parent # 0, turns'[t].orderly
        PROVE  EndsAt(parent, t, Taken(t, Len(calls) + 1))'
    <2>1. EndsAt(parent, t, Taken(t, Len(calls) + 1)) /\ ~Live(t)
      BY <1>1, <1>2, <1>5, <1>9 DEF NodeOK, TurnKept
    <2>2. ASSUME NEW d \in DOMAIN calls, calls[d].turn = t
          PROVE  calls'[d] = calls[d]
      <3>1. d \notin Open
        BY <1>5, <1>9, <2>1, <2>2, OpenFacts, CallFacts DEF Orderly, TurnKept
      <3> QED BY <3>1 DEF Frame, CallKept
    <2>3. Taken(t, Len(calls) + 1)' = Taken(t, Len(calls) + 1)
      BY <1>3, <1>9, <2>2, TakenRests
    <2>4. PICK S, x : S = Taken(t, x) /\ x = Len(calls) + 1
      OBVIOUS
    <2>5. x \in 1..(Len(calls) + 1)
      BY <2>4, Lengths DEF IInv
    <2>6. \A d \in S : d \in DOMAIN calls /\ calls[d].node # 0
      BY <2>4, <2>5, TakenBefore
    <2>7. EndsAt(parent, t, S)'
      BY <1>3, <2>1, <2>4, <2>6, EndsStays
    <2> QED BY <2>3, <2>4, <2>7
  <1> QED BY <1>1, <1>2, <1>3, <1>4, <1>5, <1>6, <1>7, <1>8, <1>9 DEF NodeOK, TurnKept

\* The chain and the puts of a turn stay, while none of its calls is answered.
LEMMA ChainStays ==
    ASSUME IInv, TypeOK', Frame, NEW t \in DOMAIN turns, turns'[t].orderly,
           \A d \in DOMAIN calls : calls[d].turn = t =>
               (calls'[d].at \in {"headed", "ok"} <=> calls[d].at \in {"headed", "ok"}),
           NEW n, NEW state,
           EndsAt(n, t, Taken(t, Len(calls) + 1)), Has(state, t, Len(calls) + 1)
    PROVE  EndsAt(n, t, Taken(t, Len(calls) + 1))' /\ Has(state, t, Len(calls) + 1)'
  <1>1. Taken(t, Len(calls) + 1)' = Taken(t, Len(calls) + 1)
    BY TakenRests
  <1>2. PICK S, x, y : S = Taken(t, x) /\ x = Len(calls) + 1 /\ y = Len(calls)' + 1
    OBVIOUS
  <1>3. x \in 1..(Len(calls) + 1)
    BY <1>2, Lengths DEF IInv
  <1>4. \A d \in S : d \in DOMAIN calls /\ calls[d].node # 0
    BY <1>2, <1>3, TakenBefore
  <1>5. EndsAt(n, t, S)'
    BY <1>2, <1>4, EndsStays
  <1>6. Taken(t, y)' = Taken(t, x)
    BY <1>1, <1>2 DEF Taken
  <1>7. Has(state, t, y)'
    BY <1>2, <1>3, <1>6, HasStays
  <1>8. EndsAt(n, t, Taken(t, Len(calls) + 1))'
    BY <1>1, <1>2, <1>5
  <1> QED BY <1>2, <1>7, <1>8

LEMMA RepliesStay ==
    ASSUME IInv, Frame, NEW reply \in replies
    PROVE  ReplyIn(reply)'
  <1>1. ReplyIn(reply)
    BY DEF IInv, RepliesOK
  <1>2. PICK c, n : c = reply.call /\ n = reply.node
    OBVIOUS
  <1>3. c \in DOMAIN calls /\ calls[c].node # 0 /\ n \in DOMAIN dag
    BY <1>1, <1>2 DEF ReplyIn
  <1>4. c \in DOMAIN calls' /\ calls'[c].node = calls[c].node /\ calls'[c].turn = calls[c].turn
    BY <1>3, SentStays, CallTurnStays
  <1>5. n \in DOMAIN dag' /\ dag'[n] = dag[n]
    BY <1>3, DagKept
  <1>6. ReplyOK(c, reply.state, reply.answer)'
    BY <1>1, <1>2, <1>3, ReplyStays DEF ReplyIn
  <1> QED BY <1>1, <1>2, <1>3, <1>4, <1>5, <1>6 DEF ReplyIn

LEMMA WorkerStays ==
    ASSUME IInv, Frame, NEW op \in Ops, worker'[op] = worker[op],
           worker[op].at # "idle" => worker[op].call \in requests'
    PROVE  WorkerOK(op)'
  <1>1. CASE worker[op].at = "idle"
    BY <1>1 DEF WorkerOK
  <1>2. CASE worker[op].at # "idle"
    <2>1. PICK c : c = worker[op].call
      OBVIOUS
    <2>2. WorkerOK(op) /\ c \in requests /\ c \in DOMAIN calls /\ calls[c].node # 0
      BY <1>2, <2>1 DEF IInv, WorkersOK, WorkerOK, RequestsOK
    <2>3. /\ Sent(c)' = Sent(c) /\ NextView(c)' = NextView(c) /\ SessionOf(c)' = SessionOf(c)
          /\ calls'[c].op = calls[c].op /\ calls'[c].value = calls[c].value
          /\ SessionOf(c) \in Sessions
      BY <2>2, SentStays, CallTurnStays, CallFacts DEF Frame, CallKept
    <2>4. TablesKept(SessionOf(c)) /\ (Known(SessionOf(c), Sent(c)) => Known(SessionOf(c), Sent(c))')
      BY <2>3, KnownStays DEF Frame, Known
    <2>5. worker[op].at = "done" => ReplyOK(c, worker[op].state, Absent)'
      BY <1>2, <2>1, <2>2, ReplyStays DEF WorkerOK
    <2> QED BY <1>2, <2>1, <2>2, <2>3, <2>4, <2>5 DEF WorkerOK, TablesKept
  <1> QED BY <1>1, <1>2

LEMMA RequestsStay ==
    ASSUME IInv, Frame, requests' \subseteq requests
    PROVE  RequestsOK'
  BY SentStays DEF IInv, RequestsOK

\* The store and its worker are left alone.
LEMMA StoreSide ==
    ASSUME IInv, Frame, UNCHANGED <<worker, store>>, requests \subseteq requests',
           replies' \subseteq replies
    PROVE  RepliesOK' /\ WorkersOK' /\ StoreOK'
  <1>1. RepliesOK'
    BY RepliesStay DEF RepliesOK
  <1>2. WorkersOK'
    <2> SUFFICES ASSUME NEW op \in Ops PROVE WorkerOK(op)'
      BY DEF WorkersOK
    <2>1. worker[op].at # "idle" => worker[op].call \in requests
      BY DEF IInv, WorkersOK, WorkerOK
    <2> QED BY <2>1, WorkerStays
  <1>3. StoreOK'
    BY DEF IInv, StoreOK, CommitsWhole, Known, ViewOf
  <1> QED BY <1>1, <1>2, <1>3

\* The sidecar keeps its turn, and its open calls go on.
LEMMA OpenStays ==
    ASSUME IInv, TypeOK', Frame, dispatch' = dispatch, NEW c \in Open, c \in Open',
           Orderly(c)' => Len(calls)' = Len(calls),
           Orderly(c)' /\ calls'[c].at = "routed" => calls[c].at = "routed" /\ head' = head
    PROVE  OpenOK(c)'
  <1>1. c \in DOMAIN calls /\ OpenOK(c) /\ calls'[c].parent = calls[c].parent
    BY OpenFacts DEF Frame, CallKept
  <1>2. /\ calls'[c].turn = calls[c].turn /\ (Apart(c)' => Apart(c)) /\ (Orderly(c)' => Orderly(c))
    BY <1>1, CallTurnStays
  <1>3. dispatch.at # "idle" /\ turns'[dispatch.turn].apart => turns[dispatch.turn].apart
    BY DEF Frame, TurnKept, IInv, DispatchOK, RegistersOK
  <1>4. calls[c].parent \in DOMAIN dag => dag'[calls[c].parent] = dag[calls[c].parent]
                                          /\ calls[c].parent \in DOMAIN dag'
    BY DagKept
  <1> QED BY <1>1, <1>2, <1>3, <1>4 DEF OpenOK

\* The registers stay, and so does what was taken.
LEMMA HeadStays ==
    ASSUME IInv, TypeOK', Frame, UNCHANGED <<dispatch, head, register>>,
           \A d \in DOMAIN calls :
               calls[d].at \in {"headed", "ok"} \/ calls'[d].at \in {"headed", "ok"} =>
                   calls'[d] = calls[d]
    PROVE  HeadApart' /\ HeadOrderly'
  <1>1. CASE ~Headed
    BY <1>1 DEF HeadApart, HeadOrderly, Headed
  <1>2. CASE Headed
    <2>1. PICK t : t = dispatch.turn
      OBVIOUS
    <2>2. t \in DOMAIN turns /\ TurnKept(t) /\ turns[t].session \in Sessions
      BY <1>2, <2>1, TurnType DEF IInv, DispatchOK, RegistersOK, Headed, Frame
    <2>3. Latest' = Latest /\ (Reading' <=> Reading)
      BY DEF Latest, Reading
    <2>4. ASSUME turns'[t].apart
          PROVE  /\ head \in DOMAIN dag' /\ dag'[head].turn = t /\ dag'[head] = dag[head]
                 /\ Reading => Known(turns[t].session, Latest)'
      <3>1. head \in DOMAIN dag /\ dag[head].turn = t /\ (Reading => Known(turns[t].session, Latest))
        BY <1>2, <2>1, <2>2, <2>4 DEF IInv, DispatchOK, HeadApart, TurnKept
      <3>2. PICK s, state : s = turns[t].session /\ state = Latest
        OBVIOUS
      <3>3. Known(s, state) => Known(s, state)'
        BY <2>2, <3>2, KnownStays
      <3>4. Known(turns[t].session, Latest)' <=> Known(s, state)'
        BY <2>2, <2>3, <3>2 DEF Known, TurnKept
      <3> QED BY <3>1, <3>2, <3>3, <3>4, DagKept
    <2>5. HeadApart'
      BY <2>1, <2>3, <2>4 DEF HeadApart
    <2>6. ASSUME turns'[t].orderly
          PROVE  /\ EndsAt(head, t, Taken(t, Len(calls) + 1))'
                 /\ Has(dag[head].state, t, Len(calls) + 1)'
                 /\ Reading' => \/ Latest' = dag'[head].state
                                \/ \E c \in Open' : calls'[c].at = "headed"
                 /\ \A c \in Open' : calls'[c].at = "headed" => calls'[c].state = dag'[head].state
      <3>1. /\ EndsAt(head, t, Taken(t, Len(calls) + 1)) /\ Has(dag[head].state, t, Len(calls) + 1)
            /\ Reading => Latest = dag[head].state \/ \E c \in Open : calls[c].at = "headed"
            /\ \A c \in Open : calls[c].at = "headed" => calls[c].state = dag[head].state
        BY <1>2, <2>1, <2>2, <2>6 DEF IInv, DispatchOK, HeadOrderly, TurnKept
      <3>2. head \in DOMAIN dag /\ dag'[head] = dag[head]
        BY <3>1, DagKept DEF EndsAt
      <3>3. PICK n, state : n = head /\ state = dag[head].state
        OBVIOUS
      <3>4. /\ EndsAt(n, t, Taken(t, Len(calls) + 1))'
            /\ Has(state, t, Len(calls) + 1)'
        BY <2>2, <2>6, <3>1, <3>3, ChainStays
      <3>11. \A c : c \in Open' /\ calls'[c].at = "headed" <=> c \in Open /\ calls[c].at = "headed"
        BY DEF Open, Frame
      <3>12. \A c \in Open : calls[c].at = "headed" => calls'[c] = calls[c]
        BY DEF Open
      <3>13. EndsAt(head, t, Taken(t, Len(calls) + 1))'
        BY <3>3, <3>4
      <3>14. Has(dag[head].state, t, Len(calls) + 1)'
        BY <3>2, <3>3, <3>4
      <3> QED BY <2>3, <3>1, <3>2, <3>11, <3>12, <3>13, <3>14
    <2>7. HeadOrderly'
      BY <2>1, <2>6 DEF HeadOrderly
    <2> QED BY <2>5, <2>7
  <1> QED BY <1>1, <1>2

\* The sidecar is left alone.
LEMMA SidecarSide ==
    ASSUME IInv, TypeOK', Frame, UNCHANGED <<turns, dispatch, registers, calls>>
    PROVE  /\ TurnsOK' /\ CallsOK' /\ AllOpenOK' /\ DispatchOK'
           /\ \A n \in DOMAIN dag : NodeOK(n)'
  <1>1. TurnsOK'
    BY TurnStays DEF TurnsOK
  <1>2. CallsOK'
    BY SentOKStays, CallOKStays DEF CallsOK
  <1>3. AllOpenOK'
    <2>1. Open' = Open /\ head' = head
      BY DEF Open, registers
    <2> QED BY <2>1, OpenStays DEF AllOpenOK
  <1>4. DispatchOK'
    <2>1. RegistersOK'
      BY DEF IInv, DispatchOK, RegistersOK, Open, Reading, registers
    <2>2. HeadApart' /\ HeadOrderly'
      BY HeadStays DEF registers
    <2> QED BY <2>1, <2>2 DEF DispatchOK
  <1>5. \A n \in DOMAIN dag : NodeOK(n)'
    BY NodeStays DEF Live
  <1> QED BY <1>1, <1>2, <1>3, <1>4, <1>5

LEMMA FrameSame ==
    ASSUME Continues(dag', dag), UNCHANGED <<turns, calls>>, \A s \in Sessions : TablesKept(s)
    PROVE  Frame
  BY DEF Frame, TurnKept, CallKept

-----------------------------------------------------------------------------
(* The steps of the worker's tasks *)

WorkerRecord == [at : {"idle", "filed", "valued", "snapped", "done", "responded"},
                 call : 0..Len(calls), state : MaybeState]

LEMMA WorkersType == ASSUME TypeOK PROVE worker \in [Ops -> WorkerRecord]
  BY DEF TypeOK, WorkerRecord

\* A step of one task that writes its tables.
LEMMA TaskStep ==
    ASSUME IInv, UNCHANGED <<turns, dispatch, registers, calls, dag, requests, replies, faults>>,
           store' \in Tables, \A s \in Sessions : TablesKept(s),
           NEW op \in Ops, NEW task \in WorkerRecord, worker' = [worker EXCEPT ![op] = task],
           WorkerOK(op)', StoreOK'
    PROVE  IInv'
  <1>1. worker \in [Ops -> WorkerRecord] /\ TypeOK
    BY WorkersType DEF IInv
  <1>2. worker' \in [Ops -> WorkerRecord] /\ worker'[op] = task
        /\ \A other \in Ops \ {op} : worker'[other] = worker[other]
    BY <1>1
  <1>3. TypeOK'
    BY <1>1, <1>2 DEF TypeOK, Tables, WorkerRecord, registers
  <1>4. Frame
    BY FrameSame, SelfContinues
  <1>5. /\ TurnsOK' /\ CallsOK' /\ AllOpenOK' /\ DispatchOK' /\ NodesOK'
    BY <1>3, <1>4, SidecarSide DEF NodesOK
  <1>6. RequestsOK' /\ RepliesOK'
    BY <1>4, RequestsStay, RepliesStay DEF RepliesOK
  <1>7. WorkersOK'
    <2> SUFFICES ASSUME NEW other \in Ops \ {op} PROVE WorkerOK(other)'
      BY DEF WorkersOK
    <2>1. worker[other].at # "idle" => worker[other].call \in requests
      BY DEF IInv, WorkersOK, WorkerOK
    <2> QED BY <1>2, <1>4, <2>1, WorkerStays
  <1> QED BY <1>3, <1>5, <1>6, <1>7 DEF IInv

\* A task begins on a request.
LEMMA Received ==
    ASSUME IInv, NEW op, NEW c \in requests, Receives(op, c)
    PROVE  /\ op \in Ops /\ calls[c].op = op /\ c \in DOMAIN calls /\ calls[c].node # 0
           /\ Sent(c) \in State /\ SessionOf(c) \in Sessions
           /\ \A at \in {"filed", "done", "responded"} :
                  [at |-> at, call |-> c, state |-> Sent(c)] \in WorkerRecord
  <1>1. c \in DOMAIN calls /\ calls[c].node # 0 /\ calls[c].op = op
    BY DEF IInv, RequestsOK, Receives
  <1>2. op \in Ops /\ Sent(c) \in State /\ SessionOf(c) \in Sessions /\ c \in 0..Len(calls)
    BY <1>1, CallType, SentFacts, CallFacts, Lengths DEF IInv
  <1>3. \A at \in {"filed", "done", "responded"} :
            [at |-> at, call |-> c, state |-> Sent(c)] \in WorkerRecord
    BY <1>2 DEF WorkerRecord, MaybeState
  <1> QED BY <1>1, <1>2, <1>3

LEMMA WritesOK ==
    ASSUME IInv, \A s \in Sessions : TablesKept(s) /\ store'[s].commits = store[s].commits
    PROVE  StoreOK'
  BY DEF IInv, StoreOK, CommitsWhole, Known, ViewOf, TablesKept

\* A put or a delete writes the table of current values.
LEMMA FileWritten ==
    ASSUME TypeOK, NEW s \in Sessions, NEW p \in Paths, NEW v \in MaybeValue,
           store' = [store EXCEPT ![s].files[p] = v]
    PROVE  /\ store' \in Tables
           /\ \A other \in Sessions : /\ TablesKept(other)
                                      /\ store'[other].commits = store[other].commits
  <1>1. store \in Tables
    BY TypeParts
  <1>2. PICK row : row = [store[s] EXCEPT !.files[p] = v]
    OBVIOUS
  <1>3. /\ row.files = [store[s].files EXCEPT ![p] = v]
        /\ row.values = store[s].values /\ row.snapshots = store[s].snapshots
        /\ row.commits = store[s].commits
        /\ row = [files |-> row.files, values |-> row.values, snapshots |-> row.snapshots,
                  commits |-> row.commits]
    BY <1>1, <1>2, StoreType
  <1>4. row.files \in View
    BY <1>3, StoreType DEF View, MaybeValue
  <1>5. row \in [files : View, values : SUBSET Values, snapshots : SUBSET View,
                 commits : SUBSET State]
    BY <1>3, <1>4, StoreType
  <1>6. store' = [store EXCEPT ![s] = row]
    BY <1>2
  <1> QED BY <1>1, <1>3, <1>5, <1>6 DEF Tables, TablesKept

LEMMA DeleteInv ==
    ASSUME IInv, NEW c \in requests, Delete(c)
    PROVE  IInv'
  <1>1. Receives("delete", c)
    BY DEF Delete
  <1>2. PICK state, task : state = Sent(c) /\ task = [at |-> "done", call |-> c, state |-> state]
    OBVIOUS
  <1>3. /\ "delete" \in Ops /\ calls[c].op = "delete" /\ c \in DOMAIN calls /\ calls[c].node # 0
        /\ state \in State /\ SessionOf(c) \in Sessions /\ task \in WorkerRecord
    BY <1>1, <1>2, Received
  <1>4. calls[c].path \in Paths /\ Absent \in MaybeValue
    BY <1>3, CallFacts DEF CallOK, MaybeValue
  <1>5. /\ store' \in Tables
        /\ \A s \in Sessions : TablesKept(s) /\ store'[s].commits = store[s].commits
    BY <1>3, <1>4, FileWritten DEF Delete, IInv
  <1>6. worker' = [worker EXCEPT !["delete"] = task]
    BY <1>2 DEF Delete, Begin
  <1>7. worker'["delete"] = task
    BY <1>3, <1>6, WorkersType DEF IInv
  <1>8. ReplyOK(c, state, Absent)'
    <2>1. Sent(c)' = state /\ calls' = calls
      BY <1>2 DEF Sent, Delete
    <2> QED BY <1>3, <2>1 DEF ReplyOK
  <1>9. WorkerOK("delete")'
    <2>1. /\ worker'["delete"].at = "done" /\ worker'["delete"].call = c
          /\ worker'["delete"].state = state
      BY <1>2, <1>7
    <2>2. c \in requests' /\ calls'[c].op = "delete"
      BY <1>3 DEF Delete
    <2> QED BY <1>3, <1>8, <2>1, <2>2 DEF WorkerOK
  <1>10. StoreOK'
    BY <1>5, WritesOK
  <1> QED BY <1>3, <1>5, <1>6, <1>9, <1>10, TaskStep DEF Delete

LEMMA PutFileInv ==
    ASSUME IInv, NEW c \in requests, PutFile(c)
    PROVE  IInv'
  <1>1. Receives("put", c)
    BY DEF PutFile
  <1>2. PICK state, task : state = Sent(c) /\ task = [at |-> "filed", call |-> c, state |-> state]
    OBVIOUS
  <1>3. /\ "put" \in Ops /\ calls[c].op = "put" /\ c \in DOMAIN calls /\ calls[c].node # 0
        /\ state \in State /\ SessionOf(c) \in Sessions /\ task \in WorkerRecord
    BY <1>1, <1>2, Received
  <1>4. calls[c].path \in Paths /\ calls[c].value \in MaybeValue
    BY <1>3, PutFacts DEF MaybeValue
  <1>5. /\ store' \in Tables
        /\ \A s \in Sessions : TablesKept(s) /\ store'[s].commits = store[s].commits
    BY <1>3, <1>4, FileWritten DEF PutFile, IInv
  <1>6. worker' = [worker EXCEPT !["put"] = task]
    BY <1>2 DEF PutFile, Begin
  <1>7. worker'["put"] = task
    BY <1>3, <1>6, WorkersType DEF IInv
  <1>8. Sent(c)' = state /\ calls' = calls /\ requests' = requests
    BY <1>2 DEF Sent, PutFile
  <1>9. WorkerOK("put")'
    <2>1. /\ worker'["put"].at = "filed" /\ worker'["put"].call = c
          /\ worker'["put"].state = state
      BY <1>2, <1>7
    <2> QED BY <1>3, <1>8, <2>1 DEF WorkerOK
  <1>10. StoreOK'
    BY <1>5, WritesOK
  <1> QED BY <1>3, <1>5, <1>6, <1>9, <1>10, TaskStep DEF PutFile

\* What the invariant says of a task's request.
LEMMA TaskFacts ==
    ASSUME IInv, NEW op \in Ops, worker[op].at # "idle", NEW c, c = worker[op].call
    PROVE  /\ c \in requests /\ c \in DOMAIN calls /\ calls[c].node # 0 /\ calls[c].op = op
           /\ SessionOf(c) \in Sessions /\ Sent(c) \in State
           /\ worker[op] \in WorkerRecord
           /\ worker[op].at \in {"filed", "valued", "snapped"} => worker[op].state = Sent(c)
           /\ worker[op].at \in {"valued", "snapped"} =>
                  calls[c].value \in store[SessionOf(c)].values
           /\ worker[op].at = "snapped" => /\ Known(SessionOf(c), Sent(c))
                                           /\ NextView(c) \in store[SessionOf(c)].snapshots
           /\ worker[op].at = "done" => /\ op \in {"put", "delete"} /\ worker[op].state \in State
                                        /\ ReplyOK(c, worker[op].state, Absent)
  <1>1. WorkerOK(op)
    BY DEF IInv, WorkersOK
  <1>2. c \in requests /\ calls[c].op = op
    BY <1>1 DEF WorkerOK
  <1>3. c \in DOMAIN calls /\ calls[c].node # 0
    BY <1>2 DEF IInv, RequestsOK
  <1>4. SessionOf(c) \in Sessions /\ Sent(c) \in State
    BY <1>3, CallFacts, SentFacts
  <1>5. worker[op] \in WorkerRecord
    BY WorkersType DEF IInv
  <1> QED BY <1>1, <1>2, <1>3, <1>4, <1>5 DEF WorkerOK

\* A task goes on with the same request.
LEMMA TaskGoesOn ==
    ASSUME IInv, NEW op \in Ops, NEW from, NEW to, Step(op, from, to), from # "idle",
           to \in {"valued", "snapped", "done", "responded"},
           NEW task, task = [worker[op] EXCEPT !.at = to]
    PROVE  /\ worker' = [worker EXCEPT ![op] = task] /\ worker'[op] = task
           /\ task \in WorkerRecord /\ task.at = to
           /\ task.call = worker[op].call /\ task.state = worker[op].state
  <1>1. worker \in [Ops -> WorkerRecord]
    BY WorkersType DEF IInv
  <1>2. worker[op] \in WorkerRecord
    BY <1>1
  <1>3. /\ task \in WorkerRecord /\ task.at = to
        /\ task.call = worker[op].call /\ task.state = worker[op].state
    BY <1>2 DEF WorkerRecord
  <1>4. worker' = [worker EXCEPT ![op] = task]
    BY DEF Step
  <1> QED BY <1>1, <1>3, <1>4

LEMMA PutValueInv ==
    ASSUME IInv, PutValue
    PROVE  IInv'
  <1>1. PICK c, s, state, task : /\ c = worker["put"].call /\ s = SessionOf(c) /\ state = Sent(c)
                                 /\ task = [worker["put"] EXCEPT !.at = "valued"]
    OBVIOUS
  <1>2. "put" \in Ops /\ Step("put", "filed", "valued") /\ worker["put"].at = "filed"
    BY DEF Ops, PutValue, Step
  <1>3. /\ c \in requests /\ c \in DOMAIN calls /\ calls[c].node # 0 /\ calls[c].op = "put"
        /\ s \in Sessions /\ worker["put"].state = state /\ calls[c].value \in Values
    BY <1>1, <1>2, TaskFacts, PutFacts
  <1>4. /\ worker' = [worker EXCEPT !["put"] = task] /\ worker'["put"] = task
        /\ task \in WorkerRecord /\ task.at = "valued" /\ task.call = c /\ task.state = state
    BY <1>1, <1>2, <1>3, TaskGoesOn
  <1>5. store' = [store EXCEPT ![s].values = @ \cup {calls[c].value}]
    BY <1>1 DEF PutValue
  <1>6. store \in Tables /\ store[s].values \subseteq Values
    BY <1>3, TypeParts, StoreType DEF IInv
  <1>7. /\ store' \in Tables /\ calls[c].value \in store'[s].values
        /\ \A other \in Sessions : /\ TablesKept(other)
                                   /\ store'[other].commits = store[other].commits
    BY <1>3, <1>5, <1>6 DEF Tables, TablesKept
  <1>8. /\ Sent(c)' = state /\ calls' = calls /\ requests' = requests /\ SessionOf(c)' = s
    BY <1>1 DEF Sent, SessionOf, PutValue
  <1>9. WorkerOK("put")'
    BY <1>3, <1>4, <1>7, <1>8 DEF WorkerOK
  <1>10. StoreOK'
    BY <1>7, WritesOK
  <1> QED BY <1>2, <1>4, <1>7, <1>9, <1>10, TaskStep DEF PutValue

LEMMA PutSnapshotInv ==
    ASSUME IInv, PutSnapshot
    PROVE  IInv'
  <1>1. PICK c, s, state, view, task :
            /\ c = worker["put"].call /\ s = SessionOf(c) /\ state = Sent(c)
            /\ view = NextView(c) /\ task = [worker["put"] EXCEPT !.at = "snapped"]
    OBVIOUS
  <1>2. "put" \in Ops /\ Step("put", "valued", "snapped") /\ worker["put"].at = "valued"
    BY DEF Ops, PutSnapshot, Step
  <1>3. /\ c \in requests /\ c \in DOMAIN calls /\ calls[c].node # 0 /\ calls[c].op = "put"
        /\ s \in Sessions /\ worker["put"].state = state /\ view \in View
        /\ calls[c].value \in store[s].values
    BY <1>1, <1>2, TaskFacts, PutFacts
  <1>4. /\ worker' = [worker EXCEPT !["put"] = task] /\ worker'["put"] = task
        /\ task \in WorkerRecord /\ task.at = "snapped" /\ task.call = c /\ task.state = state
    BY <1>1, <1>2, <1>3, TaskGoesOn
  <1>5. store' = [store EXCEPT ![s].snapshots = @ \cup {view}] /\ Known(s, state)
    BY <1>1 DEF PutSnapshot
  <1>6. store \in Tables /\ store[s].snapshots \subseteq View
    BY <1>3, TypeParts, StoreType DEF IInv
  <1>7. /\ store' \in Tables /\ view \in store'[s].snapshots
        /\ \A other \in Sessions : /\ TablesKept(other)
                                   /\ store'[other].commits = store[other].commits
    BY <1>3, <1>5, <1>6 DEF Tables, TablesKept
  <1>8. /\ Sent(c)' = state /\ calls' = calls /\ requests' = requests /\ SessionOf(c)' = s
        /\ NextView(c)' = view
    BY <1>1 DEF Sent, SessionOf, NextView, ViewOf, PutSnapshot
  <1>9. Known(SessionOf(c), Sent(c))' /\ calls[c].value \in store'[s].values
    BY <1>3, <1>5, <1>7, <1>8 DEF Known, TablesKept
  <1>10. WorkerOK("put")'
    BY <1>3, <1>4, <1>7, <1>8, <1>9 DEF WorkerOK
  <1>11. StoreOK'
    BY <1>7, WritesOK
  <1> QED BY <1>2, <1>4, <1>7, <1>10, <1>11, TaskStep DEF PutSnapshot

\* A new commit names its parent, its snapshot and their values.
LEMMA CommitWritten ==
    ASSUME IInv, NEW s \in Sessions, NEW state \in State, NEW view \in View, NEW commit,
           commit = Append(state, view), Known(s, state), view \in store[s].snapshots,
           \A p \in Paths : view[p] \in store[s].values \cup {Absent},
           store' = [store EXCEPT ![s].commits = @ \cup {commit}]
    PROVE  /\ store' \in Tables /\ (\A other \in Sessions : TablesKept(other)) /\ StoreOK'
           /\ commit \in store'[s].commits
  <1>1. /\ commit \in State /\ commit # Root /\ ViewOf(commit) = view
        /\ SubSeq(commit, 1, Len(commit) - 1) = state
    BY StateCommit
  <1>2. store \in Tables /\ store[s].commits \subseteq State
    BY TypeParts, StoreType DEF IInv
  <1>3. /\ store' \in Tables /\ store'[s].commits = store[s].commits \cup {commit}
        /\ \A other \in Sessions : /\ store'[other].values = store[other].values
                                   /\ store'[other].snapshots = store[other].snapshots
                                   /\ other # s => store'[other].commits = store[other].commits
    BY <1>1, <1>2 DEF Tables
  <1>4. \A other \in Sessions : TablesKept(other)
    BY <1>3 DEF TablesKept
  <1>5. ASSUME NEW other \in Sessions, NEW k \in store'[other].commits
        PROVE  /\ Known(other, SubSeq(k, 1, Len(k) - 1))'
               /\ ViewOf(k) \in store'[other].snapshots
               /\ \A p \in Paths : ViewOf(k)[p] \in store'[other].values \cup {Absent}
               /\ k # Root
    <2>1. CASE k \in store[other].commits
      <3>1. /\ Known(other, SubSeq(k, 1, Len(k) - 1)) /\ ViewOf(k) \in store[other].snapshots
            /\ \A p \in Paths : ViewOf(k)[p] \in store[other].values \cup {Absent}
            /\ k # Root
        BY <2>1 DEF IInv, StoreOK, CommitsWhole
      <3>2. Known(other, SubSeq(k, 1, Len(k) - 1))'
        BY <1>4, <3>1 DEF Known, TablesKept
      <3> QED BY <1>3, <3>1, <3>2
    <2>2. CASE k \notin store[other].commits
      <3>1. other = s /\ k = commit
        BY <1>3, <1>5, <2>2
      <3>2. Known(s, state)'
        BY <1>3 DEF Known
      <3> QED BY <1>1, <1>3, <3>1, <3>2
    <2> QED BY <2>1, <2>2
  <1>6. StoreOK'
    BY <1>5 DEF StoreOK, CommitsWhole, ViewOf
  <1> QED BY <1>3, <1>4, <1>6

LEMMA PutCommitInv ==
    ASSUME IInv, PutCommit
    PROVE  IInv'
  <1>1. PICK c, s, state, view, commit, task :
            /\ c = worker["put"].call /\ s = SessionOf(c) /\ state = Sent(c)
            /\ view = NextView(c) /\ commit = Append(state, view)
            /\ task = [worker["put"] EXCEPT !.at = "done", !.state = commit]
    OBVIOUS
  <1>2. "put" \in Ops /\ worker["put"].at = "snapped"
    BY DEF Ops, PutCommit
  <1>3. /\ c \in requests /\ c \in DOMAIN calls /\ calls[c].node # 0 /\ calls[c].op = "put"
        /\ s \in Sessions /\ state \in State /\ view \in View /\ Known(s, state)
        /\ calls[c].value \in store[s].values /\ view \in store[s].snapshots
        /\ commit = Commit(c) /\ commit \in State /\ worker["put"] \in WorkerRecord
    BY <1>1, <1>2, TaskFacts, PutFacts DEF Commit
  <1>4. \A p \in Paths : view[p] \in store[s].values \cup {Absent}
    <2>1. \A p \in Paths : ViewOf(state)[p] \in store[s].values \cup {Absent}
      <3>1. CASE state = Root
        BY <3>1 DEF ViewOf, Empty
      <3>2. CASE state # Root
        BY <1>3, <3>2 DEF Known, IInv, StoreOK, CommitsWhole
      <3> QED BY <3>1, <3>2
    <2>2. /\ view[calls[c].path] = calls[c].value
          /\ \A p \in Paths : p # calls[c].path => view[p] = ViewOf(state)[p]
      BY <1>1, <1>3, PutFacts
    <2> QED BY <1>3, <2>1, <2>2
  <1>5. store' = [store EXCEPT ![s].commits = @ \cup {commit}]
    BY <1>1 DEF PutCommit
  <1>6. /\ store' \in Tables /\ (\A other \in Sessions : TablesKept(other)) /\ StoreOK'
        /\ commit \in store'[s].commits
    BY <1>1, <1>3, <1>4, <1>5, CommitWritten
  <1>7. worker' = [worker EXCEPT !["put"] = task]
    BY <1>1 DEF PutCommit
  <1>8. /\ task \in WorkerRecord /\ task.at = "done" /\ task.call = c /\ task.state = commit
    BY <1>1, <1>3 DEF WorkerRecord, MaybeState
  <1>9. worker'["put"] = task
    BY <1>2, <1>7, WorkersType DEF IInv
  <1>10. /\ calls' = calls /\ requests' = requests /\ SessionOf(c)' = s /\ Sent(c)' = state
         /\ NextView(c)' = view
    BY <1>1 DEF Sent, SessionOf, NextView, ViewOf, PutCommit
  <1>11. ReplyOK(c, commit, Absent)'
    BY <1>1, <1>3, <1>6, <1>10 DEF ReplyOK, Commit
  <1>12. WorkerOK("put")'
    BY <1>3, <1>8, <1>9, <1>10, <1>11 DEF WorkerOK
  <1> QED BY <1>2, <1>6, <1>7, <1>8, <1>12, TaskStep DEF PutCommit

LEMMA PutUnknownInv ==
    ASSUME IInv, PutUnknown
    PROVE  IInv'
  <1>1. PICK c, state, task : /\ c = worker["put"].call /\ state = Sent(c)
                              /\ task = [worker["put"] EXCEPT !.at = "done"]
    OBVIOUS
  <1>2. "put" \in Ops /\ Step("put", "valued", "done") /\ worker["put"].at = "valued"
    BY DEF Ops, PutUnknown, Step
  <1>3. /\ c \in requests /\ c \in DOMAIN calls /\ calls[c].node # 0 /\ calls[c].op = "put"
        /\ worker["put"].state = state /\ state \in State
    BY <1>1, <1>2, TaskFacts
  <1>4. /\ worker' = [worker EXCEPT !["put"] = task] /\ worker'["put"] = task
        /\ task \in WorkerRecord /\ task.at = "done" /\ task.call = c /\ task.state = state
    BY <1>1, <1>2, <1>3, TaskGoesOn
  <1>5. ~Apart(c)
    BY <1>1, <1>3, SentFacts DEF PutUnknown
  <1>6. ReplyOK(c, state, Absent)'
    BY <1>1, <1>3, <1>5 DEF ReplyOK, Sent, Apart, PutUnknown
  <1>7. calls' = calls /\ requests' = requests /\ store' = store
    BY DEF PutUnknown
  <1>8. WorkerOK("put")'
    BY <1>3, <1>4, <1>6, <1>7 DEF WorkerOK
  <1>9. store' \in Tables /\ StoreOK' /\ \A s \in Sessions : TablesKept(s)
    BY <1>7, TypeParts, WritesOK DEF IInv, TablesKept
  <1> QED BY <1>2, <1>4, <1>8, <1>9, TaskStep DEF PutUnknown

\* What appending to the DAG does.
LEMMA NodeAppended ==
    ASSUME TypeOK, NEW node \in Node, dag' = Append(dag, node), NEW n, n = Len(dag) + 1
    PROVE  /\ dag' \in Seq(Node) /\ Len(dag)' = n /\ n \in Nat /\ n # 0 /\ Len(dag) \in Nat
           /\ Continues(dag', dag) /\ dag'[n] = node /\ n \notin DOMAIN dag
           /\ DOMAIN dag' = DOMAIN dag \cup {n} /\ 0..Len(dag) = 0..(n - 1)
           /\ 0..Len(dag) \subseteq 0..Len(dag)'
  <1>1. dag \in Seq(Node) /\ Len(dag) \in Nat /\ DOMAIN dag = 1..Len(dag)
    BY TypeParts, SeqElement
  <1>2. /\ dag' \in Seq(Node) /\ Len(dag') = Len(dag) + 1 /\ DOMAIN dag' = DOMAIN dag \cup {n}
        /\ dag'[n] = node /\ Continues(dag', dag)
    BY <1>1, SeqAppend, AppendContinues
  <1> QED BY <1>1, <1>2

\* An answer is recorded under its request, and published.
LEMMA PublishInv ==
    ASSUME IInv, NEW op \in Ops, NEW c \in requests, c \in DOMAIN calls, calls[c].node # 0,
           calls[c].op = op, NEW state \in State, NEW answer \in Response,
           ReplyOK(c, state, answer), Publish(c, state, answer),
           NEW task \in WorkerRecord, task.at = "responded", task.call = c,
           worker' = [worker EXCEPT ![op] = task],
           UNCHANGED <<turns, dispatch, registers, calls, requests, store, faults>>
    PROVE  IInv'
  <1>1. PICK n, parent, t, node, reply :
            /\ n = Len(dag) + 1 /\ parent = calls[c].node /\ t = calls[c].turn
            /\ node = [type |-> "response", parent |-> parent, turn |-> t, state |-> state]
            /\ reply = [call |-> c, node |-> n, state |-> state, answer |-> answer]
    OBVIOUS
  <1>2. /\ parent \in DOMAIN dag /\ dag[parent].turn = t /\ t \in DOMAIN turns /\ t \in Nat
        /\ parent \in Nat /\ parent \in 0..Len(dag) /\ parent # 0
        /\ turns[t].session \in Sessions /\ calls[c].key = t
    BY <1>1, SentFacts, CallFacts, TurnType, NodeType DEF IInv
  <1>3. node \in Node
    BY <1>1, <1>2 DEF Node
  <1>4. dag' = Append(dag, node) /\ replies' = replies \cup {reply}
    BY <1>1, <1>2 DEF Publish, AddNode
  <1>5. /\ dag' \in Seq(Node) /\ Len(dag)' = n /\ n \in Nat /\ n # 0 /\ Len(dag) \in Nat
        /\ Continues(dag', dag) /\ dag'[n] = node /\ n \notin DOMAIN dag
        /\ DOMAIN dag' = DOMAIN dag \cup {n} /\ 0..Len(dag) = 0..(n - 1)
        /\ 0..Len(dag) \subseteq 0..Len(dag)'
    BY <1>1, <1>3, <1>4, NodeAppended DEF IInv
  <1>6. /\ worker' \in [Ops -> WorkerRecord] /\ worker'[op] = task
        /\ \A other \in Ops \ {op} : worker'[other] = worker[other]
    BY WorkersType DEF IInv
  <1>7. TypeOK'
    <2>1. TypeOK /\ DOMAIN dag \subseteq DOMAIN dag'
      BY <1>5 DEF IInv
    <2>2. \A r \in replies' : /\ r.call \in DOMAIN calls' /\ r.node \in DOMAIN dag'
                              /\ r.state \in MaybeState /\ r.answer \in Response
      <3> SUFFICES ASSUME NEW r \in replies'
                   PROVE  /\ r.call \in DOMAIN calls' /\ r.node \in DOMAIN dag'
                          /\ r.state \in MaybeState /\ r.answer \in Response
        OBVIOUS
      <3>1. CASE r \in replies
        BY <1>5, <2>1, <3>1 DEF TypeOK
      <3>2. CASE r = reply
        BY <1>1, <1>5, <3>2 DEF MaybeState
      <3> QED BY <1>4, <3>1, <3>2
    <2>3. head' \in 0..Len(dag)'
      BY <1>5, <2>1 DEF TypeOK, registers
    <2> QED BY <1>5, <1>6, <2>1, <2>2, <2>3 DEF TypeOK, WorkerRecord, registers
  <1>8. Frame
    BY <1>5, FrameSame DEF TablesKept
  <1>9. /\ TurnsOK' /\ CallsOK' /\ AllOpenOK' /\ DispatchOK'
        /\ \A m \in DOMAIN dag : NodeOK(m)'
    BY <1>7, <1>8, SidecarSide
  <1>10. NodeOK(n)'
    <2>1. dag'[parent] = dag[parent]
      BY <1>2, <1>8, DagKept
    <2>2. turns[t].apart => Known(turns[t].session, state)
      BY <1>1, <1>2, SentFacts, CallFacts DEF ReplyOK, Apart, Known
    <2>3. turns'[t].apart => Known(turns[t].session, state)'
      BY <2>2 DEF Known
    <2> QED BY <1>1, <1>2, <1>5, <2>1, <2>3 DEF NodeOK, Known
  <1>11. NodesOK'
    BY <1>5, <1>9, <1>10 DEF NodesOK
  <1>12. RequestsOK'
    BY <1>8, RequestsStay
  <1>13. ReplyIn(reply)'
    <2>1. ReplyOK(c, state, answer)'
      BY <1>8, ReplyStays
    <2> QED BY <1>1, <1>5, <2>1 DEF ReplyIn
  <1>14. RepliesOK'
    BY <1>4, <1>8, <1>13, RepliesStay DEF RepliesOK
  <1>15. WorkersOK'
    <2>1. WorkerOK(op)'
      BY <1>6 DEF WorkerOK
    <2>2. ASSUME NEW other \in Ops \ {op} PROVE WorkerOK(other)'
      <3>1. worker[other].at # "idle" => worker[other].call \in requests
        BY DEF IInv, WorkersOK, WorkerOK
      <3> QED BY <1>6, <1>8, <3>1, WorkerStays
    <2> QED BY <2>1, <2>2 DEF WorkersOK
  <1>16. StoreOK'
    BY WritesOK DEF TablesKept
  <1> QED BY <1>7, <1>9, <1>11, <1>12, <1>14, <1>15, <1>16 DEF IInv

\* What a call reads.
LEMMA ContentsType ==
    ASSUME IInv, NEW c \in DOMAIN calls, calls[c].node # 0
    PROVE  Contents(c) \in View /\ (Sent(c) # Root => Contents(c) = ViewOf(Sent(c)))
  <1>1. store[SessionOf(c)].files \in View
    BY CallFacts, StoreType DEF IInv
  <1> QED BY <1>1, SentFacts DEF Contents

LEMMA ReadInv ==
    ASSUME IInv, NEW op \in {"get", "list"}, NEW c \in requests, NEW answer \in Response,
           Read(op, c, answer),
           Sent(c) # Root /\ Apart(c) =>
               /\ op = "get" => answer = ViewOf(Sent(c))[calls[c].path]
               /\ op = "list" => answer = {p \in Paths : ViewOf(Sent(c))[p] # Absent}
    PROVE  IInv'
  <1>1. Receives(op, c)
    BY DEF Read
  <1>2. PICK state, task : /\ state = Sent(c)
                           /\ task = [at |-> "responded", call |-> c, state |-> state]
    OBVIOUS
  <1>3. /\ op \in Ops /\ calls[c].op = op /\ c \in DOMAIN calls /\ calls[c].node # 0
        /\ state \in State /\ task \in WorkerRecord
    BY <1>1, <1>2, Received
  <1>4. worker' = [worker EXCEPT ![op] = task] /\ Publish(c, state, answer)
    BY <1>2 DEF Read, Begin
  <1>5. ReplyOK(c, state, answer)
    BY <1>2, <1>3 DEF ReplyOK
  <1>6. task.at = "responded" /\ task.call = c
    BY <1>2
  <1> QED BY <1>3, <1>4, <1>5, <1>6, PublishInv DEF Read

LEMMA ReadsInv ==
    ASSUME IInv, NEW c \in requests,
           Get(c) \/ List(c) \/ \E op \in {"get", "list"} : ReadUnknown(op, c)
    PROVE  IInv'
  <1>1. /\ c \in DOMAIN calls /\ calls[c].node # 0 /\ Contents(c) \in View
        /\ Sent(c) # Root => Contents(c) = ViewOf(Sent(c))
        /\ Apart(c) => Known(SessionOf(c), Sent(c))
    BY ContentsType, SentFacts DEF IInv, RequestsOK
  <1>2. CASE Get(c)
    <2>1. calls[c].path \in Paths
      BY <1>1, <1>2, CallFacts DEF Get, Read, Receives, CallOK
    <2>2. PICK answer : answer = Contents(c)[calls[c].path]
      OBVIOUS
    <2>3. answer \in Response
      BY <1>1, <2>1, <2>2 DEF View, Response, MaybeValue
    <2> QED BY <1>1, <1>2, <2>2, <2>3, ReadInv DEF Get
  <1>3. CASE List(c)
    <2>1. PICK answer : answer = {p \in Paths : Contents(c)[p] # Absent}
      OBVIOUS
    <2>2. answer \in Response
      BY <2>1 DEF Response
    <2> QED BY <1>1, <1>3, <2>1, <2>2, ReadInv DEF List
  <1>4. ASSUME NEW op \in {"get", "list"}, ReadUnknown(op, c)
        PROVE  IInv'
    <2>1. Absent \in Response /\ ~Apart(c)
      BY <1>1, <1>4 DEF ReadUnknown, Response, MaybeValue
    <2> QED BY <1>4, <2>1, ReadInv DEF ReadUnknown
  <1> QED BY <1>2, <1>3, <1>4

LEMMA RespondInv ==
    ASSUME IInv, NEW op \in Ops, Respond(op)
    PROVE  IInv'
  <1>1. PICK c, state, task : /\ c = worker[op].call /\ state = worker[op].state
                              /\ task = [worker[op] EXCEPT !.at = "responded"]
    OBVIOUS
  <1>2. Step(op, "done", "responded") /\ worker[op].at = "done"
    BY DEF Respond, Step
  <1>3. /\ c \in requests /\ c \in DOMAIN calls /\ calls[c].node # 0 /\ calls[c].op = op
        /\ state \in State /\ ReplyOK(c, state, Absent)
    BY <1>1, <1>2, TaskFacts
  <1>4. /\ worker' = [worker EXCEPT ![op] = task] /\ worker'[op] = task
        /\ task \in WorkerRecord /\ task.at = "responded" /\ task.call = c
    BY <1>1, <1>2, TaskGoesOn
  <1>5. Absent \in Response /\ Publish(c, state, Absent)
    BY <1>1 DEF Response, MaybeValue, Respond
  <1> QED BY <1>3, <1>4, <1>5, PublishInv DEF Respond

LEMMA FreeType == ASSUME TypeOK PROVE Free \in WorkerRecord
  BY Lengths DEF Free, WorkerRecord, MaybeState

LEMMA AcknowledgeInv ==
    ASSUME IInv, NEW op \in Ops, Acknowledge(op)
    PROVE  IInv'
  <1>1. PICK c : c = worker[op].call
    OBVIOUS
  <1>2. calls[c].op = op
    BY <1>1, TaskFacts DEF Acknowledge
  <1>3. /\ worker' \in [Ops -> WorkerRecord] /\ worker'[op] = Free
        /\ \A other \in Ops \ {op} : worker'[other] = worker[other]
    BY WorkersType, FreeType DEF Acknowledge, IInv
  <1>4. TypeOK'
    BY <1>3 DEF Acknowledge, IInv, TypeOK, WorkerRecord, registers
  <1>5. Frame
    BY FrameSame, SelfContinues DEF Acknowledge, TablesKept
  <1>6. /\ TurnsOK' /\ CallsOK' /\ AllOpenOK' /\ DispatchOK' /\ NodesOK'
    BY <1>4, <1>5, SidecarSide DEF NodesOK, Acknowledge
  <1>7. RequestsOK' /\ RepliesOK'
    BY <1>5, RequestsStay, RepliesStay DEF RepliesOK, Acknowledge
  <1>8. ASSUME NEW other \in Ops PROVE WorkerOK(other)'
    <2>1. CASE other = op
      BY <1>3, <2>1 DEF WorkerOK, Free
    <2>2. CASE other # op
      <3>1. worker[other].at # "idle" =>
                worker[other].call \in requests /\ calls[worker[other].call].op = other
        BY DEF IInv, WorkersOK, WorkerOK
      <3>2. worker[other].at # "idle" => worker[other].call \in requests'
        BY <1>1, <1>2, <2>2, <3>1 DEF Acknowledge
      <3> QED BY <1>3, <1>5, <2>2, <3>2, WorkerStays
    <2> QED BY <2>1, <2>2
  <1>9. StoreOK'
    BY WritesOK DEF TablesKept, Acknowledge
  <1> QED BY <1>4, <1>6, <1>7, <1>8, <1>9 DEF IInv, WorkersOK

LEMMA WorkerCrashInv ==
    ASSUME IInv, WorkerCrash
    PROVE  IInv'
  <1>1. worker' = [op \in Ops |-> Free] /\ worker' \in [Ops -> WorkerRecord]
    BY FreeType DEF WorkerCrash, IInv
  <1>2. TypeOK'
    <2>1. faults' \in 0..MaxFaults
      BY FaultType DEF WorkerCrash, IInv
    <2> QED BY <1>1, <2>1 DEF WorkerCrash, IInv, TypeOK, WorkerRecord, registers
  <1>3. Frame
    BY FrameSame, SelfContinues DEF WorkerCrash, TablesKept
  <1>4. /\ TurnsOK' /\ CallsOK' /\ AllOpenOK' /\ DispatchOK' /\ NodesOK'
    BY <1>2, <1>3, SidecarSide DEF NodesOK, WorkerCrash
  <1>5. RequestsOK' /\ RepliesOK'
    BY <1>3, RequestsStay, RepliesStay DEF RepliesOK, WorkerCrash
  <1>6. WorkersOK'
    BY <1>1 DEF WorkersOK, WorkerOK, Free
  <1>7. StoreOK'
    BY WritesOK DEF TablesKept, WorkerCrash
  <1> QED BY <1>2, <1>4, <1>5, <1>6, <1>7 DEF IInv

LEMMA WorkerInv == ASSUME IInv, Worker PROVE IInv'
  BY ReadsInv, DeleteInv, PutFileInv, PutValueInv, PutSnapshotInv, PutUnknownInv, PutCommitInv,
     RespondInv, AcknowledgeInv, WorkerCrashInv DEF Worker

-----------------------------------------------------------------------------
(* The steps of the provider server *)

\* The types after a step of the sidecar or of the provider server.
LEMMA SidecarTypes ==
    ASSUME TypeOK, turns' \in Seq(TurnRecord), calls' \in Seq(CallRecord), dag' \in Seq(Node),
           DOMAIN calls \subseteq DOMAIN calls', DOMAIN dag \subseteq DOMAIN dag',
           dispatch' \in DispatchRecord, head' \in 0..Len(dag)', routing' \in 0..Len(turns)',
           register' \in MaybeState, requests' \subseteq DOMAIN calls', replies' \subseteq replies,
           UNCHANGED <<worker, store>>, faults' \in 0..MaxFaults
    PROVE  TypeOK'
  <1>1. DOMAIN calls = 1..Len(calls) /\ DOMAIN calls' = 1..Len(calls)' /\ Len(calls) \in Nat
        /\ Len(calls)' \in Nat
    BY Lengths, SeqElement
  <1>2. 0..Len(calls) \subseteq 0..Len(calls)'
    BY <1>1
  <1>3. worker' \in [Ops -> [at : {"idle", "filed", "valued", "snapped", "done", "responded"},
                             call : 0..Len(calls)', state : MaybeState]]
    <2>1. \A op \in Ops : worker[op] \in WorkerRecord
      BY WorkersType
    <2>2. \A op \in Ops : worker[op] \in
              [at : {"idle", "filed", "valued", "snapped", "done", "responded"},
               call : 0..Len(calls)', state : MaybeState]
      BY <1>2, <2>1 DEF WorkerRecord
    <2> QED BY <2>2, WorkersType
  <1>4. \A r \in replies' : /\ r.call \in DOMAIN calls' /\ r.node \in DOMAIN dag'
                            /\ r.state \in MaybeState /\ r.answer \in Response
    BY DEF TypeOK
  <1> QED BY <1>3, <1>4 DEF TypeOK, TurnRecord, CallRecord, DispatchRecord

LEMMA CallSet ==
    ASSUME TypeOK, NEW c \in DOMAIN calls, NEW call \in CallRecord,
           calls' = [calls EXCEPT ![c] = call]
    PROVE  /\ calls' \in Seq(CallRecord) /\ Len(calls)' = Len(calls)
           /\ DOMAIN calls' = DOMAIN calls /\ calls'[c] = call
           /\ \A d \in DOMAIN calls \ {c} : calls'[d] = calls[d]
  BY TypeParts, SeqExcept

\* A step of an open call, that keeps what the call asks for.
Goes(c, call) ==
    /\ call.op = calls[c].op /\ call.path = calls[c].path /\ call.value = calls[c].value
    /\ call.turn = calls[c].turn /\ call.key = calls[c].key /\ call.parent = calls[c].parent
    /\ calls[c].node # 0 => call.node = calls[c].node

LEMMA CallGoes ==
    ASSUME IInv, NEW c \in Open, NEW call \in CallRecord, calls' = [calls EXCEPT ![c] = call],
           Goes(c, call), Continues(dag', dag), UNCHANGED <<turns, store>>
    PROVE  /\ Frame /\ calls' \in Seq(CallRecord) /\ Len(calls)' = Len(calls)
           /\ DOMAIN calls' = DOMAIN calls /\ calls'[c] = call
           /\ \A d \in DOMAIN calls \ {c} : calls'[d] = calls[d]
  <1>1. c \in DOMAIN calls
    BY OpenFacts
  <1>2. /\ calls' \in Seq(CallRecord) /\ Len(calls)' = Len(calls)
        /\ DOMAIN calls' = DOMAIN calls /\ calls'[c] = call
        /\ \A d \in DOMAIN calls \ {c} : calls'[d] = calls[d]
    BY <1>1, CallSet DEF IInv
  <1>3. \A d \in DOMAIN calls : CallKept(d)
    BY <1>2 DEF Goes, CallKept
  <1> QED BY <1>2, <1>3 DEF Frame, TurnKept, TablesKept

LEMMA LoseReplyInv ==
    ASSUME IInv, NEW c \in DOMAIN calls, LoseReply(c)
    PROVE  IInv'
  <1>1. PICK call : call = [calls[c] EXCEPT !.at = "failed"]
    OBVIOUS
  <1>2. /\ calls' = [calls EXCEPT ![c] = call] /\ calls[c].at = "sent" /\ c \in Open
    BY <1>1 DEF LoseReply, Open
  <1>3. /\ call \in CallRecord /\ Goes(c, call) /\ call.at = "failed" /\ call.node = calls[c].node
    BY <1>1, CallType DEF CallRecord, Goes, IInv
  <1>4. /\ Frame /\ calls' \in Seq(CallRecord) /\ Len(calls)' = Len(calls)
        /\ DOMAIN calls' = DOMAIN calls /\ calls'[c] = call
        /\ \A d \in DOMAIN calls \ {c} : calls'[d] = calls[d]
    BY <1>2, <1>3, CallGoes, SelfContinues DEF LoseReply
  <1>5. TypeOK'
    <2>1. faults' \in 0..MaxFaults
      BY FaultType DEF LoseReply, IInv
    <2> QED BY <1>4, <2>1, TypeParts, SidecarTypes DEF LoseReply, registers, IInv
  <1>6. TurnsOK'
    BY <1>4, TurnStays DEF TurnsOK, LoseReply
  <1>7. CallsOK'
    <2>1. CallOK(c)' /\ SentOK(c)'
      <3>1. SentOK(c)'
        BY <1>3, <1>4, SentOKStays
      <3>2. CallOK(c) /\ calls'[c].turn \in DOMAIN turns'
        BY <1>4, CallFacts, CallTurnStays
      <3>3. calls[c].parent \in 0..Len(dag)'
        BY <3>2 DEF CallOK, LoseReply
      <3> QED BY <1>3, <1>4, <3>1, <3>2, <3>3 DEF CallOK, Goes
    <2> QED BY <1>4, <1>5, <2>1, CallOKStays, SentOKStays DEF CallsOK
  <1>8. Open' \subseteq Open \ {c}
    BY <1>3, <1>4 DEF Open
  <1>9. AllOpenOK'
    BY <1>4, <1>5, <1>8, OpenStays DEF AllOpenOK, LoseReply, registers, Open
  <1>10. NodesOK'
    BY <1>4, <1>5, NodeStays DEF NodesOK, Live, LoseReply
  <1>11. DispatchOK'
    <2>1. RegistersOK'
      BY <1>3, <1>4, <1>8 DEF IInv, DispatchOK, RegistersOK, Reading, registers, LoseReply, Goes
    <2>2. HeadApart' /\ HeadOrderly'
      BY <1>2, <1>3, <1>4, <1>5, HeadStays DEF LoseReply, registers
    <2> QED BY <2>1, <2>2 DEF DispatchOK
  <1>12. RequestsOK' /\ RepliesOK' /\ WorkersOK' /\ StoreOK'
    BY <1>4, RequestsStay, StoreSide DEF LoseReply
  <1> QED BY <1>5, <1>6, <1>7, <1>9, <1>10, <1>11, <1>12 DEF IInv

LEMMA KeepStateInv ==
    ASSUME IInv, NEW c \in DOMAIN calls, KeepState(c)
    PROVE  IInv'
  <1>1. PICK call, state : call = [calls[c] EXCEPT !.at = "ok"] /\ state = calls[c].state
    OBVIOUS
  <1>2. /\ calls' = [calls EXCEPT ![c] = call] /\ calls[c].at = "headed" /\ c \in Open
    BY <1>1 DEF KeepState, Open
  <1>3. /\ call \in CallRecord /\ Goes(c, call) /\ call.at = "ok" /\ call.node = calls[c].node
        /\ call.state = state /\ call.answer = calls[c].answer
    BY <1>1, CallType DEF CallRecord, Goes, IInv
  <1>4. /\ Frame /\ calls' \in Seq(CallRecord) /\ Len(calls)' = Len(calls)
        /\ DOMAIN calls' = DOMAIN calls /\ calls'[c] = call
        /\ \A d \in DOMAIN calls \ {c} : calls'[d] = calls[d]
    BY <1>2, <1>3, CallGoes, SelfContinues DEF KeepState
  <1>5. CallOK(c) /\ calls[c].node # 0 /\ ReplyOK(c, state, calls[c].answer)
    BY <1>1, <1>2, CallFacts DEF CallOK
  <1>6. state \in State /\ (Apart(c) => Known(SessionOf(c), state)) /\ register' = state
    <2>1. /\ Sent(c) \in State /\ (Apart(c) => Known(SessionOf(c), Sent(c)))
          /\ calls[c].op = "put" => Commit(c) \in State
      BY <1>5, SentFacts, PutFacts
    <2>2. state \in State /\ (Apart(c) => Known(SessionOf(c), state))
      BY <1>5, <2>1 DEF ReplyOK, Known
    <2> QED BY <1>1, <2>2, NotAState DEF KeepState
  <1>7. TypeOK'
    BY <1>4, <1>6, TypeParts, SidecarTypes DEF KeepState, IInv, MaybeState
  <1>8. TurnsOK'
    BY <1>4, TurnStays DEF TurnsOK, KeepState
  <1>9. CallsOK'
    <2>1. SentOK(c)'
      BY <1>3, <1>4, SentOKStays
    <2>2. calls'[c].turn \in DOMAIN turns' /\ calls[c].parent \in 0..Len(dag)'
      BY <1>4, <1>5, CallTurnStays DEF CallOK, KeepState
    <2>3. ReplyOK(c, state, calls[c].answer)'
      <3>1. PICK answer : answer = calls[c].answer
        OBVIOUS
      <3>2. ReplyOK(c, state, answer)'
        BY <1>4, <1>5, <3>1, ReplyStays
      <3>3. answer = calls'[c].answer
        BY <1>3, <1>4, <3>1
      <3> QED BY <3>2, <3>3
    <2>4. CallOK(c)'
      BY <1>3, <1>4, <1>5, <2>2, <2>3 DEF CallOK, Goes
    <2> QED BY <1>4, <1>7, <2>1, <2>4, CallOKStays, SentOKStays DEF CallsOK
  <1>10. Open' \subseteq Open \ {c}
    BY <1>3, <1>4 DEF Open
  <1>11. AllOpenOK'
    BY <1>4, <1>7, <1>10, OpenStays DEF AllOpenOK, KeepState, Open
  <1>12. NodesOK'
    BY <1>4, <1>7, NodeStays DEF NodesOK, Live, KeepState
  <1>13. RegistersOK'
    BY <1>3, <1>4, <1>6, <1>10 DEF IInv, DispatchOK, RegistersOK, Reading, KeepState, Goes
  <1>14. CASE ~Headed
    <2>1. HeadApart' /\ HeadOrderly'
      BY <1>14 DEF Headed, HeadApart, HeadOrderly, KeepState
    <2> QED BY <1>4, <1>7, <1>8, <1>9, <1>11, <1>12, <1>13, <2>1, RequestsStay, StoreSide
            DEF IInv, DispatchOK, KeepState
  <1>15. CASE Headed
    <2>1. PICK t : t = dispatch.turn /\ t = dispatch'.turn
      BY DEF KeepState
    <2>2. /\ t \in DOMAIN turns /\ turns' = turns /\ dispatch' = dispatch /\ head' = head
          /\ dag' = dag /\ store' = store
      BY <1>15, <2>1 DEF IInv, DispatchOK, RegistersOK, Headed, KeepState
    <2>3. HeadApart'
      <3> SUFFICES ASSUME turns[t].apart
                   PROVE  /\ head \in DOMAIN dag /\ dag[head].turn = t
                          /\ Reading => Known(turns[t].session, Latest')
        BY <2>1, <2>2 DEF HeadApart, Known, Reading
      <3>1. calls[c].turn = t /\ Apart(c) /\ dispatch.at = "running"
        BY <1>2, <1>15, <2>1, LiveFacts DEF Headed
      <3>2. head \in DOMAIN dag /\ dag[head].turn = t
        BY <1>15, <2>1 DEF IInv, DispatchOK, HeadApart
      <3>3. Latest' = state
        BY <1>6, <2>2, <3>1 DEF Latest
      <3> QED BY <1>6, <3>1, <3>2, <3>3, CallFacts
    <2>4. HeadOrderly'
      <3> SUFFICES ASSUME turns[t].orderly
                   PROVE  /\ EndsAt(head, t, Taken(t, Len(calls) + 1))'
                          /\ Has(dag[head].state, t, Len(calls) + 1)'
                          /\ Latest' = dag[head].state
                          /\ \A d \in Open' : calls'[d].at # "headed"
        BY <2>1, <2>2 DEF HeadOrderly
      <3>1. /\ c = Len(calls) /\ Orderly(c) /\ turns[t].apart /\ dispatch.at = "running"
            /\ \A d \in Open : d = c
        BY <1>2, <1>15, <2>1, LiveFacts DEF Headed
      <3>2. /\ EndsAt(head, t, Taken(t, Len(calls) + 1)) /\ Has(dag[head].state, t, Len(calls) + 1)
            /\ state = dag[head].state
        BY <1>1, <1>2, <1>15, <2>1 DEF IInv, DispatchOK, HeadOrderly
      <3>3. PICK n, end : n = head /\ end = dag[head].state
        OBVIOUS
      <3>4. /\ EndsAt(n, t, Taken(t, Len(calls) + 1))'
            /\ Has(end, t, Len(calls) + 1)'
        BY <1>2, <1>3, <1>4, <1>7, <2>2, <3>2, <3>3, ChainStays
      <3>10. Latest' = dag[head].state
        BY <1>6, <2>2, <3>1, <3>2 DEF Latest
      <3>11. \A d \in Open' : calls'[d].at # "headed"
        BY <1>10, <3>1
      <3>12. EndsAt(head, t, Taken(t, Len(calls) + 1))'
        BY <2>2, <3>3, <3>4
      <3>13. Has(dag[head].state, t, Len(calls) + 1)'
        BY <2>2, <3>3, <3>4
      <3> QED BY <3>10, <3>11, <3>12, <3>13
    <2> QED BY <1>4, <1>7, <1>8, <1>9, <1>11, <1>12, <1>13, <2>3, <2>4, RequestsStay, StoreSide
            DEF IInv, DispatchOK, KeepState
  <1> QED BY <1>14, <1>15

LEMMA SendInv ==
    ASSUME IInv, NEW c \in DOMAIN calls, Send(c)
    PROVE  IInv'
  <1>1. PICK n, t, parent, state, node, call :
            /\ n = Len(dag) + 1 /\ t = calls[c].turn /\ parent = calls[c].parent
            /\ state = register
            /\ node = [type |-> "request", parent |-> parent, turn |-> t, state |-> state]
            /\ call = [calls[c] EXCEPT !.at = "sent", !.node = n]
    OBVIOUS
  <1>2. /\ calls' = [calls EXCEPT ![c] = call] /\ calls[c].at = "routed" /\ c \in Open
        /\ CallOK(c) /\ calls[c].key = t /\ t \in DOMAIN turns /\ state \in State
        /\ calls[c].node = 0 /\ parent \in 0..Len(dag) /\ parent \in Nat /\ t \in Nat
        /\ turns[t].session \in Sessions
    <2>1. calls[c].at = "routed" /\ c \in Open
      BY DEF Send, Open
    <2>2. CallOK(c) /\ calls[c].key = t /\ t \in DOMAIN turns
      BY <1>1, CallFacts
    <2>3. turns[t].session \in Sessions /\ t \in Nat /\ parent \in Nat /\ state \in State
      BY <1>1, <2>1, <2>2, TurnType, CallType, OpenFacts DEF IInv
    <2> QED BY <1>1, <2>1, <2>2, <2>3 DEF CallOK, Send
  <1>3. node \in Node /\ dag' = Append(dag, node)
    BY <1>1, <1>2 DEF Node, Send, AddNode
  <1>4. /\ dag' \in Seq(Node) /\ Len(dag)' = n /\ n \in Nat /\ n # 0 /\ Len(dag) \in Nat
        /\ Continues(dag', dag) /\ dag'[n] = node /\ n \notin DOMAIN dag
        /\ DOMAIN dag' = DOMAIN dag \cup {n} /\ 0..Len(dag) = 0..(n - 1)
        /\ 0..Len(dag) \subseteq 0..Len(dag)'
    BY <1>1, <1>3, NodeAppended DEF IInv
  <1>5. /\ call \in CallRecord /\ Goes(c, call) /\ call.at = "sent" /\ call.node = n
    <2>1. calls[c] \in CallRecord
      BY CallType DEF IInv
    <2>2. call \in CallRecord
      BY <1>1, <1>4, <2>1 DEF CallRecord
    <2>3. /\ call.op = calls[c].op /\ call.path = calls[c].path /\ call.value = calls[c].value
          /\ call.turn = calls[c].turn /\ call.key = calls[c].key
          /\ call.parent = calls[c].parent /\ call.at = "sent" /\ call.node = n
      BY <1>1, <2>1 DEF CallRecord
    <2> QED BY <1>2, <2>2, <2>3 DEF Goes
  <1>6. /\ Frame /\ calls' \in Seq(CallRecord) /\ Len(calls)' = Len(calls)
        /\ DOMAIN calls' = DOMAIN calls /\ calls'[c] = call
        /\ \A d \in DOMAIN calls \ {c} : calls'[d] = calls[d]
    BY <1>2, <1>4, <1>5, CallGoes DEF Send
  <1>7. TypeOK'
    <2>1. head' \in 0..Len(dag)' /\ requests' \subseteq DOMAIN calls'
      BY <1>4, <1>6, TypeParts DEF Send, registers, IInv
    <2> QED BY <1>4, <1>6, <2>1, TypeParts, SidecarTypes DEF Send, IInv, registers
  <1>8. TurnsOK'
    BY <1>6, TurnStays DEF TurnsOK, Send
  <1>9. Apart(c) => /\ parent \in DOMAIN dag /\ dag[parent].turn = t
                    /\ Known(turns[t].session, state)
    <2> SUFFICES ASSUME Apart(c)
                 PROVE  /\ parent \in DOMAIN dag /\ dag[parent].turn = t
                        /\ Known(turns[t].session, state)
      OBVIOUS
    <2>1. /\ dispatch.at = "running" /\ dispatch.turn = t
          /\ parent \in DOMAIN dag /\ dag[parent].turn = t
      BY <1>1, <1>2, OpenFacts DEF OpenOK
    <2>2. Known(turns[t].session, Latest) /\ Latest = register
      BY <1>1, <2>1 DEF IInv, DispatchOK, HeadApart, Headed, Reading, Latest, Apart
    <2> QED BY <1>1, <2>1, <2>2
  <1>10. ASSUME Orderly(c)
         PROVE  /\ parent = head /\ state = dag[head].state /\ c = Len(calls) /\ Apart(c)
                /\ EndsAt(parent, t, Taken(t, Len(calls) + 1))
                /\ Has(state, t, Len(calls) + 1)
    <2>1. /\ dispatch.at = "running" /\ dispatch.turn = t /\ c = Len(calls) /\ parent = head
          /\ Apart(c) /\ \A d \in Open : d = c
      BY <1>1, <1>2, <1>10, OpenFacts, CallFacts, LiveFacts DEF OpenOK, Orderly
    <2>2. /\ EndsAt(head, t, Taken(t, Len(calls) + 1)) /\ Has(dag[head].state, t, Len(calls) + 1)
          /\ Latest = dag[head].state /\ Latest = register
      BY <1>1, <1>2, <1>10, <2>1
         DEF IInv, DispatchOK, HeadOrderly, Headed, Reading, Latest, Orderly
    <2> QED BY <1>1, <2>1, <2>2
  <1>11. NodeOK(n)'
    <2>1. parent # 0 => parent \in DOMAIN dag /\ dag'[parent] = dag[parent]
      BY <1>2, <1>6, DagKept, Lengths DEF IInv
    <2>2. turns' = turns /\ turns[t].apart = Apart(c) /\ turns[t].orderly = Orderly(c)
      BY <1>1, <1>2, CallFacts, TurnType, Zenon DEF Send, Apart, Orderly
    <2>3. Apart(c) => Known(turns[t].session, state)'
      BY <1>9, <2>2 DEF Known, Send
    <2> QED BY <1>1, <1>2, <1>4, <1>9, <1>10, <2>1, <2>2, <2>3 DEF NodeOK
  <1>12. NodesOK'
    BY <1>4, <1>6, <1>7, <1>11, NodeStays DEF NodesOK, Live, Send
  <1>13. SentOK(c)'
    <2>1. Sent(c)' = state /\ calls'[c].node = n /\ calls'[c].turn = t
      <3>1. calls'[c].node = n /\ calls'[c].turn = t
        BY <1>1, <1>5, <1>6 DEF Goes
      <3>2. dag'[n].state = state
        BY <1>1, <1>4
      <3> QED BY <3>1, <3>2 DEF Sent
    <2>2. ASSUME Orderly(c)'
          PROVE  EndsAt(parent, t, Taken(t, c))' /\ Has(state, t, c)'
      <3>1. Orderly(c) /\ turns'[t].orderly
        BY <1>2, <1>6, <2>1, <2>2, CallTurnStays DEF Orderly
      <3>2. /\ EndsAt(parent, t, Taken(t, Len(calls) + 1)) /\ Has(state, t, Len(calls) + 1)
            /\ c = Len(calls)
        BY <1>10, <3>1
      <3>3. PICK S, x : S = Taken(t, x) /\ x = Len(calls) + 1
        OBVIOUS
      <3>4. Taken(t, c)' = S
        <4>1. Taken(t, c)' = Taken(t, c)
          BY <1>2, <1>6, <3>1, TakenStays
        <4>2. c \in Nat /\ 1..(x - 1) = 1..(c - 1) \cup {c}
          BY <3>2, <3>3, CallType DEF IInv
        <4>3. Taken(t, x) = Taken(t, c)
          BY <1>2, <4>2 DEF Taken
        <4> QED BY <3>3, <4>1, <4>3
      <3>5. x \in 1..(Len(calls) + 1)
        BY <3>3, Lengths DEF IInv
      <3>6. \A d \in S : d \in DOMAIN calls /\ calls[d].node # 0
        BY <3>3, <3>5, TakenBefore
      <3>7. EndsAt(parent, t, S)'
        BY <1>2, <1>6, <3>2, <3>3, <3>6, EndsStays
      <3>8. Has(state, t, c)'
        BY <1>6, <3>2, <3>3, <3>4, <3>5, HasStays
      <3> QED BY <3>4, <3>7, <3>8
    <2>3. n \in DOMAIN dag' /\ dag'[n].type = "request" /\ dag'[n].turn = t /\ dag'[n].parent = parent
      BY <1>1, <1>4
    <2>4. Orderly(c)' => EndsAt(dag[calls[c].node].parent, calls[c].turn, Taken(calls[c].turn, c))'
                         /\ Has(Sent(c), calls[c].turn, c)'
      BY <2>1, <2>2, <2>3
    <2> QED BY <1>2, <2>1, <2>3, <2>4 DEF SentOK
  <1>14. CallsOK'
    <2>1. CallOK(c)'
      BY <1>1, <1>2, <1>4, <1>5, <1>6, CallTurnStays DEF CallOK, Goes
    <2> QED BY <1>6, <1>7, <1>13, <2>1, CallOKStays, SentOKStays DEF CallsOK
  <1>15. Open' = Open
    BY <1>2, <1>5, <1>6 DEF Open
  <1>16. AllOpenOK'
    <2> SUFFICES ASSUME NEW d \in Open PROVE OpenOK(d)'
      BY <1>15 DEF AllOpenOK
    <2>1. calls'[d].at = "routed" => calls[d].at = "routed"
      BY <1>5, <1>6, <1>15 DEF Open
    <2> QED BY <1>6, <1>7, <1>15, <2>1, OpenStays DEF Send, registers
  <1>17. DispatchOK'
    <2>1. RegistersOK'
      BY <1>5, <1>6, <1>15 DEF IInv, DispatchOK, RegistersOK, Reading, registers, Send, Goes
    <2>2. HeadApart' /\ HeadOrderly'
      BY <1>2, <1>5, <1>6, <1>7, HeadStays DEF Send, registers
    <2> QED BY <2>1, <2>2 DEF DispatchOK
  <1>18. RequestsOK'
    BY <1>4, <1>5, <1>6, SentStays DEF IInv, RequestsOK, Send
  <1>19. RepliesOK' /\ WorkersOK' /\ StoreOK'
    BY <1>6, StoreSide DEF Send
  <1> QED BY <1>7, <1>8, <1>12, <1>14, <1>16, <1>17, <1>18, <1>19 DEF IInv

\* The state that an answer names is one that the turn can go on from.
LEMMA ReplyState ==
    ASSUME IInv, NEW c \in DOMAIN calls, calls[c].node # 0, NEW state, NEW answer,
           ReplyOK(c, state, answer)
    PROVE  /\ state \in State /\ (Apart(c) => Known(SessionOf(c), state))
           /\ Apart(c) /\ calls[c].op = "put" => state = Commit(c)
           /\ calls[c].op # "put" => state = Sent(c)
  <1>1. /\ Sent(c) \in State /\ (Apart(c) => Known(SessionOf(c), Sent(c)))
        /\ calls[c].op = "put" => Commit(c) \in State
    BY SentFacts, PutFacts
  <1> QED BY <1>1 DEF ReplyOK, Known

\* With its answer, the call is the last that its turn has taken.
LEMMA CallTaken ==
    ASSUME IInv, TypeOK', Frame, NEW c \in DOMAIN calls, c = Len(calls), Len(calls)' = c,
           Orderly(c)', NEW t, t = calls[c].turn, calls[c].node # 0,
           calls[c].at = "sent", calls'[c].at = "headed",
           NEW state, NEW answer, ReplyOK(c, state, answer), Apart(c),
           NEW n \in DOMAIN dag, dag[n].type = "response", dag[n].parent = calls[c].node
    PROVE  EndsAt(n, t, Taken(t, Len(calls) + 1))' /\ Has(state, t, Len(calls) + 1)'
  <1>1. /\ t \in DOMAIN turns /\ calls'[c].turn = t /\ Orderly(c) /\ turns'[t].orderly
        /\ c \in Nat /\ c # 0
    BY CallFacts, CallTurnStays, CallType DEF Orderly, IInv
  <1>2. PICK S, T, sent : /\ S = Taken(t, c) /\ T = Taken(t, Len(calls) + 1)' /\ sent = Sent(c)
    OBVIOUS
  <1>3. Taken(t, c)' = S
    BY <1>1, <1>2, TakenStays
  <1>4. T = S \cup {c}
    <2>1. 1..(Len(calls)' + 1 - 1) = 1..(c - 1) \cup {c}
      BY <1>1
    <2> QED BY <1>1, <1>2, <1>3, <2>1 DEF Taken
  <1>5. c \in 1..(Len(calls) + 1)
    BY <1>1
  <1>6. \A d \in S : d \in DOMAIN calls /\ d \in Nat /\ d < c /\ calls[d].node # 0
    BY <1>2, <1>5, TakenBefore
  <1>7. IsLatest(c, T)
    BY <1>1, <1>4, <1>6 DEF IsLatest
  <1>8. EndsAt(n, t, T)'
    <2>1. n \in DOMAIN dag' /\ dag'[n] = dag[n] /\ calls'[c].node = calls[c].node
      BY SentStays, DagKept
    <2> QED BY <1>4, <1>7, <2>1 DEF EndsAt, IsLatest
  <1>9. Has(sent, t, c)
    BY <1>1, <1>2, CallFacts DEF SentOK
  <1>10. \A d \in T : /\ calls'[d].op = calls[d].op /\ calls'[d].path = calls[d].path
                      /\ calls'[d].value = calls[d].value
    BY <1>4, <1>6 DEF Frame, CallKept
  <1>11. ASSUME NEW p \in Paths, NEW P, P = {d \in T : calls[d].op = "put" /\ calls[d].path = p},
                NEW d \in P
         PROVE  /\ state # Root /\ ViewOf(state)[p] \in Values
                /\ IsLatest(d, P) => ViewOf(state)[p] = calls[d].value
    <2>1. Puts(t, c, p) = {e \in S : calls[e].op = "put" /\ calls[e].path = p}
      BY <1>2 DEF Puts
    <2>2. CASE calls[c].op = "put" /\ calls[c].path = p
      <3>1. /\ state = Commit(c) /\ Commit(c) # Root /\ ViewOf(Commit(c))[p] = calls[c].value
            /\ calls[c].value \in Values
        BY <2>2, ReplyState, PutFacts
      <3>2. c \in P /\ (IsLatest(d, P) => d = c)
        <4>1. c \in P
          BY <1>4, <1>11, <2>2
        <4>2. d = c \/ d < c
          BY <1>4, <1>6, <1>11
        <4>3. IsLatest(d, P) => c <= d
          BY <4>1 DEF IsLatest
        <4>4. d \in Nat
          BY <1>1, <1>4, <1>6, <1>11
        <4> QED BY <1>1, <4>1, <4>2, <4>3, <4>4
      <3> QED BY <3>1, <3>2
    <2>3. CASE ~(calls[c].op = "put" /\ calls[c].path = p)
      <3>1. P = Puts(t, c, p)
        BY <1>4, <1>11, <2>1, <2>3
      <3>2. /\ sent # Root /\ ViewOf(sent)[p] \in Values
            /\ IsLatest(d, P) => ViewOf(sent)[p] = calls[d].value
        BY <1>9, <1>11, <3>1 DEF Has
      <3>3. state # Root /\ ViewOf(state)[p] = ViewOf(sent)[p]
        <4>1. CASE calls[c].op = "put"
          BY <1>2, <2>3, <4>1, ReplyState, PutFacts
        <4>2. CASE calls[c].op # "put"
          BY <1>2, <3>2, <4>2, ReplyState
        <4> QED BY <4>1, <4>2
      <3> QED BY <3>2, <3>3
    <2> QED BY <2>2, <2>3
  <1>12. Has(state, t, Len(calls) + 1)'
    <2>1. PICK y : y = Len(calls)' + 1
      OBVIOUS
    <2>2. \A p : Puts(t, y, p)' = {d \in T : calls[d].op = "put" /\ calls[d].path = p}
      BY <1>2, <1>10, <2>1 DEF Puts, Taken
    <2>3. ASSUME NEW p \in Paths, NEW d \in Puts(t, y, p)'
          PROVE  /\ state # Root /\ ViewOf(state)[p] \in Values
                 /\ IsLatest(d, Puts(t, y, p)') => ViewOf(state)[p] = calls'[d].value
      <3>1. PICK P : P = {e \in T : calls[e].op = "put" /\ calls[e].path = p}
        OBVIOUS
      <3>2. P = Puts(t, y, p)' /\ d \in P /\ calls'[d].value = calls[d].value
        BY <1>10, <2>2, <2>3, <3>1
      <3> QED BY <1>11, <3>1, <3>2
    <2>4. Has(state, t, y)'
      BY <2>3 DEF Has, IsLatest, ViewOf
    <2> QED BY <2>1, <2>4
  <1>13. EndsAt(n, t, Taken(t, Len(calls) + 1))'
    BY <1>2, <1>8
  <1> QED BY <1>12, <1>13

LEMMA TakeReplyInv ==
    ASSUME IInv, NEW c \in DOMAIN calls, NEW reply \in replies, TakeReply(c, reply)
    PROVE  IInv'
  <1>1. PICK n, state, answer, call :
            /\ n = reply.node /\ state = reply.state /\ answer = reply.answer
            /\ call = [calls[c] EXCEPT !.at = "headed", !.state = state, !.answer = answer]
    OBVIOUS
  <1>2. /\ calls' = [calls EXCEPT ![c] = call] /\ calls[c].at = "sent" /\ c \in Open
        /\ reply.call = c
    BY <1>1 DEF TakeReply, Open
  <1>3. /\ calls[c].node # 0 /\ n \in DOMAIN dag /\ state \in State /\ answer \in Response
        /\ dag[n].type = "response" /\ dag[n].state = state /\ dag[n].parent = calls[c].node
        /\ dag[n].turn = calls[c].turn /\ ReplyOK(c, state, answer)
    BY <1>1, <1>2 DEF IInv, RepliesOK, ReplyIn
  <1>4. /\ call \in CallRecord /\ Goes(c, call) /\ call.at = "headed" /\ call.node = calls[c].node
        /\ call.state = state /\ call.answer = answer
    BY <1>1, <1>3, CallType DEF CallRecord, Goes, IInv, MaybeState
  <1>5. /\ Frame /\ calls' \in Seq(CallRecord) /\ Len(calls)' = Len(calls)
        /\ DOMAIN calls' = DOMAIN calls /\ calls'[c] = call
        /\ \A d \in DOMAIN calls \ {c} : calls'[d] = calls[d]
    BY <1>2, <1>4, CallGoes, SelfContinues DEF TakeReply
  <1>6. TypeOK'
    <2>1. head' \in 0..Len(dag)'
      BY <1>1, <1>3, Lengths DEF TakeReply, IInv
    <2> QED BY <1>5, <2>1, TypeParts, SidecarTypes DEF TakeReply, IInv
  <1>7. TurnsOK'
    BY <1>5, TurnStays DEF TurnsOK, TakeReply
  <1>8. CallsOK'
    <2>1. SentOK(c)'
      BY <1>4, <1>5, SentOKStays
    <2>2. CallOK(c) /\ calls'[c].turn \in DOMAIN turns' /\ calls[c].parent \in 0..Len(dag)'
      BY <1>5, CallFacts, CallTurnStays DEF CallOK, TakeReply
    <2>3. ReplyOK(c, state, answer)'
      BY <1>3, <1>5, ReplyStays
    <2>4. CallOK(c)'
      BY <1>3, <1>4, <1>5, <2>2, <2>3 DEF CallOK, Goes
    <2> QED BY <1>5, <1>6, <2>1, <2>4, CallOKStays, SentOKStays DEF CallsOK
  <1>9. Open' = Open
    BY <1>2, <1>4, <1>5 DEF Open
  <1>10. AllOpenOK'
    <2> SUFFICES ASSUME NEW d \in Open PROVE OpenOK(d)'
      BY <1>9 DEF AllOpenOK
    <2>1. Orderly(d)' => calls'[d].at # "routed"
      <3> SUFFICES ASSUME Orderly(d)' PROVE calls'[d].at # "routed"
        OBVIOUS
      <3>1. Orderly(d) /\ Apart(d)
        BY <1>5, OpenFacts, CallFacts, CallTurnStays
      <3>2. d = Len(calls) /\ dispatch.at # "idle" /\ turns[dispatch.turn].orderly
        BY <3>1, OpenFacts DEF Orderly
      <3>3. c = Len(calls)
        BY <1>2, <3>2, LiveFacts
      <3> QED BY <1>4, <1>5, <3>2, <3>3
    <2> QED BY <1>5, <1>6, <1>9, <2>1, OpenStays DEF TakeReply
  <1>11. NodesOK'
    BY <1>5, <1>6, NodeStays DEF NodesOK, Live, TakeReply
  <1>12. RegistersOK'
    BY <1>4, <1>5, <1>9 DEF IInv, DispatchOK, RegistersOK, Reading, TakeReply, Goes
  <1>13. HeadApart' /\ HeadOrderly'
    <2>1. CASE ~Headed
      BY <2>1 DEF Headed, HeadApart, HeadOrderly, TakeReply
    <2>2. CASE Headed /\ ~turns[dispatch.turn].apart
      <3>1. turns[dispatch.turn].orderly => turns[dispatch.turn].apart
        BY <2>2 DEF IInv, TurnsOK, TurnOK, DispatchOK, RegistersOK, Headed
      <3> QED BY <2>2, <3>1 DEF HeadApart, HeadOrderly, TakeReply
    <2>3. CASE Headed /\ turns[dispatch.turn].apart
      <3>1. PICK t : t = dispatch.turn /\ t = dispatch'.turn
        BY DEF TakeReply
      <3>2. /\ t = calls[c].turn /\ Apart(c) /\ t \in DOMAIN turns
            /\ turns[t].orderly => c = Len(calls) /\ Orderly(c) /\ Orderly(c)'
        <4>1. dispatch.at # "idle"
          BY <2>3 DEF Headed
        <4>2. t = calls[c].turn /\ Apart(c) /\ t \in DOMAIN turns
          BY <1>2, <2>3, <3>1, <4>1, LiveFacts, CallFacts
        <4>3. turns[t].orderly => c = Len(calls) /\ Orderly(c)
          BY <1>2, <3>1, <4>1, LiveFacts
        <4>4. turns[t].orderly => Orderly(c)'
          BY <1>4, <1>5, <4>2 DEF Orderly, TakeReply, Goes
        <4> QED BY <4>2, <4>3, <4>4
      <3>3. HeadApart'
        <4>1. head' = n /\ dag' = dag /\ turns' = turns /\ store' = store
              /\ (Reading' <=> Reading) /\ Latest' = Latest
          BY <1>1 DEF TakeReply, Reading, Latest
        <4>2. Reading => Known(turns[t].session, Latest)
          BY <2>3, <3>1 DEF IInv, DispatchOK, HeadApart
        <4> QED BY <1>3, <3>1, <3>2, <4>1, <4>2 DEF HeadApart, Known
      <3>4. ASSUME turns[t].orderly
            PROVE  /\ EndsAt(n, t, Taken(t, Len(calls) + 1))' /\ Has(state, t, Len(calls) + 1)'
                   /\ \A d \in Open : d = c
        <4>1. c = Len(calls) /\ Len(calls)' = c /\ Orderly(c)' /\ Apart(c)
          BY <1>5, <3>2, <3>4
        <4>2. calls'[c].at = "headed"
          BY <1>4, <1>5
        <4>3. EndsAt(n, t, Taken(t, Len(calls) + 1))' /\ Has(state, t, Len(calls) + 1)'
          BY <1>2, <1>3, <1>5, <1>6, <3>2, <4>1, <4>2, CallTaken
        <4>4. \A d \in Open : d = c
          BY <2>3, <3>1, <3>4, <4>1, LiveFacts DEF Headed
        <4> QED BY <4>3, <4>4
      <3>5. HeadOrderly'
        <4> SUFFICES ASSUME turns[t].orderly
                     PROVE  /\ EndsAt(head, t, Taken(t, Len(calls) + 1))'
                            /\ Has(dag[head].state, t, Len(calls) + 1)'
                            /\ \E d \in Open' : calls'[d].at = "headed"
                            /\ \A d \in Open' : calls'[d].at = "headed" =>
                                                    calls'[d].state = dag'[n].state
          BY <1>1, <3>1 DEF HeadOrderly, TakeReply
        <4>1. head' = n /\ dag' = dag /\ dag[n].state = state
          BY <1>1, <1>3 DEF TakeReply
        <4>2. EndsAt(head, t, Taken(t, Len(calls) + 1))' /\ Has(dag[head].state, t, Len(calls) + 1)'
          BY <3>4, <4>1
        <4>3. c \in Open' /\ calls'[c].at = "headed" /\ calls'[c].state = state
          BY <1>2, <1>4, <1>5, <1>9
        <4> QED BY <1>9, <3>4, <4>1, <4>2, <4>3
      <3> QED BY <3>3, <3>5
    <2> QED BY <2>1, <2>2, <2>3
  <1>14. RequestsOK' /\ RepliesOK' /\ WorkersOK' /\ StoreOK'
    BY <1>5, RequestsStay, StoreSide DEF TakeReply
  <1> QED BY <1>6, <1>7, <1>8, <1>10, <1>11, <1>12, <1>13, <1>14 DEF IInv, DispatchOK

\* A turn that calls overlap, or reach beyond.
LEMMA TurnSet ==
    ASSUME TypeOK, NEW t \in DOMAIN turns, NEW turn \in TurnRecord,
           turns' = [turns EXCEPT ![t] = turn],
           turn.session = turns[t].session, turn.state = turns[t].state,
           turn.node = turns[t].node, turn.apart => turns[t].apart,
           turn.orderly => turns[t].orderly /\ turn.apart = turns[t].apart
    PROVE  /\ turns' \in Seq(TurnRecord) /\ Len(turns)' = Len(turns)
           /\ DOMAIN turns' = DOMAIN turns /\ turns'[t] = turn
           /\ \A u \in DOMAIN turns : TurnKept(u)
           /\ \A u \in DOMAIN turns \ {t} : turns'[u] = turns[u]
  <1>1. /\ turns' \in Seq(TurnRecord) /\ Len(turns)' = Len(turns)
        /\ DOMAIN turns' = DOMAIN turns /\ turns'[t] = turn
        /\ \A u \in DOMAIN turns \ {t} : turns'[u] = turns[u]
    BY TypeParts, SeqExcept
  <1>2. TurnKept(t)
    BY <1>1 DEF TurnKept
  <1>3. \A u \in DOMAIN turns \ {t} : TurnKept(u)
    BY <1>1 DEF TurnKept
  <1> QED BY <1>1, <1>2, <1>3

LEMMA CallInv ==
    ASSUME IInv, NEW op \in Ops, NEW p \in Paths \cup {Top}, NEW v \in MaybeValue,
           op # "list" => p \in Paths, op = "put" => v \in Values, Call(op, p, v)
    PROVE  IInv'
  <1>1. PICK c, t, call, turn :
            /\ c = Len(calls) + 1 /\ t = dispatch.turn
            /\ call = [op |-> op, path |-> p, value |-> v, at |-> "routed", turn |-> t,
                       key |-> routing, parent |-> head, node |-> 0, state |-> NoState,
                       answer |-> Absent]
            /\ turn = [turns[t] EXCEPT !.orderly = @ /\ Open = {}]
    OBVIOUS
  <1>2. /\ dispatch.at = "running" /\ t \in DOMAIN turns /\ routing = t /\ t \in Nat
        /\ register \in State /\ turns[t] \in TurnRecord
        /\ turns[t].orderly \in BOOLEAN /\ turns[t].apart \in BOOLEAN
    <2>1. dispatch.at = "running"
      BY DEF Call
    <2>2. t \in DOMAIN turns /\ routing = t /\ register \in State
      BY <1>1, <2>1 DEF IInv, DispatchOK, RegistersOK, Reading
    <2> QED BY <2>1, <2>2, TurnType DEF IInv
  <1>3. /\ calls' = Append(calls, call) /\ turns' = [turns EXCEPT ![t] = turn]
        /\ UNCHANGED <<dispatch, head, routing, register, dag, requests, replies, worker, store,
                       faults>>
    BY <1>1 DEF Call, registers
  <1>4. call \in CallRecord
    <2>1. head \in Nat
      BY TypeParts, Lengths DEF IInv
    <2> QED BY <1>1, <1>2, <2>1 DEF CallRecord, MaybeState, Response, MaybeValue
  <1>5. /\ turn \in TurnRecord /\ turn.session = turns[t].session /\ turn.state = turns[t].state
        /\ turn.node = turns[t].node /\ turn.apart = turns[t].apart
        /\ turn.orderly = (turns[t].orderly /\ Open = {})
    BY <1>1, <1>2, Zenon DEF TurnRecord
  <1>6. /\ turns' \in Seq(TurnRecord) /\ Len(turns)' = Len(turns)
        /\ DOMAIN turns' = DOMAIN turns /\ turns'[t] = turn
        /\ \A u \in DOMAIN turns : TurnKept(u)
        /\ \A u \in DOMAIN turns \ {t} : turns'[u] = turns[u]
    BY <1>2, <1>3, <1>5, TurnSet DEF IInv
  <1>7. /\ calls' \in Seq(CallRecord) /\ Len(calls)' = c /\ c \in Nat /\ Len(calls) \in Nat
        /\ DOMAIN calls' = DOMAIN calls \cup {c} /\ calls'[c] = call
        /\ c \notin DOMAIN calls /\ \A d \in DOMAIN calls : calls'[d] = calls[d]
    <2>1. calls \in Seq(CallRecord) /\ Len(calls) \in Nat /\ DOMAIN calls = 1..Len(calls)
      BY TypeParts, SeqElement DEF IInv
    <2>2. /\ calls' \in Seq(CallRecord) /\ Len(calls)' = Len(calls) + 1
          /\ DOMAIN calls' = DOMAIN calls \cup {Len(calls) + 1} /\ calls'[Len(calls) + 1] = call
          /\ \A d \in DOMAIN calls : calls'[d] = calls[d]
      BY <1>3, <1>4, <2>1, SeqAppend
    <2> QED BY <1>1, <2>1, <2>2
  <1>8. TypeOK'
    <2>1. requests' \subseteq DOMAIN calls' /\ routing' \in 0..Len(turns)'
      BY <1>3, <1>6, <1>7, TypeParts DEF IInv
    <2> QED BY <1>3, <1>6, <1>7, <2>1, TypeParts, SidecarTypes DEF IInv
  <1>9. Frame
    <2>1. \A d \in DOMAIN calls : CallKept(d)
      BY <1>7 DEF CallKept
    <2>2. Continues(dag', dag) /\ \A s \in Sessions : TablesKept(s)
      BY <1>3, SelfContinues DEF TablesKept
    <2>3. \A d \in DOMAIN calls' \ DOMAIN calls : calls'[d].at = "routed"
      BY <1>1, <1>7
    <2> QED BY <1>6, <1>7, <2>1, <2>2, <2>3 DEF Frame
  <1>10. TurnsOK'
    BY <1>6, <1>9, TurnStays DEF TurnsOK
  <1>11. CallsOK'
    <2>1. SentOK(c)'
      BY <1>1, <1>7 DEF SentOK
    <2>2. head \in 0..Len(dag)'
      BY <1>3, TypeParts DEF IInv
    <2>3. CallOK(c)'
      BY <1>1, <1>2, <1>6, <1>7, <2>2 DEF CallOK
    <2> QED BY <1>7, <1>8, <1>9, <2>1, <2>3, CallOKStays, SentOKStays DEF CallsOK
  <1>12. Open' = Open \cup {c}
    BY <1>1, <1>7 DEF Open
  <1>13. HeadApart' /\ HeadOrderly'
    BY <1>3, <1>7, <1>8, <1>9, HeadStays
  <1>14. AllOpenOK'
    <2>1. ASSUME NEW d \in Open PROVE OpenOK(d)'
      <3>1. ~Orderly(d)'
        <4> SUFFICES ASSUME Orderly(d)' PROVE FALSE
          OBVIOUS
        <4>1. Orderly(d) /\ Apart(d) /\ calls'[d].turn = calls[d].turn
          BY <1>9, OpenFacts, CallFacts, CallTurnStays
        <4>2. calls[d].turn = t
          BY <1>1, <4>1, OpenFacts
        <4>3. turn.orderly
          BY <1>6, <4>1, <4>2 DEF Orderly
        <4> QED BY <1>5, <4>3
      <3> QED BY <1>3, <1>8, <1>9, <1>12, <3>1, OpenStays
    <2>2. OpenOK(c)'
      <3>1. calls'[c].turn = t /\ calls'[c].parent = head /\ dispatch' = dispatch /\ head' = head
            /\ Len(calls)' = c
        BY <1>1, <1>3, <1>7
      <3>2. turns'[t].apart => head \in DOMAIN dag' /\ dag'[head].turn = t
        BY <1>1, <1>2, <1>3, <1>13, <3>1 DEF HeadApart, Headed
      <3> QED BY <1>1, <1>2, <3>1, <3>2 DEF OpenOK, Apart, Orderly
    <2> QED BY <1>12, <2>1, <2>2 DEF AllOpenOK
  <1>15. NodesOK'
    BY <1>3, <1>8, <1>9, NodeStays DEF NodesOK, Live
  <1>16. RegistersOK'
    BY <1>1, <1>2, <1>3, <1>6 DEF RegistersOK, Reading
  <1>17. RequestsOK' /\ RepliesOK' /\ WorkersOK' /\ StoreOK'
    BY <1>3, <1>9, RequestsStay, StoreSide
  <1> QED BY <1>8, <1>10, <1>11, <1>13, <1>14, <1>15, <1>16, <1>17 DEF IInv, DispatchOK

LEMMA AgentInv == ASSUME IInv, Agent PROVE IInv'
  <1>1. ASSUME NEW p \in Paths, NEW v \in Values, Call("put", p, v) PROVE IInv'
    BY <1>1, CallInv DEF Ops, MaybeValue
  <1>2. ASSUME NEW p \in Paths, NEW op \in {"get", "delete"}, Call(op, p, Absent) PROVE IInv'
    BY <1>2, CallInv DEF Ops, MaybeValue
  <1>3. ASSUME Call("list", Top, Absent) PROVE IInv'
    BY <1>3, CallInv DEF Ops, MaybeValue
  <1> QED BY <1>1, <1>2, <1>3 DEF Agent

LEMMA ProviderInv == ASSUME IInv, Provider PROVE IInv'
  BY SendInv, KeepStateInv, LoseReplyInv, TakeReplyInv DEF Provider

-----------------------------------------------------------------------------
(* The steps of the sidecar *)

\* The calls and the store are left alone.
LEMMA CallsSide ==
    ASSUME IInv, TypeOK', Frame, UNCHANGED <<calls, requests, replies, worker, store>>
    PROVE  /\ \A t \in DOMAIN turns : TurnOK(t)'
           /\ CallsOK' /\ Open' = Open /\ RequestsOK' /\ RepliesOK' /\ WorkersOK' /\ StoreOK'
  <1>1. \A t \in DOMAIN turns : TurnOK(t)'
    BY TurnStays
  <1>2. CallsOK'
    BY SentOKStays, CallOKStays DEF CallsOK
  <1>3. Open' = Open
    BY DEF Open
  <1>4. RequestsOK' /\ RepliesOK' /\ WorkersOK' /\ StoreOK'
    BY RequestsStay, StoreSide
  <1> QED BY <1>1, <1>2, <1>3, <1>4

\* A call that is open while the sidecar turns to something else: its turn is not apart.
LEMMA OpenIdle ==
    ASSUME IInv, TypeOK', Frame, UNCHANGED calls, NEW c \in Open, ~Apart(c)',
           dispatch'.at # "idle" => ~turns'[dispatch'.turn].apart
    PROVE  OpenOK(c)'
  <1>1. c \in DOMAIN calls /\ calls[c].turn \in DOMAIN turns
    BY OpenFacts, CallFacts
  <1>2. turns'[calls[c].turn].orderly => turns'[calls[c].turn].apart
    BY <1>1, TurnStays DEF TurnOK
  <1> QED BY <1>2 DEF OpenOK, Apart, Orderly

\* Before the agent runs: its turn has no calls yet, and none are open if it is apart.
LEMMA BeforeCalls ==
    ASSUME IInv, dispatch.at \in {"received", "headed", "routed"}, NEW t, t = dispatch.turn
    PROVE  /\ t \in DOMAIN turns /\ TurnOK(t) /\ Taken(t, Len(calls) + 1) = {}
           /\ turns[t].apart => Open = {}
           /\ \A c \in Open : ~Apart(c)
  <1>1. t \in DOMAIN turns /\ TurnOK(t) /\ \A c \in DOMAIN calls : calls[c].turn # t
    BY DEF IInv, DispatchOK, RegistersOK, TurnsOK
  <1>2. Taken(t, Len(calls) + 1) = {}
    <2>1. 1..(Len(calls) + 1 - 1) = DOMAIN calls
      BY Lengths DEF IInv
    <2> QED BY <1>1, <2>1 DEF Taken
  <1>3. turns[t].apart => Open = {}
    BY LiveFacts
  <1>4. \A c \in Open : ~Apart(c)
    BY OpenFacts
  <1> QED BY <1>1, <1>2, <1>3, <1>4

\* One register is set.
LEMMA SetStep ==
    ASSUME IInv, dispatch.at \in {"received", "headed", "routed"}, NEW t, t = dispatch.turn,
           NEW at \in {"headed", "routed", "running"}, dispatch' = [dispatch EXCEPT !.at = at],
           routing' \in 0..Len(turns), at \in {"routed", "running"} => routing' = t,
           register' = IF at = "running" THEN turns[t].state ELSE register,
           head' \in 0..Len(dag),
           turns[t].apart => head' \in DOMAIN dag /\ dag[head'].turn = t,
           turns[t].orderly => head' = turns[t].node,
           UNCHANGED <<turns, calls, dag, requests, replies, worker, store, faults>>
    PROVE  IInv'
  <1>1. /\ t \in DOMAIN turns /\ TurnOK(t) /\ Taken(t, Len(calls) + 1) = {}
        /\ turns[t].apart => Open = {}
        /\ \A c \in Open : ~Apart(c)
        /\ turns[t].state \in State
    BY BeforeCalls, TurnType DEF IInv
  <1>2. dispatch' \in DispatchRecord /\ dispatch'.at = at /\ dispatch'.turn = t
        /\ dispatch'.state = dispatch.state
    BY TypeParts DEF IInv, DispatchRecord
  <1>3. TypeOK'
    <2>1. register' \in MaybeState
      BY <1>1, TypeParts DEF IInv, MaybeState
    <2> QED BY <1>2, <2>1, TypeParts, SidecarTypes DEF IInv
  <1>4. Frame
    BY FrameSame, SelfContinues DEF TablesKept
  <1>5. TurnsOK' /\ CallsOK' /\ RequestsOK' /\ RepliesOK' /\ WorkersOK' /\ StoreOK' /\ Open' = Open
    BY <1>3, <1>4, CallsSide DEF TurnsOK
  <1>6. AllOpenOK'
    <2> SUFFICES ASSUME NEW c \in Open PROVE OpenOK(c)'
      BY <1>5 DEF AllOpenOK
    <2>1. ~Apart(c)' /\ ~turns'[t].apart
      BY <1>1 DEF Apart
    <2> QED BY <1>2, <1>3, <1>4, <2>1, OpenIdle
  <1>7. NodesOK'
    <2>1. \A u \in DOMAIN turns : Live(u)' => Live(u)
      BY <1>2 DEF Live
    <2> QED BY <1>3, <1>4, <2>1, NodeStays DEF NodesOK
  <1>8. RegistersOK'
    <2>1. Open' # {} => register' \in State
      BY <1>1, <1>5, OpenFacts
    <2>2. \A c \in DOMAIN calls : calls[c].turn # t
      BY DEF IInv, DispatchOK, RegistersOK
    <2> QED BY <1>1, <1>2, <2>1, <2>2 DEF RegistersOK, Reading
  <1>9. Reading' => Latest' = turns[t].state
    BY <1>2 DEF Reading, Latest
  <1>10. HeadApart'
    BY <1>1, <1>2, <1>9 DEF HeadApart, TurnOK, Known
  <1>11. HeadOrderly'
    <2> SUFFICES ASSUME turns[t].orderly
                 PROVE  /\ EndsAt(head, t, Taken(t, Len(calls) + 1))'
                        /\ Has(dag[head].state, t, Len(calls) + 1)'
                        /\ Reading' => Latest' = dag'[head'].state
                        /\ Open' = {}
      BY <1>2 DEF HeadOrderly
    <2>1. Taken(t, Len(calls) + 1)' = {}
      BY <1>1 DEF Taken
    <2>2. head' = turns[t].node /\ turns[t].node \in DOMAIN dag
          /\ dag[turns[t].node].state = turns[t].state /\ turns[t].apart
      BY <1>1 DEF TurnOK
    <2>3. EndsAt(head, t, Taken(t, Len(calls) + 1))'
      BY <2>1, <2>2 DEF EndsAt
    <2>4. Has(dag[head].state, t, Len(calls) + 1)'
      BY <2>1 DEF Has, Puts
    <2> QED BY <1>1, <1>5, <1>9, <2>2, <2>3, <2>4
  <1> QED BY <1>3, <1>5, <1>6, <1>7, <1>8, <1>10, <1>11 DEF IInv, DispatchOK

LEMMA SetHeadInv == ASSUME IInv, SetHead PROVE IInv'
  <1>1. PICK t : t = dispatch.turn
    OBVIOUS
  <1>2. dispatch.at = "received"
    BY DEF SetHead
  <1>3. t \in DOMAIN turns /\ TurnOK(t) /\ head' = turns[t].node
    BY <1>1, <1>2, BeforeCalls DEF SetHead
  <1>4. head' \in DOMAIN dag /\ dag[head'].turn = t /\ head' \in 0..Len(dag)
    BY <1>3, Lengths DEF TurnOK, IInv
  <1> QED BY <1>1, <1>2, <1>3, <1>4, SetStep, TypeParts DEF SetHead, IInv

\* The register that was set before stays.
LEMMA HeadIsSet ==
    ASSUME IInv, dispatch.at \in {"headed", "routed"}, NEW t, t = dispatch.turn
    PROVE  /\ turns[t].apart => head \in DOMAIN dag /\ dag[head].turn = t
           /\ turns[t].orderly => head = turns[t].node
  <1>1. Taken(t, Len(calls) + 1) = {}
    BY BeforeCalls
  <1> QED BY <1>1 DEF IInv, DispatchOK, HeadApart, HeadOrderly, Headed, EndsAt

LEMMA SetRoutingInv == ASSUME IInv, SetRouting PROVE IInv'
  <1>1. PICK t : t = dispatch.turn
    OBVIOUS
  <1>2. dispatch.at = "headed"
    BY DEF SetRouting
  <1>3. /\ t \in 0..Len(turns)
        /\ turns[t].apart => head \in DOMAIN dag /\ dag[head].turn = t
        /\ turns[t].orderly => head = turns[t].node
    BY <1>1, <1>2, BeforeCalls, HeadIsSet, Lengths DEF IInv
  <1> QED BY <1>1, <1>2, <1>3, SetStep, TypeParts DEF SetRouting, IInv

LEMMA SetStateInv == ASSUME IInv, SetState PROVE IInv'
  <1>1. PICK t : t = dispatch.turn
    OBVIOUS
  <1>2. dispatch.at = "routed" /\ routing = t
    BY <1>1 DEF SetState, IInv, DispatchOK, RegistersOK
  <1>3. /\ turns[t].apart => head \in DOMAIN dag /\ dag[head].turn = t
        /\ turns[t].orderly => head = turns[t].node
    BY <1>1, <1>2, HeadIsSet
  <1> QED BY <1>1, <1>2, <1>3, SetStep, TypeParts DEF SetState, IInv

LEMMA ReceiveInvokeInv ==
    ASSUME IInv, NEW s \in Sessions, NEW state \in store[s].commits \cup {Root},
           ReceiveInvoke(s, state)
    PROVE  IInv'
  <1>1. PICK n, t, node, turn, idle :
            /\ n = Len(dag) + 1 /\ t = Len(turns) + 1
            /\ node = [type |-> "invoke", parent |-> 0, turn |-> t, state |-> state]
            /\ idle = (Open = {})
            /\ turn = [session |-> s, state |-> state, node |-> n, apart |-> idle,
                       orderly |-> idle]
    OBVIOUS
  <1>2. /\ dispatch.at = "idle" /\ dag' = Append(dag, node) /\ turns' = Append(turns, turn)
        /\ dispatch' = [dispatch EXCEPT !.at = "received", !.turn = t]
        /\ Known(s, state) /\ state \in State
        /\ UNCHANGED <<head, routing, register, calls, requests, replies, worker, store, faults>>
    <2>1. Root \in State
      BY DEF State, Root
    <2>2. state \in State
      BY <2>1, StoreType DEF IInv
    <2> QED BY <1>1, <2>2 DEF ReceiveInvoke, AddNode, registers
  <1>3. t \in Nat /\ n \in Nat /\ idle \in BOOLEAN /\ Len(turns) \in Nat /\ t # 0
    BY <1>1, Lengths DEF IInv
  <1>4. node \in Node /\ turn \in TurnRecord
    BY <1>1, <1>2, <1>3 DEF Node, TurnRecord
  <1>5. /\ dag' \in Seq(Node) /\ Len(dag)' = n /\ n \in Nat /\ n # 0 /\ Len(dag) \in Nat
        /\ Continues(dag', dag) /\ dag'[n] = node /\ n \notin DOMAIN dag
        /\ DOMAIN dag' = DOMAIN dag \cup {n} /\ 0..Len(dag) = 0..(n - 1)
        /\ 0..Len(dag) \subseteq 0..Len(dag)'
    BY <1>1, <1>2, <1>4, NodeAppended DEF IInv
  <1>6. /\ turns' \in Seq(TurnRecord) /\ Len(turns)' = t /\ DOMAIN turns' = DOMAIN turns \cup {t}
        /\ turns'[t] = turn /\ t \notin DOMAIN turns
        /\ \A u \in DOMAIN turns : turns'[u] = turns[u]
    <2>1. turns \in Seq(TurnRecord) /\ DOMAIN turns = 1..Len(turns)
      BY TypeParts, Lengths DEF IInv
    <2>2. /\ turns' \in Seq(TurnRecord) /\ Len(turns)' = Len(turns) + 1
          /\ DOMAIN turns' = DOMAIN turns \cup {Len(turns) + 1} /\ turns'[Len(turns) + 1] = turn
          /\ \A u \in DOMAIN turns : turns'[u] = turns[u]
      BY <1>2, <1>4, <2>1, SeqAppend
    <2> QED BY <1>1, <1>3, <2>1, <2>2
  <1>7. dispatch' \in DispatchRecord /\ dispatch'.at = "received" /\ dispatch'.turn = t
    BY <1>2, <1>3, TypeParts DEF IInv, DispatchRecord
  <1>8. TypeOK'
    <2>1. 0..Len(turns) \subseteq 0..Len(turns)'
      BY <1>1, <1>3, <1>6
    <2> QED BY <1>2, <1>5, <1>6, <1>7, <2>1, TypeParts, SidecarTypes DEF IInv
  <1>9. Frame
    BY <1>2, <1>5, <1>6 DEF Frame, TurnKept, CallKept, TablesKept
  <1>10. /\ \A u \in DOMAIN turns : TurnOK(u)'
         /\ CallsOK' /\ Open' = Open /\ RequestsOK' /\ RepliesOK' /\ WorkersOK' /\ StoreOK'
    BY <1>2, <1>8, <1>9, CallsSide
  <1>11. TurnOK(t)'
    BY <1>1, <1>2, <1>5, <1>6 DEF TurnOK, Known
  <1>12. TurnsOK'
    BY <1>6, <1>10, <1>11 DEF TurnsOK
  <1>13. AllOpenOK'
    <2> SUFFICES ASSUME NEW c \in Open PROVE OpenOK(c)'
      BY <1>10 DEF AllOpenOK
    <2>1. ~Apart(c)'
      BY <1>2, <1>9, OpenFacts, CallTurnStays
    <2>2. ~turns'[t].apart
      <3>1. turns'[t].apart = idle
        BY <1>1, <1>6
      <3>2. ~idle
        BY <1>1, Zenon
      <3> QED BY <3>1, <3>2
    <2> QED BY <1>2, <1>7, <1>8, <1>9, <2>1, <2>2, OpenIdle
  <1>14. NodesOK'
    <2>1. \A u \in DOMAIN turns : Live(u)' => Live(u)
      BY <1>6, <1>7 DEF Live
    <2>2. \A m \in DOMAIN dag : NodeOK(m)'
      BY <1>8, <1>9, <2>1, NodeStays
    <2>3. NodeOK(n)'
      BY <1>1, <1>2, <1>5, <1>6 DEF NodeOK, Known
    <2> QED BY <1>5, <2>2, <2>3 DEF NodesOK
  <1>15. RegistersOK'
    <2>1. \A c \in DOMAIN calls : calls[c].turn # t
      BY <1>6, CallFacts
    <2>2. Open' # {} => register' \in State
      BY <1>2, <1>10, OpenFacts
    <2> QED BY <1>2, <1>6, <1>7, <2>1, <2>2 DEF RegistersOK, Reading
  <1>16. HeadApart' /\ HeadOrderly'
    BY <1>7 DEF HeadApart, HeadOrderly, Headed
  <1> QED BY <1>8, <1>10, <1>12, <1>13, <1>14, <1>15, <1>16 DEF IInv, DispatchOK

\* A turn ends, and its chain is what it was.
LEMMA EndTurnFacts ==
    ASSUME IInv, dispatch.at = "running", EndTurn, UNCHANGED calls, NEW t, t = dispatch.turn
    PROVE  /\ t \in DOMAIN turns /\ turns' \in Seq(TurnRecord) /\ Len(turns)' = Len(turns)
           /\ DOMAIN turns' = DOMAIN turns /\ \A u \in DOMAIN turns : TurnKept(u)
           /\ turns'[t].apart \/ turns'[t].orderly => Open = {}
           /\ \A c \in Open : ~Apart(c)'
  <1>1. PICK turn : turn = [turns[t] EXCEPT !.apart = @ /\ Open = {}, !.orderly = @ /\ Open = {}]
    OBVIOUS
  <1>2. t \in DOMAIN turns /\ turns' = [turns EXCEPT ![t] = turn] /\ turns[t] \in TurnRecord
        /\ turns[t].apart \in BOOLEAN /\ turns[t].orderly \in BOOLEAN
        /\ (turns[t].orderly => turns[t].apart)
    <2>1. t \in DOMAIN turns
      BY DEF IInv, DispatchOK, RegistersOK
    <2>2. turns' = [turns EXCEPT ![t] = turn]
      BY <1>1 DEF EndTurn
    <2> QED BY <2>1, <2>2, TurnType DEF IInv, TurnsOK, TurnOK
  <1>3. /\ turn \in TurnRecord /\ turn.session = turns[t].session /\ turn.state = turns[t].state
        /\ turn.node = turns[t].node /\ turn.apart = (turns[t].apart /\ Open = {})
        /\ turn.orderly = (turns[t].orderly /\ Open = {})
    BY <1>1, <1>2, Zenon DEF TurnRecord
  <1>4. /\ turn.apart => turns[t].apart
        /\ turn.orderly => turns[t].orderly /\ turn.apart = turns[t].apart
        /\ turn.apart \/ turn.orderly => Open = {}
    BY <1>2, <1>3, Zenon
  <1>5. /\ turns' \in Seq(TurnRecord) /\ Len(turns)' = Len(turns)
        /\ DOMAIN turns' = DOMAIN turns /\ turns'[t] = turn
        /\ \A u \in DOMAIN turns : TurnKept(u)
    BY <1>2, <1>3, <1>4, TurnSet DEF IInv
  <1>6. ASSUME NEW c \in Open PROVE ~Apart(c)'
    <2> SUFFICES ASSUME Apart(c)' PROVE FALSE
      OBVIOUS
    <2>1. calls[c].turn \in DOMAIN turns /\ turns'[calls[c].turn].apart
      BY OpenFacts, CallFacts DEF Apart
    <2>2. Apart(c)
      BY <1>5, <2>1 DEF TurnKept, Apart
    <2>3. calls[c].turn = t
      BY <2>2, OpenFacts
    <2> QED BY <1>4, <1>5, <2>1, <2>3
  <1> QED BY <1>2, <1>4, <1>5, <1>6

LEMMA AnswerInv == ASSUME IInv, Answer PROVE IInv'
  <1>1. PICK t, state : t = dispatch.turn /\ state = register
    OBVIOUS
  <1>2. /\ dispatch.at = "running" /\ EndTurn /\ state \in State /\ Reading /\ Headed
        /\ dispatch' = [dispatch EXCEPT !.at = "answered", !.state = state]
        /\ UNCHANGED <<head, routing, register, calls, dag, requests, replies, worker, store,
                       faults>>
    BY <1>1 DEF Answer, registers, IInv, DispatchOK, RegistersOK, Reading, Headed
  <1>3. /\ t \in DOMAIN turns /\ turns' \in Seq(TurnRecord) /\ Len(turns)' = Len(turns)
        /\ DOMAIN turns' = DOMAIN turns /\ \A u \in DOMAIN turns : TurnKept(u)
        /\ turns'[t].apart \/ turns'[t].orderly => Open = {}
        /\ \A c \in Open : ~Apart(c)'
    BY <1>1, <1>2, EndTurnFacts
  <1>4. /\ dispatch' \in DispatchRecord /\ dispatch'.at = "answered" /\ dispatch'.turn = t
        /\ dispatch'.state = state
    BY <1>1, <1>2, TypeParts DEF IInv, DispatchRecord, MaybeState
  <1>5. TypeOK'
    BY <1>2, <1>3, <1>4, TypeParts, SidecarTypes DEF IInv
  <1>6. Frame
    BY <1>2, <1>3, SelfContinues DEF Frame, CallKept, TablesKept
  <1>7. /\ TurnsOK' /\ CallsOK' /\ Open' = Open /\ RequestsOK' /\ RepliesOK' /\ WorkersOK'
        /\ StoreOK'
    BY <1>2, <1>3, <1>5, <1>6, CallsSide DEF TurnsOK
  <1>8. AllOpenOK'
    BY <1>2, <1>3, <1>4, <1>5, <1>6, <1>7, OpenIdle DEF AllOpenOK
  <1>9. NodesOK'
    <2>1. \A u \in DOMAIN turns : Live(u)' => Live(u)
      BY <1>1, <1>2, <1>4 DEF Live
    <2> QED BY <1>2, <1>5, <1>6, <2>1, NodeStays DEF NodesOK
  <1>10. RegistersOK'
    BY <1>1, <1>2, <1>3, <1>4 DEF RegistersOK, Reading
  <1>11. Latest' = state /\ Latest = state
    BY <1>1, <1>2, <1>4 DEF Latest
  <1>12. HeadApart'
    <2> SUFFICES ASSUME turns'[t].apart
                 PROVE  /\ head \in DOMAIN dag /\ dag[head].turn = t
                        /\ Known(turns[t].session, state)'
      BY <1>2, <1>3, <1>4, <1>11 DEF HeadApart, TurnKept, Known
    <2>1. turns[t].apart
      BY <1>3 DEF TurnKept
    <2>2. /\ head \in DOMAIN dag /\ dag[head].turn = t
          /\ Known(turns[t].session, state)
      BY <1>1, <1>2, <1>11, <2>1 DEF IInv, DispatchOK, HeadApart
    <2> QED BY <1>2, <1>3, <2>2 DEF Known, TurnKept
  <1>13. HeadOrderly'
    <2> SUFFICES ASSUME turns'[t].orderly
                 PROVE  /\ EndsAt(head, t, Taken(t, Len(calls) + 1))'
                        /\ Has(dag[head].state, t, Len(calls) + 1)'
                        /\ state = dag[head].state
                        /\ Open' = {}
      BY <1>2, <1>4, <1>11 DEF HeadOrderly
    <2>1. turns[t].orderly /\ Open = {}
      BY <1>3 DEF TurnKept
    <2>2. /\ EndsAt(head, t, Taken(t, Len(calls) + 1))
          /\ Has(dag[head].state, t, Len(calls) + 1)
          /\ state = dag[head].state
      BY <1>1, <1>2, <1>11, <2>1 DEF IInv, DispatchOK, HeadOrderly
    <2>3. PICK n, end : n = head /\ end = dag[head].state
      OBVIOUS
    <2>4. EndsAt(n, t, Taken(t, Len(calls) + 1))' /\ Has(end, t, Len(calls) + 1)'
      BY <1>2, <1>3, <1>5, <1>6, <2>2, <2>3, ChainStays
    <2>5. head' = n /\ dag'[head'].state = end
      BY <1>2, <2>3
    <2>6. EndsAt(head, t, Taken(t, Len(calls) + 1))' /\ Has(dag[head].state, t, Len(calls) + 1)'
      BY <2>4, <2>5
    <2> QED BY <1>7, <2>1, <2>2, <2>6
  <1> QED BY <1>5, <1>7, <1>8, <1>9, <1>10, <1>12, <1>13 DEF IInv, DispatchOK

\* Nothing is dispatched any more.
LEMMA RestingType ==
    ASSUME dispatch' = Resting
    PROVE  /\ dispatch' \in DispatchRecord /\ dispatch'.at = "idle"
           /\ \A t : ~Live(t)'
           /\ HeadApart' /\ HeadOrderly'
           /\ (Open' # {} => register' \in State) => RegistersOK'
  <1>1. dispatch' \in DispatchRecord /\ dispatch'.at = "idle"
    BY DEF Resting, DispatchRecord, MaybeState
  <1> QED BY <1>1 DEF Live, HeadApart, HeadOrderly, Headed, RegistersOK, Reading

LEMMA CompleteInv == ASSUME IInv, Complete PROVE IInv'
  <1>1. PICK n, t, parent, state, node :
            /\ n = Len(dag) + 1 /\ t = dispatch.turn /\ parent = head /\ state = dispatch.state
            /\ node = [type |-> "complete", parent |-> parent, turn |-> t, state |-> state]
    OBVIOUS
  <1>2. /\ dispatch.at = "answered" /\ dag' = Append(dag, node) /\ dispatch' = Resting
        /\ UNCHANGED <<turns, head, routing, register, calls, requests, replies, worker, store,
                       faults>>
    BY <1>1 DEF Complete, AddNode, registers
  <1>3. /\ t \in DOMAIN turns /\ t \in Nat /\ state \in State /\ parent \in 0..Len(dag)
        /\ parent \in Nat /\ Headed /\ Reading /\ Latest = state
    <2>1. t \in DOMAIN turns /\ state \in State
      BY <1>1, <1>2 DEF IInv, DispatchOK, RegistersOK
    <2>2. t \in Nat /\ parent \in 0..Len(dag) /\ parent \in Nat
      BY <1>1, <2>1, TurnType, TypeParts, Lengths DEF IInv
    <2> QED BY <1>1, <1>2, <2>1, <2>2 DEF Headed, Reading, Latest
  <1>4. node \in Node
    BY <1>1, <1>3 DEF Node
  <1>5. /\ dag' \in Seq(Node) /\ Len(dag)' = n /\ n \in Nat /\ n # 0 /\ Len(dag) \in Nat
        /\ Continues(dag', dag) /\ dag'[n] = node /\ n \notin DOMAIN dag
        /\ DOMAIN dag' = DOMAIN dag \cup {n} /\ 0..Len(dag) = 0..(n - 1)
        /\ 0..Len(dag) \subseteq 0..Len(dag)'
    BY <1>1, <1>2, <1>4, NodeAppended DEF IInv
  <1>6. /\ dispatch' \in DispatchRecord /\ dispatch'.at = "idle" /\ ~Live(t)'
        /\ \A u : ~Live(u)'
    BY <1>2, RestingType
  <1>7. TypeOK'
    BY <1>2, <1>5, <1>6, TypeParts, SidecarTypes DEF IInv
  <1>8. Frame
    BY <1>2, <1>5, FrameSame DEF TablesKept
  <1>9. /\ TurnsOK' /\ CallsOK' /\ Open' = Open /\ RequestsOK' /\ RepliesOK' /\ WorkersOK'
        /\ StoreOK'
    BY <1>2, <1>7, <1>8, CallsSide DEF TurnsOK
  <1>10. \A c \in Open : ~Apart(c)
    BY <1>2, OpenFacts
  <1>11. AllOpenOK'
    <2>1. \A c \in Open : ~Apart(c)'
      BY <1>2, <1>10 DEF Apart
    <2> QED BY <1>2, <1>6, <1>7, <1>8, <1>9, <2>1, OpenIdle DEF AllOpenOK
  <1>12. HeadApart' /\ HeadOrderly' /\ RegistersOK'
    <2>1. Open' # {} => register' \in State
      BY <1>2, <1>9, OpenFacts
    <2> QED BY <1>2, <2>1, RestingType
  <1>13. turns[t].apart => dag[parent].turn = t /\ Known(turns[t].session, state)
    BY <1>1, <1>3 DEF IInv, DispatchOK, HeadApart
  <1>14. ASSUME turns[t].orderly
         PROVE  /\ parent \in DOMAIN dag /\ dag[parent].state = state
                /\ EndsAt(parent, t, Taken(t, Len(calls) + 1))'
    <2>1. Open = {}
      BY <1>1, <1>2, <1>14, LiveFacts
    <2>2. /\ EndsAt(parent, t, Taken(t, Len(calls) + 1))
          /\ Has(dag[parent].state, t, Len(calls) + 1)
          /\ dag[parent].state = state
      BY <1>1, <1>3, <1>14, <2>1 DEF IInv, DispatchOK, HeadOrderly
    <2>3. EndsAt(parent, t, Taken(t, Len(calls) + 1))'
      BY <1>2, <1>3, <1>7, <1>8, <1>14, <2>2, ChainStays
    <2> QED BY <2>2, <2>3 DEF EndsAt
  <1>15. NodeOK(n)'
    <2>1. parent # 0 => dag'[parent] = dag[parent]
      BY <1>3, <1>8, DagKept, Lengths DEF IInv
    <2>2. turns[t].apart => Known(turns[t].session, state)'
      BY <1>2, <1>13 DEF Known
    <2> QED BY <1>1, <1>2, <1>3, <1>5, <1>6, <1>13, <1>14, <2>1, <2>2 DEF NodeOK
  <1>16. NodesOK'
    BY <1>5, <1>6, <1>7, <1>8, <1>15, NodeStays DEF NodesOK
  <1> QED BY <1>7, <1>9, <1>11, <1>12, <1>16 DEF IInv, DispatchOK

LEMMA CompleteWithErrorInv == ASSUME IInv, CompleteWithError PROVE IInv'
  <1>1. PICK n, t, node :
            /\ n = Len(dag) + 1 /\ t = dispatch.turn
            /\ node = [type |-> "complete", parent |-> 0, turn |-> t, state |-> NoState]
    OBVIOUS
  <1>2. /\ dispatch.at = "running" /\ EndTurn /\ dag' = Append(dag, node) /\ dispatch' = Resting
        /\ UNCHANGED <<head, routing, register, calls, requests, replies, worker, store>>
    BY <1>1 DEF CompleteWithError, AddNode, registers
  <1>3. /\ t \in DOMAIN turns /\ turns' \in Seq(TurnRecord) /\ Len(turns)' = Len(turns)
        /\ DOMAIN turns' = DOMAIN turns /\ \A u \in DOMAIN turns : TurnKept(u)
        /\ \A c \in Open : ~Apart(c)'
    BY <1>1, <1>2, EndTurnFacts
  <1>4. node \in Node
    BY <1>1, <1>3, TurnType DEF Node, IInv
  <1>5. /\ dag' \in Seq(Node) /\ Len(dag)' = n /\ n \in Nat /\ n # 0 /\ Len(dag) \in Nat
        /\ Continues(dag', dag) /\ dag'[n] = node /\ n \notin DOMAIN dag
        /\ DOMAIN dag' = DOMAIN dag \cup {n} /\ 0..Len(dag) = 0..(n - 1)
        /\ 0..Len(dag) \subseteq 0..Len(dag)'
    BY <1>1, <1>2, <1>4, NodeAppended DEF IInv
  <1>6. /\ dispatch' \in DispatchRecord /\ dispatch'.at = "idle"
        /\ \A u : ~Live(u)'
    BY <1>2, RestingType
  <1>7. TypeOK'
    <2>1. faults' \in 0..MaxFaults
      BY FaultType DEF CompleteWithError, IInv
    <2> QED BY <1>2, <1>3, <1>5, <1>6, <2>1, TypeParts, SidecarTypes DEF IInv
  <1>8. Frame
    BY <1>2, <1>3, <1>5 DEF Frame, CallKept, TablesKept
  <1>9. /\ TurnsOK' /\ CallsOK' /\ Open' = Open /\ RequestsOK' /\ RepliesOK' /\ WorkersOK'
        /\ StoreOK'
    BY <1>2, <1>3, <1>7, <1>8, CallsSide DEF TurnsOK
  <1>10. AllOpenOK'
    BY <1>2, <1>3, <1>6, <1>7, <1>8, <1>9, OpenIdle DEF AllOpenOK
  <1>11. HeadApart' /\ HeadOrderly' /\ RegistersOK'
    <2>1. Open' # {} => register' \in State
      BY <1>2, <1>9, OpenFacts
    <2> QED BY <1>2, <2>1, RestingType
  <1>12. NodeOK(n)'
    <2>1. ~Live(t)' /\ 0 \in 0..(n - 1)
      BY <1>5, <1>6
    <2> QED BY <1>1, <1>3, <1>5, <2>1 DEF NodeOK
  <1>13. NodesOK'
    BY <1>5, <1>6, <1>7, <1>8, <1>12, NodeStays DEF NodesOK
  <1> QED BY <1>7, <1>9, <1>10, <1>11, <1>13 DEF IInv, DispatchOK

LEMMA SidecarCrashInv == ASSUME IInv, SidecarCrash PROVE IInv'
  <1>1. /\ dispatch' = Resting /\ head' = 0 /\ routing' = 0 /\ register' = NoState
        /\ UNCHANGED <<turns, dag, requests, replies, worker, store>>
    BY DEF SidecarCrash
  <1>2. /\ DOMAIN calls' = DOMAIN calls
        /\ \A c \in DOMAIN calls \ Open : calls'[c] = calls[c]
        /\ \A c \in Open : c \in DOMAIN calls => calls'[c] = [calls[c] EXCEPT !.at = "failed"]
    BY DEF SidecarCrash
  <1>3. ASSUME NEW c \in Open
        PROVE  /\ calls'[c] \in CallRecord /\ calls'[c].at = "failed"
               /\ calls'[c].node = calls[c].node /\ Goes(c, calls'[c]) /\ c \in DOMAIN calls
    <2>1. PICK call : call = [calls[c] EXCEPT !.at = "failed"]
      OBVIOUS
    <2>2. c \in DOMAIN calls /\ calls'[c] = call
      BY <1>2, <2>1, OpenFacts
    <2>3. /\ call \in CallRecord /\ call.at = "failed" /\ call.node = calls[c].node
          /\ Goes(c, call)
      BY <2>1, <2>2, CallType DEF CallRecord, Goes, IInv
    <2> QED BY <2>2, <2>3
  <1>4. calls' \in Seq(CallRecord)
    <2>1. Len(calls) \in Nat /\ DOMAIN calls = 1..Len(calls)
      BY Lengths DEF IInv
    <2>2. \A c \in DOMAIN calls : calls'[c] \in CallRecord
      BY <1>2, <1>3, CallType DEF IInv
    <2>3. calls' = [c \in 1..Len(calls) |-> calls'[c]]
      BY <2>1 DEF SidecarCrash
    <2>4. calls' \in [1..Len(calls) -> CallRecord]
      BY <2>1, <2>2, <2>3
    <2> QED BY <2>1, <2>4, SeqDef
  <1>5. Open' = {}
    BY <1>2, <1>3 DEF Open
  <1>6. TypeOK'
    <2>1. faults' \in 0..MaxFaults
      BY FaultType DEF SidecarCrash, IInv
    <2>2. dispatch' \in DispatchRecord /\ register' \in MaybeState
      BY <1>1, RestingType DEF MaybeState
    <2>3. head' \in 0..Len(dag)' /\ routing' \in 0..Len(turns)'
      BY <1>1, Lengths DEF IInv
    <2> QED BY <1>1, <1>2, <1>4, <2>1, <2>2, <2>3, TypeParts, SidecarTypes DEF IInv
  <1>7. Frame
    <2>1. \A c \in DOMAIN calls : CallKept(c)
      BY <1>2, <1>3 DEF CallKept, Goes
    <2> QED BY <1>1, <1>2, <2>1, SelfContinues DEF Frame, TurnKept, TablesKept
  <1>8. TurnsOK'
    BY <1>1, <1>7, TurnStays DEF TurnsOK
  <1>9. CallsOK'
    <2>1. ASSUME NEW c \in Open PROVE CallOK(c)'
      <3>1. CallOK(c) /\ calls'[c].turn \in DOMAIN turns' /\ c \in DOMAIN calls
        BY <1>3, <1>7, CallFacts, CallTurnStays
      <3>2. calls[c].parent \in 0..Len(dag)'
        BY <1>1, <3>1 DEF CallOK
      <3> QED BY <1>3, <3>1, <3>2 DEF CallOK, Goes
    <2>2. ASSUME NEW c \in DOMAIN calls \ Open PROVE CallOK(c)'
      BY <1>2, <1>6, <1>7, CallOKStays
    <2>3. ASSUME NEW c \in DOMAIN calls PROVE SentOK(c)'
      <3>1. calls'[c].node = calls[c].node
        BY <1>2, <1>3
      <3> QED BY <1>7, <3>1, SentOKStays
    <2> QED BY <1>2, <2>1, <2>2, <2>3 DEF CallsOK
  <1>10. NodesOK'
    BY <1>1, <1>6, <1>7, RestingType, NodeStays DEF NodesOK
  <1>11. AllOpenOK' /\ DispatchOK'
    BY <1>1, <1>5, RestingType DEF AllOpenOK, DispatchOK
  <1>12. RequestsOK' /\ RepliesOK' /\ WorkersOK' /\ StoreOK'
    BY <1>1, <1>7, RequestsStay, StoreSide
  <1> QED BY <1>6, <1>8, <1>9, <1>10, <1>11, <1>12 DEF IInv

LEMMA SidecarInv == ASSUME IInv, Sidecar PROVE IInv'
  BY ReceiveInvokeInv, SetHeadInv, SetRoutingInv, SetStateInv, AnswerInv, CompleteInv,
     CompleteWithErrorInv, SidecarCrashInv DEF Sidecar

-----------------------------------------------------------------------------
(* The invariant *)

LEMMA InitInv == ASSUME Init PROVE IInv
  <1>1. TypeOK
    <2>1. Free \in [at : {"idle", "filed", "valued", "snapped", "done", "responded"},
                    call : 0..Len(calls), state : MaybeState]
      BY DEF Init, Free, MaybeState
    <2>2. Empty \in View
      BY DEF Empty, View
    <2>3. store \in Tables
      BY <2>2 DEF Init, Tables
    <2>4. dispatch \in DispatchRecord
      BY DEF Init, Resting, DispatchRecord, MaybeState
    <2>5. /\ turns \in Seq(TurnRecord) /\ calls \in Seq(CallRecord) /\ dag \in Seq(Node)
          /\ Len(turns) = 0 /\ Len(dag) = 0
      BY DEF Init
    <2>6. faults \in 0..MaxFaults
      BY ProviderConstants DEF Init
    <2> QED BY <2>1, <2>3, <2>4, <2>5, <2>6
            DEF Init, TypeOK, TurnRecord, CallRecord, DispatchRecord, Tables, MaybeState
  <1>2. TurnsOK /\ CallsOK /\ AllOpenOK /\ NodesOK /\ RequestsOK /\ RepliesOK
    BY DEF Init, TurnsOK, CallsOK, AllOpenOK, Open, NodesOK, RequestsOK, RepliesOK
  <1>3. DispatchOK
    BY DEF Init, Resting, DispatchOK, RegistersOK, HeadApart, HeadOrderly, Headed, Reading, Open
  <1>4. WorkersOK
    BY DEF Init, WorkersOK, WorkerOK, Free
  <1>5. StoreOK
    BY DEF Init, StoreOK, CommitsWhole
  <1> QED BY <1>1, <1>2, <1>3, <1>4, <1>5 DEF IInv

LEMMA StutterInv == ASSUME IInv, UNCHANGED vars PROVE IInv'
  <1>1. /\ UNCHANGED <<turns, dispatch, head, routing, register, calls>>
        /\ UNCHANGED <<dag, requests, replies, worker, store, faults>>
    BY DEF vars
  <1>2. TypeOK'
    BY <1>1 DEF IInv, TypeOK
  <1>3. Frame
    BY <1>1, FrameSame, SelfContinues DEF TablesKept
  <1>4. /\ TurnsOK' /\ CallsOK' /\ AllOpenOK' /\ DispatchOK' /\ NodesOK'
    BY <1>1, <1>2, <1>3, SidecarSide DEF NodesOK, registers
  <1>5. RequestsOK' /\ RepliesOK' /\ WorkersOK' /\ StoreOK'
    BY <1>1, <1>3, RequestsStay, StoreSide
  <1> QED BY <1>2, <1>4, <1>5 DEF IInv

THEOREM Invariant == Spec => []IInv
  <1>1. Init => IInv
    BY InitInv
  <1>2. IInv /\ [Next]_vars => IInv'
    BY SidecarInv, AgentInv, ProviderInv, WorkerInv, StutterInv DEF Next
  <1> QED BY <1>1, <1>2, PTL DEF Spec

-----------------------------------------------------------------------------
(* What the invariant says *)

\* An orderly turn has taken what was answered: only its last call can still be open.
LEMMA TakenAnswered ==
    ASSUME IInv, NEW t, NEW c \in 1..(Len(calls) + 1), t \in DOMAIN turns, turns[t].orderly,
           c \in DOMAIN calls \/ ~Live(t)
    PROVE  Taken(t, c) = Answered(t, c)
  <1>1. ASSUME NEW d \in Taken(t, c)
        PROVE  calls[d].at = "ok"
    <2>1. /\ d \in DOMAIN calls /\ d \in Nat /\ d < c /\ calls[d].turn = t
          /\ calls[d].at \in {"headed", "ok"}
      BY TakenBefore
    <2> SUFFICES ASSUME calls[d].at = "headed" PROVE FALSE
      BY <2>1
    <2>2. d \in Open /\ Orderly(d)
      BY <2>1 DEF Open, Orderly
    <2>3. d = Len(calls) /\ Live(t)
      BY <2>1, <2>2, OpenFacts, CallFacts
    <2>4. c \in Nat /\ c <= Len(calls)
      BY <2>3, CallType, Lengths DEF IInv
    <2> QED BY <2>1, <2>3, <2>4
  <1> QED BY <1>1 DEF Taken, Answered

LEMMA OrderOfChain == ASSUME IInv PROVE ChainInOrder
  <1>1. ASSUME NEW c \in DOMAIN calls, turns[calls[c].turn].orderly, calls[c].node # 0
        PROVE  /\ calls[c].key = calls[c].turn
               /\ Follows(calls[c].node, calls[c].turn, Answered(calls[c].turn, c))
    <2>1. PICK t, n : t = calls[c].turn /\ n = calls[c].node
      OBVIOUS
    <2>2. /\ t \in DOMAIN turns /\ calls[c].key = t
          /\ EndsAt(dag[n].parent, t, Taken(t, c))
      BY <1>1, <2>1, CallFacts DEF SentOK, Orderly
    <2>3. Taken(t, c) = Answered(t, c)
      <3>1. c \in 1..(Len(calls) + 1)
        BY Lengths DEF IInv
      <3> QED BY <1>1, <2>1, <2>2, <3>1, TakenAnswered
    <2>4. Follows(n, t, Answered(t, c))
      BY <2>2, <2>3 DEF EndsAt, Follows
    <2> QED BY <2>1, <2>2, <2>4
  <1>2. ASSUME NEW n \in DOMAIN dag, dag[n].type \in {"request", "complete"}, dag[n].parent # 0,
               turns[dag[n].turn].orderly
        PROVE  /\ dag[n].type = "complete" =>
                      Follows(n, dag[n].turn, Answered(dag[n].turn, Len(calls) + 1))
               /\ dag[n].state = dag[dag[n].parent].state
    <2>1. NodeOK(n)
      BY DEF IInv, NodesOK
    <2>2. dag[n].state = dag[dag[n].parent].state
      BY <1>2, <2>1 DEF NodeOK
    <2>3. ASSUME dag[n].type = "complete"
          PROVE  Follows(n, dag[n].turn, Answered(dag[n].turn, Len(calls) + 1))
      <3>1. PICK t, x : t = dag[n].turn /\ x = Len(calls) + 1
        OBVIOUS
      <3>2. t \in DOMAIN turns /\ ~Live(t) /\ EndsAt(dag[n].parent, t, Taken(t, x))
        BY <1>2, <2>1, <2>3, <3>1 DEF NodeOK
      <3>3. Taken(t, x) = Answered(t, x)
        <4>1. x \in 1..(Len(calls) + 1)
          BY <3>1, Lengths DEF IInv
        <4> QED BY <1>2, <3>1, <3>2, <4>1, TakenAnswered
      <3>4. Follows(n, t, Answered(t, x))
        BY <3>2, <3>3 DEF EndsAt, Follows
      <3> QED BY <3>1, <3>4
    <2> QED BY <2>2, <2>3
  <1>3. TurnsApart
    <2>1. \A n \in DOMAIN dag : NodeOK(n)
      BY DEF IInv, NodesOK
    <2> QED BY <2>1 DEF TurnsApart, NodeOK
  <1> QED BY <1>1, <1>2, <1>3 DEF ChainInOrder

LEMMA OwnPutsAreRead == ASSUME IInv PROVE ReadsOwnPuts
  <1> SUFFICES ASSUME NEW c \in DOMAIN calls, calls[c].at = "ok", turns[calls[c].turn].orderly
               PROVE  /\ calls[c].op = "get" =>
                             LET same == {d \in PutsBefore(c) : calls[d].path = calls[c].path} IN
                             \A d \in same : IsLatest(d, same) => calls[c].answer = calls[d].value
                      /\ calls[c].op = "list" =>
                             \A d \in PutsBefore(c) : calls[d].path \in calls[c].answer
    BY DEF ReadsOwnPuts
  <1>1. PICK t, p, state, answer : /\ t = calls[c].turn /\ p = calls[c].path
                                   /\ state = Sent(c) /\ answer = calls[c].answer
    OBVIOUS
  <1>2. /\ CallOK(c) /\ SentOK(c) /\ calls[c].node # 0 /\ t \in DOMAIN turns
        /\ Orderly(c) /\ Apart(c) /\ ReplyOK(c, calls[c].state, answer)
    <2>1. CallOK(c) /\ SentOK(c) /\ t \in DOMAIN turns /\ Orderly(c) /\ Apart(c)
      BY <1>1, CallFacts DEF Orderly
    <2> QED BY <1>1, <2>1 DEF CallOK
  <1>3. Has(state, t, c)
    BY <1>1, <1>2 DEF SentOK
  <1>4. Taken(t, c) = Answered(t, c)
    <2>1. c \in 1..(Len(calls) + 1)
      BY Lengths DEF IInv
    <2> QED BY <1>1, <1>2, <2>1, TakenAnswered
  <1>5. \A d \in PutsBefore(c) : calls[d].path \in Paths /\ d \in Puts(t, c, calls[d].path)
    <2>1. ASSUME NEW d \in PutsBefore(c)
          PROVE  calls[d].path \in Paths /\ d \in Puts(t, c, calls[d].path)
      <3>1. d \in Taken(t, c) /\ calls[d].op = "put"
        BY <1>1, <1>4 DEF PutsBefore
      <3>2. d \in DOMAIN calls
        <4>1. c \in 1..(Len(calls) + 1)
          BY Lengths DEF IInv
        <4> QED BY <3>1, <4>1, TakenBefore
      <3>3. calls[d].path \in Paths
        BY <3>1, <3>2, CallFacts DEF CallOK
      <3> QED BY <3>1, <3>3 DEF Puts
    <2> QED BY <2>1
  <1>6. ASSUME calls[c].op = "get",
               NEW d \in {e \in PutsBefore(c) : calls[e].path = p},
               IsLatest(d, {e \in PutsBefore(c) : calls[e].path = p})
        PROVE  answer = calls[d].value
    <2>1. {e \in PutsBefore(c) : calls[e].path = p} = Puts(t, c, p)
      BY <1>1, <1>4 DEF PutsBefore, Puts
    <2>2. p \in Paths /\ d \in Puts(t, c, p) /\ IsLatest(d, Puts(t, c, p))
      BY <1>5, <1>6, <2>1
    <2>3. state # Root /\ ViewOf(state)[p] = calls[d].value
      BY <1>3, <2>2 DEF Has
    <2>4. answer = ViewOf(state)[p]
      BY <1>1, <1>2, <1>6, <2>3 DEF ReplyOK
    <2> QED BY <2>3, <2>4
  <1>7. ASSUME calls[c].op = "list", NEW d \in PutsBefore(c)
        PROVE  calls[d].path \in answer
    <2>1. PICK q : q = calls[d].path
      OBVIOUS
    <2>2. q \in Paths /\ state # Root /\ ViewOf(state)[q] \in Values
      BY <1>3, <1>5, <2>1 DEF Has
    <2>3. answer = {r \in Paths : ViewOf(state)[r] # Absent}
      BY <1>1, <1>2, <1>7, <2>2 DEF ReplyOK
    <2> QED BY <2>1, <2>2, <2>3, ProviderConstants
  <1> QED BY <1>1, <1>6, <1>7

-----------------------------------------------------------------------------
(* Theorems *)

\* The registers hold what the code's types say: a head that was recorded, the turn that was
\* routed last, a state commit or none; and the worker's tables hold commits of views.
THEOREM TypeCorrect == Spec => []TypeOK
  <1>1. IInv => TypeOK
    BY DEF IInv
  <1> QED BY <1>1, Invariant, PTL

\* Wherever the worker stops between the three writes of a put, and however often the request
\* is delivered again, a commit names a parent, a snapshot and values that are stored.
THEOREM CommitsAreWhole == Spec => []CommitsWhole
  <1>1. IInv => CommitsWhole
    BY DEF IInv, StoreOK
  <1> QED BY <1>1, Invariant, PTL

\* While the calls of a turn run one by one and none reaches beyond it, its requests and its
\* complete form one chain from its invoke, in the order of the answers, each with the state
\* that the node before it left; and turns that calls do not reach across keep their nodes and
\* states to themselves.
THEOREM ChainIsInOrder == Spec => []ChainInOrder
  <1>1. IInv => ChainInOrder
    BY OrderOfChain
  <1> QED BY <1>1, Invariant, PTL

\* In such a turn, what the agent gets or lists shows its own puts before it, whatever the
\* worker does again and other turns leave in the registers.
THEOREM OwnPutsRead == Spec => []ReadsOwnPuts
  <1>1. IInv => ReadsOwnPuts
    BY OwnPutsAreRead
  <1> QED BY <1>1, Invariant, PTL
===============================================================================
