--------------------------- MODULE ProjectionProofs ---------------------------
(***************************************************************************)
(* Theorems about the two readings of the messages of a session: the       *)
(* commits that GitProjection makes of a stream of them, and the           *)
(* conversation and the transcript that Conversation makes of the nodes of *)
(* a branch.  For every stream, every pool of workers, any clients, and    *)
(* any number of messages, faults and failures.                            *)
(***************************************************************************)
EXTENDS GitProjection, Conversation, FiniteSetTheorems, SequenceTheorems, WellFoundedInduction,
        TLAPS
-----------------------------------------------------------------------------
(* Sequences *)

\* Elements of a sequence of S are in S.
LEMMA SeqElement ==
    ASSUME NEW S, NEW q \in Seq(S)
    PROVE  /\ \A i \in DOMAIN q : q[i] \in S
           /\ DOMAIN q = 1..Len(q)
           /\ Len(q) \in Nat
  BY LenProperties

\* Appending keeps every element where it is and adds one at the end.
LEMMA SeqAppend ==
    ASSUME NEW S, NEW q \in Seq(S), NEW x \in S
    PROVE  /\ Append(q, x) \in Seq(S)
           /\ Len(Append(q, x)) = Len(q) + 1
           /\ DOMAIN Append(q, x) = DOMAIN q \cup {Len(q) + 1}
           /\ \A i \in DOMAIN q : Append(q, x)[i] = q[i]
           /\ Append(q, x)[Len(q) + 1] = x
  BY AppendProperties, LenProperties

-----------------------------------------------------------------------------
(* The inductive invariant *)

\* Who a message directory is named after.
Froms == {"harness", "service", "platform"} \cup {log[i].agent : i \in Messages}
Line == (1..(Limit + 1)) \X Froms \X Kinds

\* HEAD is at the last commit, and the commits are one line.
OneLine == /\ \A n \in DOMAIN commits : commits[n].parent = n - 1
           /\ refs[head] = Len(commits)

\* A worker has what its handler has done so far, and once it may acknowledge its message,
\* that was committed or refused.  HEAD leaves main with the first promote, for good.
WorkerOK(w) ==
    /\ ~At(w, "idle") => workers[w].msg \in Messages
    /\ workers[w].at \in {"committed", "sealed"} =>
           /\ workers[w].commit \in DOMAIN commits
           /\ commits[workers[w].commit].msg = workers[w].msg
    /\ workers[w].at \in {"committed", "sealed", "moved"} => Committed(workers[w].msg)
    /\ At(w, "handled") => Committed(workers[w].msg) \/ workers[w].msg \in lost
    /\ At(w, "sealed") => Message(w).kind = "promote" /\ head # "main"
WorkersOK == \A w \in Workers : WorkerOK(w)

\* Nothing was taken from the stream and lost, nor is anything owed that was not delivered.
TakenKept == /\ \A i \in Messages : Taken(i) => Committed(i) \/ i \in lost
             /\ consumers[All].owed \subseteq 1..consumers[All].seen

\* A single worker finds HEAD where it read it, and without faults owes the message it has.
Steady(w) ==
    /\ At(w, "idle") => consumers[All].owed = {} /\ consumers[All].seen = Len(commits) - 1
    /\ ~At(w, "idle") => /\ consumers[All].owed = {workers[w].msg}
                         /\ consumers[All].seen = workers[w].msg
    /\ At(w, "handling") => workers[w].msg = Len(commits)
    /\ ~At(w, "idle") /\ ~At(w, "handling") => workers[w].msg = Len(commits) - 1
Alone ==
    Cardinality(Workers) = 1 =>
        /\ lost = {}
        /\ \A w \in Workers : At(w, "handling") => workers[w].base = Len(commits)
        /\ faults = 0 => /\ \A n \in DOMAIN commits : commits[n].msg = n - 1
                         /\ \A w \in Workers : Steady(w)

\* The numbers that count are those from one on, each once.
NumbersOK ==
    /\ IsFiniteSet(tree.dirs)
    /\ \A place : /\ {d.number : d \in Counted(place)} = 1..Cardinality(Counted(place))
                  /\ \A d, e \in Counted(place) : d.number = e.number => d = e

\* While they do, they and the hashes are those of the commits.
HashesOK ==
    \A place : Small(place) =>
        /\ Entries(place) = Counted(place)
        /\ Cardinality(Counted(place)) = Cardinality(Commits(place))
        /\ \A d \in Entries(place) :
               /\ d.hash \in Seq(Messages) /\ Len(d.hash) = d.number
               /\ \A j \in 1..d.number : Nth(place, j, d.hash[j])

\* And so are the lines of the index files.
IndexTyped == \A f \in DOMAIN tree.index : tree.index[f] \in Seq(Line)
IndexOK ==
    \A place : Small(place) =>
        /\ UNION {ToSet(tree.index[f]) : f \in Files(place)} = {Name(d) : d \in Entries(place)}
        /\ \A f, g \in Files(place) :
               \A j \in DOMAIN tree.index[f], k \in DOMAIN tree.index[g] :
                   /\ f = g /\ j < k => tree.index[f][j][1] < tree.index[g][k][1]
                   /\ tree.index[f][j] = tree.index[g][k] => f = g
        /\ Files(place) # {} =>
               LET f == <<place, tree.active[place]>> IN
               /\ place \in DOMAIN tree.active
               /\ f \in DOMAIN tree.index /\ tree.index[f] # <<>>
               /\ Last(tree.index[f])[1] = Cardinality(Commits(place))

IInv == /\ log \in Streams /\ TypeOK
        /\ OneLine /\ BranchesMark
        /\ WorkersOK /\ TakenKept /\ Alone
        /\ NumbersOK /\ HashesOK /\ IndexTyped /\ IndexOK

-----------------------------------------------------------------------------
(* What the types give *)

LEMMA LogType == ASSUME log \in Streams
                 PROVE  /\ Messages = 1..Len(log) /\ Len(log) \in Nat
                        /\ \A i \in Messages : log[i].kind \in Kinds
  <1>1. log \in Seq(ToSet(log))
    BY GitProjectionConstants
  <1> QED BY <1>1, LenProperties, GitProjectionConstants DEF Messages

LEMMA Consumer ==
    ASSUME TypeOK
    PROVE  /\ consumers[All].made \in BOOLEAN
           /\ consumers[All].seen \in 0..Len(log)
           /\ consumers[All].owed \subseteq Messages
  BY DEF TypeOK

LEMMA CommitsType ==
    ASSUME TypeOK
    PROVE  /\ DOMAIN commits = 1..Len(commits) /\ Len(commits) \in Nat
           /\ commits \in Seq([parent : Nat, msg : 0..Len(log)])
           /\ \A n \in DOMAIN commits : commits[n].msg \in 0..Len(log)
           /\ refs[head] \in DOMAIN commits /\ head \in DOMAIN refs
           /\ \A b \in DOMAIN refs : refs[b] \in DOMAIN commits
  <1> DEFINE C == [parent : Nat, msg : 0..Len(log)]
  <1>1. commits \in Seq(C)
    BY DEF TypeOK
  <1>2. head \in DOMAIN refs /\ \A b \in DOMAIN refs : refs[b] \in DOMAIN commits
    BY DEF TypeOK
  <1>3. /\ \A n \in DOMAIN commits : commits[n] \in C
        /\ DOMAIN commits = 1..Len(commits) /\ Len(commits) \in Nat
    <2> HIDE DEF C
    <2> QED BY <1>1, SeqElement
  <1> QED BY <1>1, <1>2, <1>3

LEMMA WorkerType ==
    ASSUME TypeOK, NEW w \in Workers
    PROVE  /\ workers[w].at \in {"idle", "handling", "committed", "sealed", "moved", "handled"}
           /\ workers[w].msg \in 0..Len(log)
           /\ workers[w].base \in 0..Len(commits)
           /\ workers[w].commit \in 0..Len(commits)
  BY DEF TypeOK

\* The consumer of all messages delivers them one after the other.
LEMMA DeliversNext ==
    ASSUME log \in Streams, TypeOK, NEW i \in Messages, Delivers(All, i)
    PROVE  i \in consumers[All].owed \/ i = consumers[All].seen + 1
  <1>1. \A m : m.kind \in Kinds => Filter(All, m)
    BY DEF Filter, All
  <1> SUFFICES ASSUME i \notin consumers[All].owed, i # consumers[All].seen + 1
               PROVE  FALSE
    OBVIOUS
  <1>2. /\ i > consumers[All].seen
        /\ \A j \in (consumers[All].seen + 1)..(i - 1) : ~Filter(All, log[j])
    BY DEF Delivers
  <1>3. i - 1 \in (consumers[All].seen + 1)..(i - 1) /\ i - 1 \in Messages
    BY <1>2, LogType, Consumer
  <1> QED BY <1>1, <1>2, <1>3, LogType

-----------------------------------------------------------------------------
(* The two ways a handler ends, and the steps one by one *)

\* The message becomes a commit.
NewCommit(w, from, timeline) ==
    /\ At(w, "handling") /\ from \in Froms
    /\ workers[w].base = refs[head]
    /\ commits' = Append(commits, [parent |-> workers[w].base, msg |-> workers[w].msg])
    /\ tree' = Nested(workers[w].msg, from, timeline, CanonicalHash(Place(Message(w))))
    /\ refs' = [refs EXCEPT ![head] = Len(commits) + 1]
    /\ workers' = [workers EXCEPT ![w].at = "committed", ![w].commit = Len(commits) + 1]
    /\ UNCHANGED <<log, consumers, head, worktree, lost, faults>>

\* libgit2 refuses it.
Refused(w) ==
    /\ At(w, "handling")
    /\ workers[w].base # refs[head]
    /\ To(w, "handled") /\ lost' = lost \cup {workers[w].msg}
    /\ UNCHANGED <<log, consumers, commits, refs, tree, head, worktree, faults>>

LEMMA CommitCases ==
    ASSUME NEW w \in Workers, NEW from \in Froms, NEW timeline,
           At(w, "handling"), Commit(w, from, timeline)
    PROVE  NewCommit(w, from, timeline) \/ Refused(w)
  BY DEF Commit, NewCommit, Refused, Message

\* Every step is one of nine.
Step == \/ \E w \in Workers :
               \/ \E i \in Messages : Take(w, i)
               \/ \E timeline : \E from \in Froms : NewCommit(w, from, timeline)
               \/ Refused(w)
               \/ CreateBranch(w) \/ (\E s \in Seconds : Seal(w, s)) \/ PromoteBranch(w)
               \/ Checkout(w) \/ Ack(w)
        \/ DaemonRestarts

LEMMA Steps ==
    ASSUME log \in Streams, WorkersOK, Next
    PROVE  Step
  <1>1. CASE DaemonRestarts
    BY <1>1 DEF Step
  <1>2. ASSUME NEW w \in Workers, Worker(w)
        PROVE  Step
    <2>1. At(w, "handling") => Message(w).agent \in Froms
      BY DEF WorkersOK, WorkerOK, At, Froms, Message
    <2>2. {"harness", "service", "platform"} \subseteq Froms
      BY DEF Froms
    <2>3. ASSUME NEW from \in Froms, NEW timeline, At(w, "handling"), Commit(w, from, timeline)
          PROVE  Step
      BY <2>3, CommitCases DEF Step
    <2>4. CASE OnInvoke(w)
      BY <2>2, <2>3, <2>4 DEF OnInvoke, Handles
    <2>5. CASE OnComplete(w)
      BY <2>1, <2>3, <2>5 DEF OnComplete, Handles
    <2>6. CASE OnRequest(w)
      BY <2>1, <2>3, <2>6 DEF OnRequest, Handles
    <2>7. CASE OnResponse(w)
      BY <2>2, <2>3, <2>7 DEF OnResponse, Handles
    <2>8. CASE OnSvcRequest(w)
      BY <2>1, <2>3, <2>8 DEF OnSvcRequest, Handles
    <2>9. CASE OnSvcResponse(w)
      BY <2>2, <2>3, <2>9 DEF OnSvcResponse, Handles
    <2>10. CASE OnFork(w)
      BY <2>2, <2>3, <2>10 DEF OnFork, Handles
    <2>11. CASE OnPromote(w)
      BY <2>2, <2>3, <2>11 DEF OnPromote, Handles
    <2> QED
      BY <1>2, <2>4, <2>5, <2>6, <2>7, <2>8, <2>9, <2>10, <2>11 DEF Worker, Step, Messages
  <1> QED BY <1>1, <1>2 DEF Next

-----------------------------------------------------------------------------
(* What each step does to the workers *)

LEMMA WorkersMap ==
    ASSUME TypeOK
    PROVE  /\ workers \in [Workers ->
                  [at : {"idle", "handling", "committed", "sealed", "moved", "handled"},
                   msg : 0..Len(log), base : 0..Len(commits), commit : 0..Len(commits)]]
           /\ Workers \in Pools
  BY DEF TypeOK

\* Going on leaves the other workers and the message alone.
LEMMA ToStep ==
    ASSUME TypeOK, NEW w \in Workers, NEW at, To(w, at)
    PROVE  /\ Workers' = Workers
           /\ workers'[w] = [workers[w] EXCEPT !.at = at]
           /\ workers'[w].at = at /\ workers'[w].msg = workers[w].msg
           /\ workers'[w].base = workers[w].base /\ workers'[w].commit = workers[w].commit
           /\ \A v \in Workers : v # w => workers'[v] = workers[v]
  BY WorkersMap DEF To, Workers

LEMMA CommitStep ==
    ASSUME TypeOK, NEW w \in Workers, NEW from, NEW timeline, NewCommit(w, from, timeline)
    PROVE  /\ Workers' = Workers
           /\ workers'[w].at = "committed" /\ workers'[w].msg = workers[w].msg
           /\ workers'[w].base = workers[w].base /\ workers'[w].commit = Len(commits) + 1
           /\ workers'[w] = [workers[w] EXCEPT !.at = "committed", !.commit = Len(commits) + 1]
           /\ \A v \in Workers : v # w => workers'[v] = workers[v]
  BY WorkersMap DEF NewCommit, Workers

LEMMA TakeStep ==
    ASSUME TypeOK, NEW w \in Workers, NEW i \in Messages, Take(w, i)
    PROVE  /\ Workers' = Workers
           /\ workers'[w] = [at |-> "handling", msg |-> i, base |-> refs[head], commit |-> 0]
           /\ workers'[w].at = "handling" /\ workers'[w].msg = i /\ workers'[w].base = refs[head]
           /\ \A v \in Workers : v # w => workers'[v] = workers[v]
  BY WorkersMap DEF Take, Workers

LEMMA AckStep ==
    ASSUME TypeOK, NEW w \in Workers, Ack(w)
    PROVE  /\ Workers' = Workers
           /\ workers'[w] = Idle
           /\ \A v \in Workers : v # w => workers'[v] = workers[v]
  BY WorkersMap DEF Ack, Workers

LEMMA RestartStep ==
    ASSUME TypeOK, DaemonRestarts
    PROVE  /\ Workers' = Workers
           /\ \A w \in Workers : workers'[w] = Idle
  BY WorkersMap DEF DaemonRestarts, Workers

\* Appending a commit keeps those that are there.
LEMMA NewCommits ==
    ASSUME log \in Streams, TypeOK, WorkersOK,
           NEW w \in Workers, NEW from, NEW timeline, NewCommit(w, from, timeline)
    PROVE  /\ commits' \in Seq([parent : Nat, msg : 0..Len(log)])
           /\ Len(commits') = Len(commits) + 1
           /\ DOMAIN commits' = DOMAIN commits \cup {Len(commits) + 1}
           /\ \A n \in DOMAIN commits : commits'[n] = commits[n]
           /\ commits'[Len(commits) + 1] = [parent |-> refs[head], msg |-> workers[w].msg]
           /\ Committed(workers[w].msg)'
  <1> DEFINE C == [parent : Nat, msg : 0..Len(log)]
             c == [parent |-> workers[w].base, msg |-> workers[w].msg]
  <1>1. commits \in Seq(C)
    BY CommitsType
  <1>2. c \in C
    BY WorkerType, CommitsType
  <1>3. commits' = Append(commits, c) /\ c = [parent |-> refs[head], msg |-> workers[w].msg]
    BY DEF NewCommit
  <1>4. /\ commits' \in Seq(C)
        /\ Len(commits') = Len(commits) + 1
        /\ DOMAIN commits' = DOMAIN commits \cup {Len(commits) + 1}
        /\ \A n \in DOMAIN commits : commits'[n] = commits[n]
        /\ commits'[Len(commits) + 1] = c
    <2> HIDE DEF C, c
    <2> QED BY <1>1, <1>2, <1>3, SeqAppend
  <1>5. workers'[w].msg = workers[w].msg
    BY CommitStep
  <1>6. (\E n \in DOMAIN commits : commits[n].msg = workers[w].msg)'
    BY <1>3, <1>4, <1>5
  <1> QED BY <1>3, <1>4, <1>5, <1>6 DEF Committed

-----------------------------------------------------------------------------
(* Types *)

LEMMA CountedBound ==
    ASSUME NumbersOK, NEW place
    PROVE  /\ IsFiniteSet(Counted(place))
           /\ Cardinality(Counted(place)) \in 0..Limit
  <1>1. IsFiniteSet(Counted(place))
    BY FS_Subset DEF NumbersOK, Counted
  <1>2. Cardinality(Counted(place)) \in Nat
    BY <1>1, FS_CardinalityType
  <1>3. ASSUME Cardinality(Counted(place)) > Limit
        PROVE  FALSE
    <2>1. Cardinality(Counted(place)) \in {d.number : d \in Counted(place)}
      <3>1. {d.number : d \in Counted(place)} = 1..Cardinality(Counted(place))
        BY DEF NumbersOK
      <3>2. Cardinality(Counted(place)) \in 1..Cardinality(Counted(place))
        BY <1>2, <1>3, GitProjectionConstants
      <3> QED BY <3>1, <3>2
    <2>2. PICK d \in Counted(place) : d.number = Cardinality(Counted(place))
      BY <2>1
    <2>3. d.number <= Limit
      BY DEF Counted
    <2> QED BY <1>2, <1>3, <2>2, <2>3, GitProjectionConstants
  <1> QED BY <1>1, <1>2, <1>3, GitProjectionConstants

\* The directory that a handler makes, and those that stay.
Made(i, from) ==
    [place |-> Place(log[i]), number |-> Cardinality(Counted(Place(log[i]))) + 1,
     from |-> from, kind |-> log[i].kind, msg |-> i,
     hash |-> Append(CanonicalHash(Place(log[i])), i)]
Others(i, from) == {e \in tree.dirs : e.place # Place(log[i]) \/ Name(e) # Name(Made(i, from))}

LEMMA NewTree ==
    ASSUME NEW w \in Workers, NEW from, NEW timeline, NewCommit(w, from, timeline)
    PROVE  LET i == workers[w].msg
               f == <<Place(log[i]), timeline>> IN
           /\ tree'.dirs = Others(i, from) \cup {Made(i, from)}
           /\ tree'.index = With(tree.index, f, Append(Lines(f), Name(Made(i, from))))
           /\ tree'.active = With(tree.active, Place(log[i]), timeline)
  <1> DEFINE i == workers[w].msg
             parent == CanonicalHash(Place(log[i]))
  <1>1. tree' = Nested(i, from, timeline, parent)
    BY DEF NewCommit, Message
  <1>2. Nested(i, from, timeline, parent) =
            [Indexed(Place(log[i]), timeline, Name(Made(i, from)))
                EXCEPT !.dirs = Others(i, from) \cup {Made(i, from)}]
    BY DEF Nested, Made, Others
  <1> QED BY <1>1, <1>2 DEF Indexed

\* What commits refer to, when there is one more.
LEMMA TypeCommit ==
    ASSUME log \in Streams, TypeOK, WorkersOK, NumbersOK,
           NEW w \in Workers, NEW from, NEW timeline, NewCommit(w, from, timeline)
    PROVE  TypeOK'
  <1> USE GitProjectionConstants
  <1>1. /\ log' = log /\ consumers' = consumers /\ head' = head /\ worktree' = worktree
        /\ lost' = lost /\ faults' = faults
        /\ refs' = [refs EXCEPT ![head] = Len(commits) + 1]
    BY DEF NewCommit
  <1>2. Messages' = Messages /\ Branch' = Branch
    BY <1>1 DEF Messages, Branch
  <1>3. /\ DOMAIN commits \subseteq DOMAIN commits' /\ Len(commits) + 1 \in DOMAIN commits'
        /\ (commits \in Seq([parent : Nat, msg : 0..Len(log)]))'
        /\ Len(commits') = Len(commits) + 1 /\ Len(commits) \in Nat
    BY <1>1, NewCommits, CommitsType
  <1>4. (\A d \in tree.dirs : d.number \in 1..(Limit + 1) /\ d.msg \in Messages)'
    <2>1. \A d \in tree.dirs : d.number \in 1..(Limit + 1) /\ d.msg \in Messages
      BY DEF TypeOK
    <2> DEFINE d == Made(workers[w].msg, from)
    <2>2. d.number \in 1..(Limit + 1)
      BY CountedBound DEF Made
    <2>3. d.msg \in Messages
      BY DEF Made, NewCommit, WorkersOK, WorkerOK, At
    <2>4. tree'.dirs \subseteq tree.dirs \cup {d}
      BY NewTree DEF Others
    <2> QED BY <1>2, <2>1, <2>2, <2>3, <2>4
  <1>5. DOMAIN refs' = DOMAIN refs /\ \A b \in DOMAIN refs : refs'[b] \in DOMAIN commits'
    BY <1>1, <1>3, CommitsType
  <1>6. Workers' = Workers /\
        workers' \in [Workers ->
           [at : {"idle", "handling", "committed", "sealed", "moved", "handled"},
            msg : 0..Len(log), base : 0..Len(commits'), commit : 0..Len(commits')]]
    <2>1. workers' = [workers EXCEPT ![w].at = "committed", ![w].commit = Len(commits) + 1]
      BY DEF NewCommit
    <2>2. Len(commits) + 1 \in 0..Len(commits') /\ 0..Len(commits) \subseteq 0..Len(commits')
      BY <1>3
    <2>3. \A v \in Workers :
             workers[v] \in
               [at : {"idle", "handling", "committed", "sealed", "moved", "handled"},
                msg : 0..Len(log), base : 0..Len(commits'), commit : 0..Len(commits')]
      BY <2>2, WorkersMap
    <2>4. Workers' = Workers
      BY CommitStep
    <2> QED BY <2>1, <2>2, <2>3, <2>4, WorkersMap
  <1> QED BY <1>1, <1>2, <1>3, <1>4, <1>5, <1>6, CommitsType DEF TypeOK

\* The other steps leave the commits alone.
LEMMA TypeQuiet ==
    ASSUME log \in Streams, TypeOK, UNCHANGED <<log, commits, tree>>,
           /\ consumers' \in [{All} -> [made : BOOLEAN, seen : 0..Len(log),
                                        owed : SUBSET Messages]]
           /\ DOMAIN refs' \subseteq Branch /\ head' \in DOMAIN refs'
           /\ \A b \in DOMAIN refs' : refs'[b] \in DOMAIN commits
           /\ worktree' \in DOMAIN commits
           /\ Workers' = Workers
           /\ \A w \in Workers :
                  workers'[w] \in
                      [at : {"idle", "handling", "committed", "sealed", "moved", "handled"},
                       msg : 0..Len(log), base : 0..Len(commits), commit : 0..Len(commits)]
           /\ workers' = [w \in Workers |-> workers'[w]]
           /\ lost' \subseteq Messages /\ faults' \in 0..MaxFaults
    PROVE  TypeOK'
  <1>1. Messages' = Messages /\ Branch' = Branch
    BY DEF Messages, Branch
  <1>2. /\ commits' \in Seq([parent : Nat, msg : 0..Len(log')])
        /\ \A d \in tree'.dirs : d.number \in 1..(Limit + 1) /\ d.msg \in Messages'
        /\ Workers' \in Pools
    BY <1>1 DEF TypeOK
  <1>3. (workers \in [Workers ->
           [at : {"idle", "handling", "committed", "sealed", "moved", "handled"},
            msg : 0..Len(log), base : 0..Len(commits), commit : 0..Len(commits)]])'
    OBVIOUS
  <1> QED BY <1>1, <1>2, <1>3 DEF TypeOK

Status == {"idle", "handling", "committed", "sealed", "moved", "handled"}
WorkerRecord == [at : Status, msg : 0..Len(log), base : 0..Len(commits), commit : 0..Len(commits)]
ConsumerRecord == [made : BOOLEAN, seen : 0..Len(log), owed : SUBSET Messages]

LEMMA RecordTypes ==
    ASSUME TypeOK
    PROVE  /\ workers \in [Workers -> WorkerRecord]
           /\ consumers \in [{All} -> ConsumerRecord]
           /\ DOMAIN refs \subseteq Branch /\ worktree \in DOMAIN commits
           /\ lost \subseteq Messages /\ faults \in 0..MaxFaults
  BY DEF TypeOK, WorkerRecord, ConsumerRecord, Status

\* Going on to another status.
LEMMA TypeTo ==
    ASSUME TypeOK, NEW w \in Workers, NEW at \in Status, To(w, at)
    PROVE  Workers' = Workers /\ workers' \in [Workers -> WorkerRecord]
  BY RecordTypes DEF To, Workers, WorkerRecord

LEMMA TypeTake ==
    ASSUME log \in Streams, TypeOK, NEW w \in Workers, NEW i \in Messages, Take(w, i)
    PROVE  TypeOK'
  <1>1. workers' \in [Workers -> WorkerRecord] /\ Workers' = Workers
    <2>1. refs[head] \in 0..Len(commits) /\ 0 \in 0..Len(commits) /\ i \in 0..Len(log)
      BY CommitsType, LogType
    <2>2. [at |-> "handling", msg |-> i, base |-> refs[head], commit |-> 0] \in WorkerRecord
      BY <2>1 DEF WorkerRecord, Status
    <2> QED BY <2>2, TakeStep, RecordTypes DEF Take
  <1>2. consumers' \in [{All} -> ConsumerRecord]
    <2>1. Later(consumers[All].seen, i) \in 0..Len(log)
      BY Consumer, LogType DEF Later
    <2>2. [made |-> TRUE, seen |-> Later(consumers[All].seen, i),
           owed |-> consumers[All].owed \cup {i}] \in ConsumerRecord
      BY <2>1, Consumer DEF ConsumerRecord
    <2> QED BY <2>2, RecordTypes DEF Take, Fetch
  <1>3. UNCHANGED <<log, commits, tree, refs, head, worktree, lost, faults>>
    BY DEF Take
  <1> QED BY <1>1, <1>2, <1>3, TypeQuiet, RecordTypes, CommitsType
             DEF WorkerRecord, ConsumerRecord, Status

\* Moving branches: they stay names of branches at commits.
LEMMA TypeRefs ==
    ASSUME log \in Streams, TypeOK, NEW w \in Workers, NEW at \in Status, To(w, at),
           UNCHANGED <<log, consumers, commits, tree, lost, faults>>,
           DOMAIN refs' \subseteq Branch, head' \in DOMAIN refs',
           \A b \in DOMAIN refs' : refs'[b] \in DOMAIN commits,
           worktree' \in DOMAIN commits
    PROVE  TypeOK'
  <1>1. Workers' = Workers /\ workers' \in [Workers -> WorkerRecord]
    BY TypeTo
  <1> QED BY <1>1, TypeQuiet, RecordTypes DEF WorkerRecord, ConsumerRecord, Status

LEMMA TypeRefused ==
    ASSUME log \in Streams, TypeOK, WorkersOK, NEW w \in Workers, Refused(w)
    PROVE  TypeOK'
  <1>1. workers[w].msg \in Messages
    BY DEF Refused, WorkersOK, WorkerOK, At
  <1>2. Workers' = Workers /\ workers' \in [Workers -> WorkerRecord]
    BY TypeTo DEF Refused, Status
  <1>3. UNCHANGED <<log, consumers, commits, tree, refs, head, worktree, faults>>
    BY DEF Refused
  <1>4. lost' \subseteq Messages
    BY <1>1, RecordTypes DEF Refused
  <1> QED BY <1>2, <1>3, <1>4, TypeQuiet, RecordTypes, CommitsType
             DEF WorkerRecord, ConsumerRecord, Status

LEMMA TypeCreateBranch ==
    ASSUME log \in Streams, TypeOK, WorkersOK, NEW w \in Workers, CreateBranch(w)
    PROVE  TypeOK'
  <1>1. UNCHANGED <<log, consumers, commits, tree, head, worktree, lost, faults>>
    BY DEF CreateBranch
  <1>2. CASE Message(w).branch \in DOMAIN refs
    BY <1>1, <1>2, TypeRefs, RecordTypes, CommitsType DEF CreateBranch, Status
  <1>3. CASE Message(w).branch \notin DOMAIN refs
    <2>1. /\ workers[w].msg \in Messages /\ workers[w].commit \in DOMAIN commits
          /\ Message(w).kind = "fork"
      BY DEF CreateBranch, WorkersOK, WorkerOK, At
    <2>2. Message(w).branch \in Branch
      BY <2>1 DEF Branch, Message
    <2>3. To(w, "moved") /\ refs' = With(refs, Message(w).branch, workers[w].commit)
      BY <1>3 DEF CreateBranch
    <2>4. /\ DOMAIN refs' = DOMAIN refs \cup {Message(w).branch}
          /\ refs'[Message(w).branch] = workers[w].commit
          /\ \A b \in DOMAIN refs : b # Message(w).branch => refs'[b] = refs[b]
      BY <2>3 DEF With
    <2> QED BY <1>1, <2>1, <2>2, <2>3, <2>4, TypeRefs, RecordTypes, CommitsType DEF Status
  <1> QED BY <1>2, <1>3

LEMMA SealedName ==
    ASSUME NEW s \in Seconds
    PROVE  Sealed(s) \in ToSet(Names) /\ Sealed(s) # "main" /\ Sealed(s) \in Branch
  BY GitProjectionConstants DEF Seconds, Sealed, ToSet, Branch

\* The three outcomes of sealing main.
LEMMA SealCases ==
    ASSUME NEW w \in Workers, NEW s \in Seconds, Seal(w, s)
    PROVE  /\ At(w, "committed") /\ Message(w).kind = "promote"
           /\ UNCHANGED <<log, consumers, commits, tree, worktree, lost, faults>>
           /\ \/ "main" \notin DOMAIN refs /\ To(w, "sealed") /\ UNCHANGED <<refs, head>>
              \/ To(w, "handled") /\ UNCHANGED <<refs, head>>
              \/ /\ "main" \in DOMAIN refs /\ Sealed(s) \notin DOMAIN refs
                 /\ To(w, "sealed")
                 /\ refs' = [b \in (DOMAIN refs \ {"main"}) \cup {Sealed(s)} |->
                                IF b = Sealed(s) THEN refs["main"] ELSE refs[b]]
                 /\ head' = IF head = "main" THEN Sealed(s) ELSE head
  BY DEF Seal

LEMMA TypeSeal ==
    ASSUME log \in Streams, TypeOK, NEW w \in Workers, NEW s \in Seconds, Seal(w, s)
    PROVE  TypeOK'
  <1>1. UNCHANGED <<log, consumers, commits, tree, worktree, lost, faults>>
    BY SealCases
  <1>2. ASSUME NEW at \in {"sealed", "handled"}, To(w, at), UNCHANGED <<refs, head>>
        PROVE  TypeOK'
    BY <1>1, <1>2, TypeRefs, RecordTypes, CommitsType DEF Status
  <1>3. ASSUME "main" \in DOMAIN refs, Sealed(s) \notin DOMAIN refs, To(w, "sealed"),
               refs' = [b \in (DOMAIN refs \ {"main"}) \cup {Sealed(s)} |->
                           IF b = Sealed(s) THEN refs["main"] ELSE refs[b]],
               head' = IF head = "main" THEN Sealed(s) ELSE head
        PROVE  TypeOK'
    <2>1. DOMAIN refs' \subseteq Branch
      BY <1>3, SealedName, RecordTypes
    <2>2. head' \in DOMAIN refs' /\ \A b \in DOMAIN refs' : refs'[b] \in DOMAIN commits
      BY <1>3, CommitsType
    <2> QED BY <1>1, <1>3, <2>1, <2>2, TypeRefs, RecordTypes DEF Status
  <1> QED BY <1>2, <1>3, SealCases

LEMMA TypePromoteBranch ==
    ASSUME log \in Streams, TypeOK, WorkersOK, NEW w \in Workers, PromoteBranch(w)
    PROVE  TypeOK'
  <1>1. /\ UNCHANGED <<log, consumers, commits, tree, head, worktree, lost, faults>>
        /\ To(w, "moved") /\ refs' = With(refs, "main", workers[w].commit)
    BY DEF PromoteBranch
  <1>2. workers[w].commit \in DOMAIN commits /\ "main" \in Branch
    BY DEF PromoteBranch, WorkersOK, WorkerOK, At, Branch
  <1>3. /\ DOMAIN refs' = DOMAIN refs \cup {"main"}
        /\ refs'["main"] = workers[w].commit
        /\ \A b \in DOMAIN refs : b # "main" => refs'[b] = refs[b]
    BY <1>1 DEF With
  <1> QED BY <1>1, <1>2, <1>3, TypeRefs, RecordTypes, CommitsType DEF Status

LEMMA TypeCheckout ==
    ASSUME log \in Streams, TypeOK, NEW w \in Workers, Checkout(w)
    PROVE  TypeOK'
  BY TypeRefs, RecordTypes, CommitsType DEF Checkout, Status

LEMMA IdleType == ASSUME TypeOK PROVE Idle \in WorkerRecord
  <1>1. 0 \in 0..Len(commits) /\ 0 \in 0..Len(log)
    BY CommitsType, RecordTypes DEF ConsumerRecord
  <1> QED BY <1>1 DEF Idle, WorkerRecord, Status

LEMMA FaultType == ASSUME TypeOK, Fault PROVE faults' \in 0..MaxFaults
  BY RecordTypes, GitProjectionConstants DEF Fault

LEMMA TypeAck ==
    ASSUME log \in Streams, TypeOK, NEW w \in Workers, Ack(w)
    PROVE  TypeOK'
  <1>1. UNCHANGED <<log, commits, tree, refs, head, worktree, lost>>
    BY DEF Ack
  <1>2. Workers' = Workers /\ workers' \in [Workers -> WorkerRecord]
    BY AckStep, IdleType, RecordTypes DEF Ack
  <1>3. consumers' \in [{All} -> ConsumerRecord] /\ faults' \in 0..MaxFaults
    <2>1. CASE Acknowledge(All, workers[w].msg) /\ UNCHANGED faults
      BY <2>1, RecordTypes DEF Acknowledge, ConsumerRecord
    <2>2. CASE Fault /\ UNCHANGED consumers
      BY <2>2, RecordTypes, FaultType
    <2> QED BY <2>1, <2>2 DEF Ack
  <1> QED BY <1>1, <1>2, <1>3, TypeQuiet, RecordTypes, CommitsType
             DEF WorkerRecord, ConsumerRecord, Status

LEMMA TypeRestart ==
    ASSUME log \in Streams, TypeOK, DaemonRestarts
    PROVE  TypeOK'
  <1>1. UNCHANGED <<log, commits, tree, refs, head, worktree, lost>> /\ Fault
    BY DEF DaemonRestarts
  <1>2. workers' \in [Workers -> WorkerRecord] /\ Workers' = Workers
    BY RestartStep, IdleType DEF DaemonRestarts
  <1>3. consumers' \in [{All} -> ConsumerRecord]
    <2>1. Unmade \in ConsumerRecord
      BY LogType DEF Unmade, ConsumerRecord
    <2> QED BY <2>1, RecordTypes DEF DaemonRestarts, Expire
  <1> QED BY <1>1, <1>2, <1>3, FaultType, TypeQuiet, RecordTypes, CommitsType
             DEF WorkerRecord, ConsumerRecord, Status

LEMMA TypeStep ==
    ASSUME IInv, Step
    PROVE  TypeOK' /\ log' = log
  <1> USE DEF IInv
  <1>1. ASSUME NEW w \in Workers, NEW i \in Messages, Take(w, i)
        PROVE  TypeOK' /\ log' = log
    BY <1>1, TypeTake DEF Take
  <1>2. ASSUME NEW w \in Workers, NEW from \in Froms, NEW timeline, NewCommit(w, from, timeline)
        PROVE  TypeOK' /\ log' = log
    BY <1>2, TypeCommit DEF NewCommit
  <1>3. ASSUME NEW w \in Workers, Refused(w)
        PROVE  TypeOK' /\ log' = log
    BY <1>3, TypeRefused DEF Refused
  <1>4. ASSUME NEW w \in Workers, CreateBranch(w)
        PROVE  TypeOK' /\ log' = log
    BY <1>4, TypeCreateBranch DEF CreateBranch
  <1>5. ASSUME NEW w \in Workers, NEW s \in Seconds, Seal(w, s)
        PROVE  TypeOK' /\ log' = log
    BY <1>5, TypeSeal DEF Seal
  <1>6. ASSUME NEW w \in Workers, PromoteBranch(w)
        PROVE  TypeOK' /\ log' = log
    BY <1>6, TypePromoteBranch DEF PromoteBranch
  <1>7. ASSUME NEW w \in Workers, Checkout(w)
        PROVE  TypeOK' /\ log' = log
    BY <1>7, TypeCheckout DEF Checkout
  <1>8. ASSUME NEW w \in Workers, Ack(w)
        PROVE  TypeOK' /\ log' = log
    BY <1>8, TypeAck DEF Ack
  <1>9. CASE DaemonRestarts
    BY <1>9, TypeRestart DEF DaemonRestarts
  <1> QED BY <1>1, <1>2, <1>3, <1>4, <1>5, <1>6, <1>7, <1>8, <1>9 DEF Step

-----------------------------------------------------------------------------
(* One line of commits, and branches that mark it *)

\* What a branch off HEAD is at.
Marks(b, n) ==
    LET m == log[commits[n].msg] IN
    \/ m.kind = "promote" /\ b \in {"main"} \cup ToSet(Names)
    \/ m.kind = "fork" /\ (m.branch = b \/ (m.branch = "main" /\ b \in ToSet(Names)))

LEMMA MarksAll == BranchesMark <=> \A b \in DOMAIN refs \ {head} : Marks(b, refs[b])
  BY DEF BranchesMark, Marks

\* A step that leaves commits and HEAD's branch alone.
LEMMA LineQuiet ==
    ASSUME OneLine, UNCHANGED commits, refs'[head'] = refs[head]
    PROVE  OneLine'
  BY DEF OneLine

LEMMA MarksMoved ==
    ASSUME UNCHANGED log,
           \A b \in DOMAIN refs' \ {head'} :
               Marks(b, refs'[b]) /\ commits'[refs'[b]] = commits[refs'[b]]
    PROVE  BranchesMark'
  BY DEF BranchesMark, Marks

LEMMA LineCommit ==
    ASSUME IInv, NEW w \in Workers, NEW from, NEW timeline, NewCommit(w, from, timeline)
    PROVE  OneLine' /\ BranchesMark'
  <1>1. /\ DOMAIN commits' = DOMAIN commits \cup {Len(commits) + 1}
        /\ Len(commits') = Len(commits) + 1
        /\ \A n \in DOMAIN commits : commits'[n] = commits[n]
        /\ commits'[Len(commits) + 1] = [parent |-> refs[head], msg |-> workers[w].msg]
    BY NewCommits DEF IInv
  <1>2. /\ refs' = [refs EXCEPT ![head] = Len(commits) + 1] /\ head' = head /\ log' = log
        /\ head \in DOMAIN refs /\ \A b \in DOMAIN refs : refs[b] \in DOMAIN commits
        /\ Len(commits) \in Nat
    BY CommitsType DEF NewCommit, IInv
  <1>3. OneLine'
    BY <1>1, <1>2 DEF IInv, OneLine
  <1>4. ASSUME NEW b \in DOMAIN refs' \ {head'}
        PROVE  Marks(b, refs'[b]) /\ commits'[refs'[b]] = commits[refs'[b]]
    <2>1. Marks(b, refs[b]) /\ refs'[b] = refs[b] /\ refs[b] \in DOMAIN commits
      BY <1>2, MarksAll DEF IInv
    <2> QED BY <1>1, <2>1
  <1> QED BY <1>2, <1>3, <1>4, MarksMoved

LEMMA LineCreateBranch ==
    ASSUME IInv, NEW w \in Workers, CreateBranch(w)
    PROVE  OneLine' /\ BranchesMark'
  <1>1. UNCHANGED <<log, commits, head>> /\ head \in DOMAIN refs
    BY CommitsType DEF CreateBranch, IInv
  <1>2. CASE UNCHANGED refs
    BY <1>1, <1>2 DEF IInv, OneLine, BranchesMark
  <1>3. CASE /\ Message(w).branch \notin DOMAIN refs
             /\ refs' = With(refs, Message(w).branch, workers[w].commit)
    <2>1. /\ DOMAIN refs' = DOMAIN refs \cup {Message(w).branch}
          /\ refs'[Message(w).branch] = workers[w].commit
          /\ \A b \in DOMAIN refs : refs'[b] = refs[b]
      BY <1>3 DEF With
    <2>2. OneLine'
      BY <1>1, <2>1, LineQuiet DEF IInv
    <2>3. Marks(Message(w).branch, workers[w].commit)
      BY DEF CreateBranch, IInv, WorkersOK, WorkerOK, At, Marks, Message
    <2>4. \A b \in DOMAIN refs' \ {head'} : Marks(b, refs'[b])
      BY <1>1, <2>1, <2>3, MarksAll DEF IInv
    <2> QED BY <1>1, <2>2, <2>4, MarksMoved
  <1> QED BY <1>2, <1>3 DEF CreateBranch

LEMMA LineSeal ==
    ASSUME IInv, NEW w \in Workers, NEW s \in Seconds, Seal(w, s)
    PROVE  OneLine' /\ BranchesMark'
  <1>1. UNCHANGED <<log, commits>> /\ head \in DOMAIN refs
    BY SealCases, CommitsType DEF IInv
  <1>2. CASE UNCHANGED <<refs, head>>
    BY <1>1, <1>2 DEF IInv, OneLine, BranchesMark
  <1>3. CASE /\ "main" \in DOMAIN refs /\ Sealed(s) \notin DOMAIN refs
             /\ refs' = [b \in (DOMAIN refs \ {"main"}) \cup {Sealed(s)} |->
                             IF b = Sealed(s) THEN refs["main"] ELSE refs[b]]
             /\ head' = IF head = "main" THEN Sealed(s) ELSE head
    <2>1. refs'[head'] = refs[head]
      BY <1>1, <1>3
    <2>2. OneLine'
      BY <1>1, <2>1, LineQuiet DEF IInv
    <2>3. ASSUME NEW b \in DOMAIN refs' \ {head'}
          PROVE  Marks(b, refs'[b])
      <3>1. CASE b = Sealed(s)
        <4>1. "main" \in DOMAIN refs \ {head} /\ refs'[b] = refs["main"]
          BY <1>1, <1>3, <3>1
        <4>2. Marks("main", refs["main"]) /\ b \in ToSet(Names)
          BY <3>1, <4>1, SealedName, MarksAll DEF IInv
        <4> QED BY <4>1, <4>2 DEF Marks
      <3>2. CASE b # Sealed(s)
        <4>1. b \in DOMAIN refs \ {head} /\ refs'[b] = refs[b]
          BY <1>3, <3>2
        <4> QED BY <4>1, MarksAll DEF IInv
      <3> QED BY <3>1, <3>2
    <2> QED BY <1>1, <2>2, <2>3, MarksMoved
  <1> QED BY <1>2, <1>3, SealCases

LEMMA LinePromoteBranch ==
    ASSUME IInv, NEW w \in Workers, PromoteBranch(w)
    PROVE  OneLine' /\ BranchesMark'
  <1>1. /\ UNCHANGED <<log, commits, head>> /\ head \in DOMAIN refs
        /\ refs' = With(refs, "main", workers[w].commit)
    BY CommitsType DEF PromoteBranch, IInv
  <1>2. /\ DOMAIN refs' = DOMAIN refs \cup {"main"}
        /\ refs'["main"] = workers[w].commit
        /\ \A b \in DOMAIN refs : b # "main" => refs'[b] = refs[b]
    BY <1>1 DEF With
  <1>3. head # "main" /\ Marks("main", workers[w].commit)
    BY DEF PromoteBranch, IInv, WorkersOK, WorkerOK, At, Marks, Message
  <1>4. OneLine'
    BY <1>1, <1>2, <1>3, LineQuiet DEF IInv
  <1>5. \A b \in DOMAIN refs' \ {head'} : Marks(b, refs'[b])
    BY <1>1, <1>2, <1>3, MarksAll DEF IInv
  <1> QED BY <1>1, <1>4, <1>5, MarksMoved

LEMMA LineStep ==
    ASSUME IInv, Step
    PROVE  OneLine' /\ BranchesMark'
  <1>1. CASE UNCHANGED <<log, commits, refs, head>>
    BY <1>1 DEF IInv, OneLine, BranchesMark
  <1>2. ASSUME NEW w \in Workers, \E i \in Messages : Take(w, i)
        PROVE  UNCHANGED <<log, commits, refs, head>>
    BY <1>2 DEF Take
  <1>3. ASSUME NEW w \in Workers, Refused(w) \/ Checkout(w) \/ Ack(w)
        PROVE  UNCHANGED <<log, commits, refs, head>>
    BY <1>3 DEF Refused, Checkout, Ack
  <1>4. DaemonRestarts => UNCHANGED <<log, commits, refs, head>>
    BY DEF DaemonRestarts
  <1> QED BY <1>1, <1>2, <1>3, <1>4, LineCommit, LineCreateBranch, LineSeal, LinePromoteBranch
             DEF Step

-----------------------------------------------------------------------------
(* What the workers know, and what was taken from the stream *)

\* Commits, HEAD and refusals never take back what a worker relies on.
LEMMA WorkerKept ==
    ASSUME NEW w \in Workers, WorkerOK(w), workers'[w] = workers[w],
           log' = log, lost \subseteq lost', head # "main" => head' # "main",
           \A n \in DOMAIN commits : n \in DOMAIN commits' /\ commits'[n] = commits[n]
    PROVE  WorkerOK(w)'
  BY DEF WorkerOK, At, Committed, Message, Messages

\* A step in which one worker goes on and the commits stay.
LEMMA WorkersQuiet ==
    ASSUME WorkersOK, NEW w \in Workers, Workers' = Workers, WorkerOK(w)',
           \A v \in Workers : v # w => workers'[v] = workers[v],
           UNCHANGED <<log, commits>>, lost \subseteq lost', head # "main" => head' # "main"
    PROVE  WorkersOK'
  BY WorkerKept DEF WorkersOK

\* And the consumer stays too.
LEMMA TakenQuiet ==
    ASSUME TakenKept, UNCHANGED <<log, commits, consumers>>, lost \subseteq lost'
    PROVE  TakenKept'
  BY DEF TakenKept, Taken, Committed, Messages

LEMMA KnownTake ==
    ASSUME IInv, NEW w \in Workers, NEW i \in Messages, Take(w, i)
    PROVE  WorkersOK' /\ TakenKept'
  <1> USE DEF IInv
  <1>1. UNCHANGED <<log, commits, head, lost>> /\ Messages' = Messages
    BY DEF Take, Messages
  <1>2. WorkerOK(w)'
    <2>1. workers'[w].at = "handling" /\ workers'[w].msg = i
      BY TakeStep
    <2> QED BY <1>1, <2>1 DEF WorkerOK, At
  <1>3. WorkersOK'
    BY <1>1, <1>2, TakeStep, WorkersQuiet
  <1>4. /\ consumers'[All].seen = Later(consumers[All].seen, i)
        /\ consumers'[All].owed = consumers[All].owed \cup {i}
    BY RecordTypes DEF Take, Fetch
  <1>5. i \in consumers[All].owed \/ i = consumers[All].seen + 1
    BY DeliversNext DEF Take
  <1>6. /\ consumers[All].seen \in Nat /\ i \in Nat /\ i >= 1
        /\ consumers[All].owed \subseteq 1..consumers[All].seen
    BY Consumer, LogType DEF TakenKept
  <1>7. Later(consumers[All].seen, i) \in {consumers[All].seen, i} /\
        Later(consumers[All].seen, i) >= i /\
        Later(consumers[All].seen, i) >= consumers[All].seen /\
        (i \in consumers[All].owed => Later(consumers[All].seen, i) = consumers[All].seen)
    BY <1>6 DEF Later
  <1>8. \A j \in Messages : Taken(j)' => Taken(j)
    BY <1>4, <1>5, <1>6, <1>7, LogType DEF Taken
  <1>9. \A j \in Messages : Committed(j)' <=> Committed(j)
    BY <1>1 DEF Committed
  <1>10. (\A j \in Messages : Taken(j) => Committed(j) \/ j \in lost)'
    BY <1>1, <1>8, <1>9 DEF TakenKept
  <1>11. consumers'[All].owed \subseteq 1..consumers'[All].seen
    BY <1>4, <1>6, <1>7
  <1> QED BY <1>3, <1>10, <1>11 DEF TakenKept

LEMMA KnownCommit ==
    ASSUME IInv, NEW w \in Workers, NEW from, NEW timeline, NewCommit(w, from, timeline)
    PROVE  WorkersOK' /\ TakenKept'
  <1> USE DEF IInv
  <1>1. UNCHANGED <<log, consumers, head, lost>> /\ Messages' = Messages
    BY DEF NewCommit, Messages
  <1>2. \A n \in DOMAIN commits : n \in DOMAIN commits' /\ commits'[n] = commits[n]
    BY NewCommits
  <1>3. WorkerOK(w)'
    <2>1. workers[w].msg \in Messages
      BY DEF NewCommit, WorkersOK, WorkerOK, At
    <2>2. /\ workers'[w].msg = workers[w].msg /\ workers'[w].at = "committed"
          /\ workers'[w].commit = Len(commits) + 1
      BY CommitStep
    <2>3. /\ Len(commits) + 1 \in DOMAIN commits'
          /\ commits'[Len(commits) + 1] = [parent |-> refs[head], msg |-> workers[w].msg]
      BY NewCommits
    <2>4. /\ workers'[w].commit \in DOMAIN commits'
          /\ commits'[workers'[w].commit].msg = workers'[w].msg
      BY <2>2, <2>3
    <2>5. \E n \in DOMAIN commits' : commits'[n].msg = workers'[w].msg
      BY NewCommits DEF Committed
    <2>6. /\ workers'[w].at = "committed" /\ workers'[w].msg \in Messages'
      BY <1>1, <2>1, <2>2
    <2>7. Committed(workers[w].msg)'
      BY <2>5 DEF Committed
    <2> QED BY <2>4, <2>6, <2>7 DEF WorkerOK, At
  <1>4. \A v \in Workers : v # w => WorkerOK(v)'
    BY <1>1, <1>2, CommitStep, WorkerKept DEF WorkersOK
  <1>5. WorkersOK'
    BY <1>3, <1>4, CommitStep DEF WorkersOK
  <1>6. TakenKept'
    BY <1>1, <1>2 DEF TakenKept, Taken, Committed
  <1> QED BY <1>5, <1>6

\* A handler that goes on after its commit.
LEMMA KnownTo ==
    ASSUME IInv, NEW w \in Workers, NEW at \in {"moved", "handled"}, To(w, at),
           workers[w].at \in {"committed", "sealed", "moved"},
           UNCHANGED <<log, commits, consumers, lost>>, head # "main" => head' # "main"
    PROVE  WorkersOK' /\ TakenKept'
  <1> USE DEF IInv
  <1>1. Committed(workers[w].msg) /\ workers[w].msg \in Messages
    BY DEF WorkersOK, WorkerOK, At
  <1>2. WorkerOK(w)'
    BY <1>1, ToStep DEF WorkerOK, At, Committed, Messages
  <1> QED BY <1>2, ToStep, WorkersQuiet, TakenQuiet

LEMMA KnownRefused ==
    ASSUME IInv, NEW w \in Workers, Refused(w)
    PROVE  WorkersOK' /\ TakenKept'
  <1> USE DEF IInv
  <1>1. /\ UNCHANGED <<log, commits, consumers, head>> /\ To(w, "handled")
        /\ lost' = lost \cup {workers[w].msg}
    BY DEF Refused
  <1>2. workers[w].msg \in Messages
    BY DEF Refused, WorkersOK, WorkerOK, At
  <1>3. WorkerOK(w)'
    <2>1. workers'[w].at = "handled" /\ workers'[w].msg = workers[w].msg
      BY <1>1, ToStep
    <2>2. workers'[w].msg \in Messages' /\ workers'[w].msg \in lost'
      BY <1>1, <1>2, <2>1 DEF Messages
    <2> QED BY <2>1, <2>2 DEF WorkerOK, At
  <1> QED BY <1>1, <1>3, ToStep, WorkersQuiet, TakenQuiet

LEMMA KnownSeal ==
    ASSUME IInv, NEW w \in Workers, NEW s \in Seconds, Seal(w, s)
    PROVE  WorkersOK' /\ TakenKept'
  <1> USE DEF IInv
  <1>1. /\ UNCHANGED <<log, commits, consumers, lost>>
        /\ At(w, "committed") /\ Message(w).kind = "promote"
    BY SealCases
  <1>2. head # "main" => head' # "main"
    BY SealCases, SealedName
  <1>3. CASE To(w, "handled")
    BY <1>1, <1>2, <1>3, KnownTo DEF At
  <1>4. CASE To(w, "sealed")
    <2>1. workers[w].at # "sealed" /\ "sealed" # "handled" /\ workers'[w].at = "sealed"
      BY <1>1, <1>4, ToStep DEF At
    <2>2. ~To(w, "handled")
      BY <2>1, ToStep
    <2>3. head' # "main"
      BY <2>2, SealCases, SealedName, CommitsType
    <2>4. WorkerOK(w)'
      <3>1. /\ workers[w].msg \in Messages /\ Committed(workers[w].msg)
            /\ workers[w].commit \in DOMAIN commits
            /\ commits[workers[w].commit].msg = workers[w].msg
        BY <1>1 DEF WorkersOK, WorkerOK, At
      <3> QED BY <1>1, <1>4, <2>3, <3>1, ToStep DEF WorkerOK, At, Committed, Messages, Message
    <2> QED BY <1>1, <1>2, <1>4, <2>4, ToStep, WorkersQuiet, TakenQuiet
  <1> QED BY <1>3, <1>4, SealCases

LEMMA KnownAck ==
    ASSUME IInv, NEW w \in Workers, Ack(w)
    PROVE  WorkersOK' /\ TakenKept'
  <1> USE DEF IInv
  <1>1. /\ UNCHANGED <<log, commits, head, lost>> /\ Messages' = Messages
        /\ workers'[w] = Idle
    BY AckStep DEF Ack, Messages
  <1>2. WorkerOK(w)'
    BY <1>1 DEF WorkerOK, At, Idle
  <1>3. WorkersOK'
    BY <1>1, <1>2, AckStep, WorkersQuiet
  <1>4. CASE UNCHANGED consumers
    BY <1>1, <1>3, <1>4, TakenQuiet
  <1>5. CASE Acknowledge(All, workers[w].msg)
    <2>1. /\ consumers'[All].seen = consumers[All].seen
          /\ consumers'[All].owed = consumers[All].owed \ {workers[w].msg}
      BY <1>5, RecordTypes DEF Acknowledge, ConsumerRecord
    <2>2. Committed(workers[w].msg) \/ workers[w].msg \in lost
      BY DEF Ack, WorkersOK, WorkerOK
    <2>3. ASSUME NEW j \in Messages, Taken(j)'
          PROVE  (Committed(j) \/ j \in lost)'
      <3>1. Taken(j) \/ j = workers[w].msg
        BY <2>1, <2>3 DEF Taken
      <3>2. Committed(j) \/ j \in lost
        BY <2>2, <3>1 DEF TakenKept
      <3> QED BY <1>1, <3>2 DEF Committed
    <2>4. (\A j \in Messages : Taken(j) => Committed(j) \/ j \in lost)'
      BY <1>1, <2>3
    <2>5. consumers'[All].owed \subseteq 1..consumers'[All].seen
      BY <2>1 DEF TakenKept
    <2> QED BY <1>3, <2>4, <2>5 DEF TakenKept
  <1> QED BY <1>4, <1>5 DEF Ack

LEMMA KnownRestart ==
    ASSUME IInv, DaemonRestarts
    PROVE  WorkersOK' /\ TakenKept'
  <1> USE DEF IInv
  <1>1. /\ UNCHANGED <<log, commits, head, lost>> /\ Messages' = Messages
        /\ Workers' = Workers /\ \A w \in Workers : workers'[w] = Idle
    BY RestartStep DEF DaemonRestarts, Messages
  <1>2. WorkersOK'
    BY <1>1 DEF WorkersOK, WorkerOK, At, Idle
  <1>3. CASE UNCHANGED consumers
    BY <1>1, <1>2, <1>3, TakenQuiet
  <1>4. CASE Expire(All)
    <2>1. consumers'[All] = Unmade
      BY <1>4, RecordTypes DEF Expire
    <2>2. \A j \in Messages : ~Taken(j)'
      BY <2>1, LogType DEF Taken, Unmade
    <2> QED BY <1>1, <1>2, <2>1, <2>2 DEF TakenKept, Unmade
  <1> QED BY <1>3, <1>4 DEF DaemonRestarts

LEMMA KnownStep ==
    ASSUME IInv, Step
    PROVE  WorkersOK' /\ TakenKept'
  <1>1. ASSUME NEW w \in Workers, CreateBranch(w)
        PROVE  WorkersOK' /\ TakenKept'
    BY <1>1, KnownTo DEF CreateBranch, At
  <1>2. ASSUME NEW w \in Workers, PromoteBranch(w)
        PROVE  WorkersOK' /\ TakenKept'
    BY <1>2, KnownTo DEF PromoteBranch, At
  <1>3. ASSUME NEW w \in Workers, Checkout(w)
        PROVE  WorkersOK' /\ TakenKept'
    BY <1>3, KnownTo DEF Checkout, At
  <1> QED BY <1>1, <1>2, <1>3, KnownTake, KnownCommit, KnownRefused, KnownSeal, KnownAck,
             KnownRestart DEF Step

-----------------------------------------------------------------------------
(* A single worker *)

LEMMA Single ==
    ASSUME TypeOK, Cardinality(Workers) = 1
    PROVE  \E w \in Workers : Workers = {w}
  <1>1. IsFiniteSet(Workers)
    BY WorkersMap, GitProjectionConstants
  <1> QED BY <1>1, FS_Singleton

\* What Alone says of the one worker there is.
AloneWith(w) ==
    /\ lost = {}
    /\ At(w, "handling") => workers[w].base = Len(commits)
    /\ faults = 0 => (\A n \in DOMAIN commits : commits[n].msg = n - 1) /\ Steady(w)

LEMMA AloneOf ==
    ASSUME TypeOK, Alone, Cardinality(Workers) = 1, NEW w \in Workers
    PROVE  AloneWith(w)
  BY DEF Alone, AloneWith

LEMMA ToAlone ==
    ASSUME NEW w \in Workers, Workers' = Workers, Cardinality(Workers) = 1 => AloneWith(w)',
           TypeOK
    PROVE  Alone'
  <1> SUFFICES ASSUME Cardinality(Workers) = 1
               PROVE  /\ lost' = {}
                      /\ \A v \in Workers : /\ At(v, "handling")' => workers'[v].base = Len(commits')
                                            /\ faults' = 0 => Steady(v)'
                      /\ faults' = 0 => \A n \in DOMAIN commits' : commits'[n].msg = n - 1
    BY DEF Alone
  <1>1. Workers = {w}
    BY Single
  <1> QED BY <1>1 DEF AloneWith

\* The worker goes on between its commit and its acknowledgement.
LEMMA AloneQuiet ==
    ASSUME TypeOK, NEW w \in Workers, AloneWith(w), NEW at \in {"sealed", "moved", "handled"},
           To(w, at), ~At(w, "idle"), ~At(w, "handling"),
           UNCHANGED <<log, consumers, commits, lost, faults>>
    PROVE  AloneWith(w)'
  <1>1. workers'[w].at = at /\ workers'[w].msg = workers[w].msg
    BY ToStep
  <1> QED BY <1>1 DEF AloneWith, Steady, At

LEMMA AloneTake ==
    ASSUME IInv, Cardinality(Workers) = 1,
           NEW w \in Workers, NEW i \in Messages, Take(w, i)
    PROVE  AloneWith(w)'
  <1> USE DEF IInv
  <1>1. /\ UNCHANGED <<log, commits, lost, faults>> /\ At(w, "idle")
        /\ workers'[w].at = "handling" /\ workers'[w].msg = i /\ workers'[w].base = Len(commits)
    BY TakeStep DEF Take, OneLine
  <1>2. AloneWith(w)
    BY AloneOf
  <1>3. CASE faults = 0
    <2>1. consumers[All].owed = {} /\ consumers[All].seen = Len(commits) - 1
      BY <1>1, <1>2, <1>3 DEF AloneWith, Steady
    <2>2. i = Len(commits)
      BY <2>1, DeliversNext, CommitsType DEF Take
    <2>3. Later(consumers[All].seen, i) = i
      BY <2>1, <2>2, CommitsType DEF Later
    <2>4. consumers'[All].owed = {i} /\ consumers'[All].seen = i
      BY <2>1, <2>3, RecordTypes DEF Take, Fetch
    <2> QED BY <1>1, <1>2, <2>2, <2>4 DEF AloneWith, Steady, At
  <1>4. CASE faults # 0
    BY <1>1, <1>2, <1>4 DEF AloneWith, At
  <1> QED BY <1>3, <1>4

LEMMA AloneCommit ==
    ASSUME IInv, Cardinality(Workers) = 1,
           NEW w \in Workers, NEW from, NEW timeline, NewCommit(w, from, timeline)
    PROVE  AloneWith(w)'
  <1> USE DEF IInv
  <1>1. /\ UNCHANGED <<log, consumers, lost, faults>> /\ At(w, "handling")
        /\ workers'[w].at = "committed" /\ workers'[w].msg = workers[w].msg
    BY CommitStep DEF NewCommit
  <1>2. AloneWith(w)
    BY AloneOf
  <1>3. CASE faults = 0
    <2>1. /\ workers[w].msg = Len(commits) /\ Steady(w)
          /\ \A n \in DOMAIN commits : commits[n].msg = n - 1
      BY <1>1, <1>2, <1>3 DEF AloneWith, Steady
    <2>2. /\ DOMAIN commits' = DOMAIN commits \cup {Len(commits) + 1}
          /\ Len(commits') = Len(commits) + 1
          /\ \A n \in DOMAIN commits : commits'[n] = commits[n]
          /\ commits'[Len(commits) + 1] = [parent |-> refs[head], msg |-> workers[w].msg]
          /\ Len(commits) \in Nat
      BY NewCommits, CommitsType
    <2>3. commits'[Len(commits) + 1].msg = Len(commits)
      BY <2>1, <2>2
    <2>4. \A n \in DOMAIN commits' : commits'[n].msg = n - 1
      BY <2>1, <2>2, <2>3
    <2>5. Steady(w)'
      BY <1>1, <2>1, <2>2 DEF Steady, At
    <2> QED BY <1>1, <1>2, <2>4, <2>5 DEF AloneWith, At
  <1>4. CASE faults # 0
    BY <1>1, <1>2, <1>4 DEF AloneWith, At
  <1> QED BY <1>3, <1>4

LEMMA AloneAck ==
    ASSUME IInv, Cardinality(Workers) = 1, NEW w \in Workers, Ack(w)
    PROVE  AloneWith(w)'
  <1> USE DEF IInv
  <1>1. /\ UNCHANGED <<log, commits, lost>> /\ At(w, "handled")
        /\ workers'[w].at = "idle"
    <2>1. workers'[w] = Idle
      BY AckStep
    <2>2. Idle.at = "idle"
      BY DEF Idle
    <2> QED BY <2>1, <2>2 DEF Ack
  <1>2. AloneWith(w)
    BY AloneOf
  <1>3. CASE Fault
    <2>1. faults' # 0
      BY <1>3, RecordTypes, GitProjectionConstants DEF Fault
    <2> QED BY <1>1, <1>2, <2>1 DEF AloneWith, At
  <1>4. CASE Acknowledge(All, workers[w].msg) /\ UNCHANGED faults
    <2>1. /\ consumers'[All].seen = consumers[All].seen
          /\ consumers'[All].owed = consumers[All].owed \ {workers[w].msg}
      BY <1>4, RecordTypes DEF Acknowledge, ConsumerRecord
    <2>2. CASE faults = 0
      <3>1. /\ consumers[All].owed = {workers[w].msg}
            /\ consumers[All].seen = Len(commits) - 1
        BY <1>1, <1>2, <2>2 DEF AloneWith, Steady, At
      <3> QED BY <1>1, <1>2, <1>4, <2>1, <3>1 DEF AloneWith, Steady, At
    <2>3. CASE faults # 0
      BY <1>1, <1>2, <1>4, <2>3 DEF AloneWith, At
    <2> QED BY <2>2, <2>3
  <1> QED BY <1>3, <1>4 DEF Ack

LEMMA AloneRestart ==
    ASSUME IInv, Cardinality(Workers) = 1, NEW w \in Workers, DaemonRestarts
    PROVE  AloneWith(w)'
  <1> USE DEF IInv
  <1>1. /\ UNCHANGED lost /\ workers'[w] = Idle /\ workers'[w].at = "idle"
    <2>1. Idle.at = "idle"
      BY DEF Idle
    <2> QED BY <2>1, RestartStep DEF DaemonRestarts
  <1>2. faults' # 0
    BY RecordTypes, GitProjectionConstants DEF DaemonRestarts, Fault
  <1>3. AloneWith(w)
    BY AloneOf
  <1> QED BY <1>1, <1>2, <1>3 DEF AloneWith, At

LEMMA AloneStep ==
    ASSUME IInv, Step
    PROVE  Alone'
  <1> USE DEF IInv
  <1>1. Workers' = Workers
    BY TakeStep, CommitStep, ToStep, AckStep, RestartStep, SealCases
       DEF Step, Refused, CreateBranch, PromoteBranch, Checkout
  <1>2. SUFFICES ASSUME Cardinality(Workers) = 1
                 PROVE  Alone'
    BY <1>1 DEF Alone
  <1>3. PICK w \in Workers : Workers = {w}
    BY <1>2, Single
  <1>4. AloneWith(w)
    BY <1>2, AloneOf
  <1>5. SUFFICES AloneWith(w)'
    BY <1>1, ToAlone
  <1>6. ASSUME NEW at \in {"sealed", "moved", "handled"}, To(w, at),
               workers[w].at \in {"committed", "sealed", "moved"},
               UNCHANGED <<log, consumers, commits, lost, faults>>
        PROVE  AloneWith(w)'
    BY <1>4, <1>6, AloneQuiet DEF At
  <1>7. CASE \E i \in Messages : Take(w, i)
    BY <1>2, <1>7, AloneTake
  <1>8. CASE \E timeline : \E from \in Froms : NewCommit(w, from, timeline)
    BY <1>2, <1>8, AloneCommit
  <1>9. CASE Refused(w)
    BY <1>4, <1>9 DEF Refused, AloneWith, OneLine
  <1>10. CASE CreateBranch(w)
    BY <1>6, <1>10 DEF CreateBranch, At
  <1>11. CASE \E s \in Seconds : Seal(w, s)
    BY <1>6, <1>11, SealCases DEF At
  <1>12. CASE PromoteBranch(w)
    BY <1>6, <1>12 DEF PromoteBranch, At
  <1>13. CASE Checkout(w)
    BY <1>6, <1>13 DEF Checkout, At
  <1>14. CASE Ack(w)
    BY <1>2, <1>14, AloneAck
  <1>15. CASE DaemonRestarts
    BY <1>2, <1>15, AloneRestart
  <1> QED BY <1>3, <1>7, <1>8, <1>9, <1>10, <1>11, <1>12, <1>13, <1>14, <1>15 DEF Step

-----------------------------------------------------------------------------
(* The tree grows by one directory *)

\* Commit n of message i, whose directory d is the next after the c that place has.
Grows(from, timeline, i, place, d, c, n) ==
    /\ i \in Messages /\ from \in Froms /\ place = Place(log[i])
    /\ c = Cardinality(Counted(place)) /\ c \in 0..Limit
    /\ d = Made(i, from) /\ d.place = place /\ d.number = c + 1
    /\ d.hash = Append(CanonicalHash(place), i)
    /\ Name(d) = <<c + 1, from, log[i].kind>>
    /\ tree'.dirs = {e \in tree.dirs : e.place # place \/ Name(e) # Name(d)} \cup {d}
    /\ tree'.index =
           With(tree.index, <<place, timeline>>, Append(Lines(<<place, timeline>>), Name(d)))
    /\ tree'.active = With(tree.active, place, timeline)
    /\ n = Len(commits) + 1 /\ n \in Nat /\ n \notin DOMAIN commits
    /\ DOMAIN commits' = DOMAIN commits \cup {n}
    /\ \A m \in DOMAIN commits : commits'[m] = commits[m] /\ m \in Nat /\ m < n
    /\ commits'[n].msg = i
    /\ log' = log

LEMMA CommitGrows ==
    ASSUME IInv, NEW w \in Workers, NEW from, NEW timeline, NewCommit(w, from, timeline)
    PROVE  \E i, place, d, c, n : Grows(from, timeline, i, place, d, c, n)
  <1> USE DEF IInv
  <1> DEFINE i == workers[w].msg
             place == Place(log[i])
             d == Made(i, from)
             c == Cardinality(Counted(place))
             n == Len(commits) + 1
  <1>1. i \in Messages /\ from \in Froms /\ log' = log
    BY DEF NewCommit, WorkersOK, WorkerOK, At
  <1>2. c \in 0..Limit
    BY CountedBound
  <1>3. /\ d.place = place /\ d.number = c + 1
        /\ d.hash = Append(CanonicalHash(place), i)
        /\ Name(d) = <<c + 1, from, log[i].kind>>
    BY DEF Made, Name
  <1>4. /\ tree'.dirs = {e \in tree.dirs : e.place # place \/ Name(e) # Name(d)} \cup {d}
        /\ tree'.index =
               With(tree.index, <<place, timeline>>, Append(Lines(<<place, timeline>>), Name(d)))
        /\ tree'.active = With(tree.active, place, timeline)
    BY NewTree DEF Others
  <1>5. /\ DOMAIN commits = 1..Len(commits) /\ Len(commits) \in Nat
        /\ DOMAIN commits' = DOMAIN commits \cup {n}
        /\ \A m \in DOMAIN commits : commits'[m] = commits[m]
        /\ commits'[n] = [parent |-> refs[head], msg |-> workers[w].msg]
    BY NewCommits, CommitsType
  <1>6. commits'[n].msg = i /\ n \in Nat /\ n \notin DOMAIN commits
    BY <1>5
  <1>7. Grows(from, timeline, i, place, d, c, n)
    <2> HIDE DEF i, place, d, c, n
    <2>1. place = Place(log[i]) /\ c = Cardinality(Counted(place)) /\ d = Made(i, from)
          /\ n = Len(commits) + 1
      BY DEF i, place, d, c, n
    <2> QED BY <1>1, <1>2, <1>3, <1>4, <1>5, <1>6, <2>1 DEF Grows
  <1> QED BY <1>7

\* Other places keep what they have.
LEMMA OtherPlaces ==
    ASSUME NEW from, NEW timeline, NEW i, NEW place, NEW d, NEW c, NEW n,
           Grows(from, timeline, i, place, d, c, n), NEW other, other # place
    PROVE  /\ Entries(other)' = Entries(other) /\ Counted(other)' = Counted(other)
           /\ Files(other)' = Files(other)
           /\ \A f \in Files(other) : tree'.index[f] = tree.index[f]
           /\ other \in DOMAIN tree.active =>
                  other \in DOMAIN tree'.active /\ tree'.active[other] = tree.active[other]
  <1>1. Entries(other)' = Entries(other) /\ Counted(other)' = Counted(other)
    BY DEF Grows, Entries, Counted
  <1>2. <<place, timeline>> \notin Files(other)
    BY DEF Files
  <1>3. Files(other)' = Files(other) /\ \A f \in Files(other) : tree'.index[f] = tree.index[f]
    BY <1>2 DEF Grows, Files, With
  <1> QED BY <1>1, <1>3 DEF Grows, With

\* The commits of a place are finitely many, and the new one is the last of its own.
LEMMA CommitsFinite ==
    ASSUME TypeOK, NEW place
    PROVE  IsFiniteSet(Commits(place)) /\ Cardinality(Commits(place)) \in Nat
  <1>1. IsFiniteSet(DOMAIN commits)
    BY CommitsType, FS_Interval
  <1> QED BY <1>1, FS_Subset, FS_CardinalityType DEF Commits

LEMMA CommitsGrow ==
    ASSUME log \in Streams, TypeOK,
           NEW from, NEW timeline, NEW i, NEW place, NEW d, NEW c, NEW n,
           Grows(from, timeline, i, place, d, c, n)
    PROVE  /\ Commits(place)' = Commits(place) \cup {n} /\ n \notin Commits(place)
           /\ \A other : other # place => Commits(other)' = Commits(other)
           /\ \A p : \A m \in Commits(p) : m \in Nat /\ m < n
  <1>1. i # 0 /\ place = Place(log[i])
    BY LogType DEF Grows
  <1>2. /\ DOMAIN commits' = DOMAIN commits \cup {n} /\ n \notin DOMAIN commits
        /\ \A m \in DOMAIN commits : commits'[m] = commits[m] /\ m \in Nat /\ m < n
        /\ commits'[n].msg = i /\ log' = log
    BY DEF Grows
  <1>3. \A p : Commits(p)' = {m \in DOMAIN commits' :
                                 commits'[m].msg # 0 /\ Place(log[commits'[m].msg]) = p}
    BY <1>2 DEF Commits, Place
  <1> QED BY <1>1, <1>2, <1>3 DEF Commits

LEMMA RanksGrow ==
    ASSUME log \in Streams, TypeOK,
           NEW from, NEW timeline, NEW i, NEW place, NEW d, NEW c, NEW n,
           Grows(from, timeline, i, place, d, c, n),
           NEW size, size = Cardinality(Commits(place))
    PROVE  /\ Cardinality(Commits(place)') = size + 1
           /\ \A p : \A m \in Commits(p) : Rank(p, m)' = Rank(p, m)
           /\ \A p, j, x : Nth(p, j, x) => Nth(p, j, x)'
           /\ Nth(place, size + 1, i)'
  <1>1. /\ Commits(place)' = Commits(place) \cup {n} /\ n \notin Commits(place)
        /\ \A other : other # place => Commits(other)' = Commits(other)
        /\ \A p : \A m \in Commits(p) : m \in Nat /\ m < n
    BY CommitsGrow
  <1>2. Cardinality(Commits(place)') = size + 1
    BY <1>1, CommitsFinite, FS_AddElement
  <1>3. n \in Nat /\ commits'[n].msg = i
        /\ \A m \in DOMAIN commits : commits'[m] = commits[m] /\ m \in DOMAIN commits'
    BY DEF Grows
  <1>4. ASSUME NEW p, NEW m \in Commits(p)
        PROVE  /\ Rank(p, m)' = Rank(p, m) /\ m \in Commits(p)'
    <2>1. {k \in Commits(p)' : k <= m} = {k \in Commits(p) : k <= m}
      BY <1>1, <1>3
    <2> QED BY <1>1, <2>1 DEF Rank
  <1>5. ASSUME NEW p, NEW j, NEW x, Nth(p, j, x)
        PROVE  Nth(p, j, x)'
    <2>1. PICK m \in Commits(p) : Rank(p, m) = j /\ commits[m].msg = x
      BY <1>5 DEF Nth
    <2>2. m \in DOMAIN commits
      BY DEF Commits
    <2>3. m \in Commits(p)' /\ Rank(p, m)' = j /\ commits'[m].msg = x
      BY <1>3, <1>4, <2>1, <2>2
    <2> QED BY <2>3 DEF Nth
  <1>6. Nth(place, size + 1, i)'
    <2>1. {k \in Commits(place)' : k <= n} = Commits(place)'
      BY <1>1, <1>3
    <2>2. Rank(place, n)' = size + 1
      BY <1>2, <2>1 DEF Rank
    <2>3. \E k \in Commits(place)' : /\ Rank(place, k)' = size + 1
                                     /\ commits'[k].msg = i
      BY <1>1, <1>3, <2>2
    <2> QED BY <2>3 DEF Nth
  <1> QED BY <1>2, <1>4, <1>5, <1>6

\* Below the limit nothing is replaced; at it, what counts stays.
LEMMA CountedGrows ==
    ASSUME NumbersOK, NEW from, NEW timeline, NEW i, NEW place, NEW d, NEW c, NEW n,
           Grows(from, timeline, i, place, d, c, n)
    PROVE  /\ c < Limit => /\ Entries(place)' = Entries(place) \cup {d}
                           /\ Counted(place)' = Counted(place) \cup {d}
           /\ c = Limit => Counted(place)' = Counted(place)
           /\ \A e \in Counted(place) : e.number \in 1..c
           /\ d \notin Counted(place)
  <1> USE GitProjectionConstants
  <1>1. /\ d.place = place /\ d.number = c + 1 /\ c \in 0..Limit
        /\ tree'.dirs = {e \in tree.dirs : e.place # place \/ Name(e) # Name(d)} \cup {d}
    BY DEF Grows
  <1>2. \A e : Name(e) = Name(d) => e.number = c + 1
    BY <1>1 DEF Name
  <1>3. \A e \in Counted(place) : e.number \in 1..c
    <2>1. {e.number : e \in Counted(place)} = 1..Cardinality(Counted(place))
      BY DEF NumbersOK
    <2>2. c = Cardinality(Counted(place))
      BY DEF Grows
    <2> QED BY <2>1, <2>2
  <1>4. \A e \in Counted(place) : Name(e) # Name(d) /\ e # d
    BY <1>1, <1>2, <1>3
  <1>5. ASSUME c < Limit
        PROVE  /\ Entries(place)' = Entries(place) \cup {d}
               /\ Counted(place)' = Counted(place) \cup {d}
    <2>1. \A e \in tree.dirs : e.place = place => Name(e) # Name(d)
      <3> SUFFICES ASSUME NEW e \in tree.dirs, e.place = place, Name(e) = Name(d)
                   PROVE  FALSE
        OBVIOUS
      <3>1. e.number = c + 1 /\ c + 1 <= Limit
        BY <1>1, <1>2, <1>5
      <3>2. e \in Counted(place)
        BY <3>1 DEF Counted
      <3> QED BY <1>4, <3>2
    <2>2. tree'.dirs = tree.dirs \cup {d}
      BY <1>1, <2>1
    <2>3. d.number <= Limit
      BY <1>1, <1>5
    <2> QED BY <1>1, <2>2, <2>3 DEF Entries, Counted
  <1>6. ASSUME c = Limit
        PROVE  Counted(place)' = Counted(place)
    <2>1. ~(d.number <= Limit)
      BY <1>1, <1>6
    <2>2. \A e \in tree.dirs : e.place = place /\ e.number <= Limit => Name(e) # Name(d)
      BY <1>4 DEF Counted
    <2> QED BY <1>1, <2>1, <2>2 DEF Counted
  <1> QED BY <1>3, <1>4, <1>5, <1>6

LEMMA NumbersCommit ==
    ASSUME NumbersOK, NEW from, NEW timeline, NEW i, NEW place, NEW d, NEW c, NEW n,
           Grows(from, timeline, i, place, d, c, n)
    PROVE  NumbersOK'
  <1> USE GitProjectionConstants
  <1>1. IsFiniteSet(tree'.dirs)
    <2> DEFINE kept == {e \in tree.dirs : e.place # place \/ Name(e) # Name(d)}
    <2>1. IsFiniteSet(kept)
      BY FS_Subset DEF NumbersOK
    <2>2. tree'.dirs = kept \cup {d}
      BY DEF Grows
    <2> HIDE DEF kept
    <2> QED BY <2>1, <2>2, FS_AddElement
  <1>2. ASSUME NEW other
        PROVE  /\ {e.number : e \in Counted(other)'} = 1..Cardinality(Counted(other)')
               /\ \A e, f \in Counted(other)' : e.number = f.number => e = f
    <2>1. /\ {e.number : e \in Counted(other)} = 1..Cardinality(Counted(other))
          /\ \A e, f \in Counted(other) : e.number = f.number => e = f
      BY DEF NumbersOK
    <2>2. CASE other # place
      BY <2>1, <2>2, OtherPlaces
    <2>3. CASE other = place /\ c = Limit
      BY <2>1, <2>3, CountedGrows
    <2>4. CASE other = place /\ c < Limit
      <3>1. /\ Counted(other)' = Counted(other) \cup {d} /\ d \notin Counted(other)
            /\ \A e \in Counted(other) : e.number \in 1..c
        BY <2>4, CountedGrows
      <3>2. c = Cardinality(Counted(other)) /\ d.number = c + 1 /\ c \in Nat
        BY <2>4 DEF Grows
      <3>3. Cardinality(Counted(other)') = c + 1
        BY <3>1, <3>2, CountedBound, FS_AddElement
      <3>4. {e.number : e \in Counted(other)'} = (1..c) \cup {c + 1}
        BY <2>1, <3>1, <3>2
      <3>5. (1..c) \cup {c + 1} = 1..(c + 1)
        BY <3>2
      <3>6. \A e, f \in Counted(other)' : e.number = f.number => e = f
        BY <2>1, <3>1, <3>2
      <3> QED BY <3>3, <3>4, <3>5, <3>6
    <2>5. c = Limit \/ c < Limit
      BY DEF Grows
    <2> QED BY <2>2, <2>3, <2>4, <2>5
  <1> QED BY <1>1, <1>2 DEF NumbersOK

\* The canonical hash that is read back is that of the last commit of the place.
LEMMA Canonical ==
    ASSUME NumbersOK, HashesOK, NEW place, Small(place), NEW c, c = Cardinality(Counted(place))
    PROVE  /\ CanonicalHash(place) \in Seq(Messages) /\ Len(CanonicalHash(place)) = c
           /\ \A j \in 1..c : Nth(place, j, CanonicalHash(place)[j])
  <1>1. /\ {d.number : d \in Counted(place)} = 1..c
        /\ c \in Nat /\ IsFiniteSet(Counted(place))
    <2>1. {d.number : d \in Counted(place)} = 1..Cardinality(Counted(place))
      BY DEF NumbersOK
    <2>2. IsFiniteSet(Counted(place)) /\ c \in 0..Limit
      BY CountedBound
    <2> QED BY <2>1, <2>2, GitProjectionConstants
  <1>2. CASE Counted(place) = {}
    <2>1. c = 0 /\ CanonicalHash(place) = <<>>
      BY <1>2, FS_EmptySet DEF CanonicalHash
    <2> QED BY <2>1
  <1>3. CASE Counted(place) # {}
    <2> DEFINE Latest(d) == \A e \in Counted(place) : e.number <= d.number
               last == CHOOSE d \in Counted(place) : Latest(d)
    <2>1. c \in 1..c
      BY <1>1, <1>3, FS_EmptySet
    <2>2. PICK d \in Counted(place) : d.number = c
      BY <1>1, <2>1
    <2>3. Latest(d)
      BY <1>1, <2>2
    <2>4. last \in Counted(place) /\ Latest(last)
      BY <2>3
    <2>5. last.number = c
      <3>1. last.number \in 1..c
        BY <1>1, <2>4
      <3>2. c <= last.number
        BY <2>2, <2>4
      <3> QED BY <1>1, <3>1, <3>2
    <2>6. CanonicalHash(place) = last.hash
      BY <1>3 DEF CanonicalHash
    <2>7. last \in Entries(place)
      BY <2>4 DEF HashesOK
    <2> HIDE DEF last
    <2> QED BY <2>5, <2>6, <2>7 DEF HashesOK
  <1> QED BY <1>2, <1>3

LEMMA HashesCommit ==
    ASSUME log \in Streams, TypeOK, NumbersOK, HashesOK,
           NEW from, NEW timeline, NEW i, NEW place, NEW d, NEW c, NEW n,
           Grows(from, timeline, i, place, d, c, n)
    PROVE  HashesOK'
  <1> USE GitProjectionConstants
  <1> DEFINE HashOK(p) == /\ Entries(p) = Counted(p)
                          /\ Cardinality(Counted(p)) = Cardinality(Commits(p))
                          /\ \A e \in Entries(p) :
                                 /\ e.hash \in Seq(Messages) /\ Len(e.hash) = e.number
                                 /\ \A j \in 1..e.number : Nth(p, j, e.hash[j])
  <1>1. Messages' = Messages /\ \A p, j, x : Nth(p, j, x) => Nth(p, j, x)'
    <2>1. PICK size : size = Cardinality(Commits(place))
      OBVIOUS
    <2>2. \A p, j, x : Nth(p, j, x) => Nth(p, j, x)'
      BY <2>1, RanksGrow
    <2> QED BY <2>2 DEF Grows, Messages
  <1>2. ASSUME NEW other, other # place, Small(other)'
        PROVE  HashOK(other)'
    <2>1. Commits(other)' = Commits(other)
      BY <1>2, CommitsGrow
    <2>2. HashOK(other)
      BY <1>2, <2>1 DEF Small, HashesOK
    <2>3. Entries(other)' = Entries(other) /\ Counted(other)' = Counted(other)
      BY <1>2, OtherPlaces
    <2> QED BY <1>1, <2>1, <2>2, <2>3
  <1>3. ASSUME Small(place)'
        PROVE  HashOK(place)'
    <2>1. PICK size : size = Cardinality(Commits(place))
      OBVIOUS
    <2>2. Cardinality(Commits(place)') = size + 1 /\ Nth(place, size + 1, i)' /\ size \in Nat
      BY <2>1, RanksGrow, CommitsFinite
    <2>3. size + 1 <= Limit
      BY <1>3, <2>2 DEF Small
    <2>4. Small(place) /\ HashOK(place)
      BY <2>1, <2>2, <2>3 DEF Small, HashesOK
    <2>5. c = size /\ c < Limit
      BY <2>1, <2>2, <2>3, <2>4 DEF Grows
    <2>6. /\ Entries(place)' = Entries(place) \cup {d}
          /\ Counted(place)' = Counted(place) \cup {d} /\ d \notin Counted(place)
      BY <2>5, CountedGrows
    <2>7. Cardinality(Counted(place)') = c + 1
      <3>1. c = Cardinality(Counted(place))
        BY DEF Grows
      <3> QED BY <2>6, <3>1, CountedBound, FS_AddElement
    <2>8. /\ d.hash \in Seq(Messages) /\ Len(d.hash) = c + 1 /\ d.number = c + 1
          /\ \A j \in 1..c : Nth(place, j, d.hash[j])
          /\ d.hash[c + 1] = i
      <3>1. /\ CanonicalHash(place) \in Seq(Messages) /\ Len(CanonicalHash(place)) = c
            /\ \A j \in 1..c : Nth(place, j, CanonicalHash(place)[j])
        BY <2>4, Canonical DEF Grows
      <3>2. d.hash = Append(CanonicalHash(place), i) /\ i \in Messages /\ d.number = c + 1
        BY DEF Grows
      <3> QED BY <3>1, <3>2, SeqAppend, SeqElement
    <2>9. \A j \in 1..d.number : Nth(place, j, d.hash[j])'
      <3>1. \A j \in 1..c : Nth(place, j, d.hash[j])'
        BY <1>1, <2>8
      <3>2. Nth(place, c + 1, d.hash[c + 1])'
        BY <2>2, <2>5, <2>8
      <3>3. c \in Nat
        BY GitProjectionConstants DEF Grows
      <3>4. \A j \in 1..d.number : j \in 1..c \/ j = c + 1
        BY <2>8, <3>3
      <3> QED BY <3>1, <3>2, <3>4
    <2> QED BY <1>1, <2>2, <2>4, <2>5, <2>6, <2>7, <2>8, <2>9
  <1> QED BY <1>2, <1>3 DEF HashesOK

-----------------------------------------------------------------------------
(* The index files *)

LEMMA LinesType ==
    ASSUME IndexTyped, NEW f
    PROVE  Lines(f) \in Seq(Line)
  <1>1. <<>> \in Seq(Line)
    OBVIOUS
  <1> QED BY <1>1 DEF Lines, IndexTyped

\* The file of a place and timeline gets one line more; the others stay.
LEMMA IndexGrows ==
    ASSUME log \in Streams, IndexTyped,
           NEW from, NEW timeline, NEW i, NEW place, NEW d, NEW c, NEW n,
           Grows(from, timeline, i, place, d, c, n), NEW file, file = <<place, timeline>>
    PROVE  /\ DOMAIN tree'.index = DOMAIN tree.index \cup {file}
           /\ \A f \in DOMAIN tree.index : f # file => tree'.index[f] = tree.index[f]
           /\ tree'.index[file] = Append(Lines(file), Name(d))
           /\ Name(d) \in Line /\ Name(d)[1] = c + 1
           /\ Files(place)' = Files(place) \cup {file}
           /\ tree'.active[place] = timeline /\ place \in DOMAIN tree'.active
  <1>1. tree'.index = With(tree.index, file, Append(Lines(file), Name(d)))
    BY DEF Grows
  <1>2. Name(d) \in Line /\ Name(d)[1] = c + 1
    <2>1. Name(d) = <<c + 1, from, log[i].kind>> /\ c + 1 \in 1..(Limit + 1)
      BY GitProjectionConstants DEF Grows
    <2>2. from \in Froms /\ log[i].kind \in Kinds
      BY LogType DEF Grows
    <2> QED BY <2>1, <2>2 DEF Line
  <1>3. Files(place)' = Files(place) \cup {file}
    BY <1>1 DEF Files, With
  <1> QED BY <1>1, <1>2, <1>3 DEF With, Grows

LEMMA IndexTypedCommit ==
    ASSUME log \in Streams, IndexTyped,
           NEW from, NEW timeline, NEW i, NEW place, NEW d, NEW c, NEW n,
           Grows(from, timeline, i, place, d, c, n)
    PROVE  IndexTyped'
  <1>1. PICK file : file = <<place, timeline>>
    OBVIOUS
  <1>2. /\ DOMAIN tree'.index = DOMAIN tree.index \cup {file}
        /\ \A f \in DOMAIN tree.index : f # file => tree'.index[f] = tree.index[f]
        /\ tree'.index[file] = Append(Lines(file), Name(d)) /\ Name(d) \in Line
    BY <1>1, IndexGrows
  <1>3. Line' = Line
    BY DEF Line, Froms, Messages, Grows
  <1>4. Append(Lines(file), Name(d)) \in Seq(Line)
    BY <1>2, LinesType, SeqAppend
  <1> QED BY <1>2, <1>3, <1>4 DEF IndexTyped

\* What IndexOK says of a place.
LinesAre(p) == UNION {ToSet(tree.index[f]) : f \in Files(p)} = {Name(e) : e \in Entries(p)}
InOrder(p) ==
    \A f, g \in Files(p) :
        \A j \in DOMAIN tree.index[f], k \in DOMAIN tree.index[g] :
            /\ f = g /\ j < k => tree.index[f][j][1] < tree.index[g][k][1]
            /\ tree.index[f][j] = tree.index[g][k] => f = g
ActiveIs(p, size) ==
    Files(p) # {} =>
        LET f == <<p, tree.active[p]>> IN
        /\ p \in DOMAIN tree.active
        /\ f \in DOMAIN tree.index /\ tree.index[f] # <<>>
        /\ Last(tree.index[f])[1] = size

LEMMA IndexParts ==
    IndexOK <=> \A p : Small(p) =>
                    LinesAre(p) /\ InOrder(p) /\ ActiveIs(p, Cardinality(Commits(p)))
  BY DEF IndexOK, LinesAre, InOrder, ActiveIs

\* A line of the new index files is an old one, or the new name at the end of its file.
LEMMA NewLines ==
    ASSUME log \in Streams, IndexTyped,
           NEW from, NEW timeline, NEW i, NEW place, NEW d, NEW c, NEW n,
           Grows(from, timeline, i, place, d, c, n),
           NEW file, file = <<place, timeline>>, NEW end, end = Len(Lines(file)) + 1
    PROVE  /\ \A f \in Files(place)' : \A j \in DOMAIN tree'.index[f] :
                  \/ /\ f \in Files(place) /\ j \in DOMAIN tree.index[f] /\ j \in Nat
                     /\ tree'.index[f][j] = tree.index[f][j] /\ (f = file => j < end)
                  \/ f = file /\ j = end /\ tree'.index[f][j] = Name(d)
           /\ \A f \in Files(place) : \A j \in DOMAIN tree.index[f] :
                  /\ f \in Files(place)' /\ j \in DOMAIN tree'.index[f]
                  /\ tree'.index[f][j] = tree.index[f][j]
           /\ file \in Files(place)' /\ end \in DOMAIN tree'.index[file] /\ end \in Nat
           /\ tree'.index[file][end] = Name(d)
           /\ tree'.index[file] # <<>> /\ Last(tree'.index[file]) = Name(d)
  <1>1. /\ DOMAIN tree'.index = DOMAIN tree.index \cup {file}
        /\ \A f \in DOMAIN tree.index : f # file => tree'.index[f] = tree.index[f]
        /\ tree'.index[file] = Append(Lines(file), Name(d))
        /\ Name(d) \in Line
        /\ Files(place)' = Files(place) \cup {file}
    BY IndexGrows
  <1>2. Lines(file) \in Seq(Line)
    BY LinesType
  <1>3. /\ Len(Lines(file)) \in Nat /\ DOMAIN Lines(file) = 1..Len(Lines(file))
        /\ Len(tree'.index[file]) = end
        /\ DOMAIN tree'.index[file] = DOMAIN Lines(file) \cup {end}
        /\ \A j \in DOMAIN Lines(file) : tree'.index[file][j] = Lines(file)[j]
        /\ tree'.index[file][end] = Name(d)
    BY <1>1, <1>2, SeqAppend, SeqElement
  <1>4. /\ file \in DOMAIN tree.index => Lines(file) = tree.index[file]
        /\ file \notin DOMAIN tree.index => DOMAIN Lines(file) = {}
    BY DEF Lines
  <1>5. \A f \in Files(place) : f \in DOMAIN tree.index /\ f[1] = place
    BY DEF Files
  <1>6. file \in DOMAIN tree.index => file \in Files(place)
    BY DEF Files
  <1>7. ASSUME NEW f \in Files(place)', NEW j \in DOMAIN tree'.index[f]
        PROVE  \/ /\ f \in Files(place) /\ j \in DOMAIN tree.index[f] /\ j \in Nat
                  /\ tree'.index[f][j] = tree.index[f][j] /\ (f = file => j < end)
               \/ f = file /\ j = end /\ tree'.index[f][j] = Name(d)
    <2>1. CASE f = file
      BY <1>3, <1>4, <1>6, <2>1
    <2>2. CASE f # file
      <3>1. f \in Files(place) /\ tree'.index[f] = tree.index[f]
        BY <1>1, <1>5, <2>2
      <3>2. tree.index[f] \in Seq(Line)
        BY <1>5, <3>1 DEF IndexTyped
      <3>3. j \in Nat
        BY <3>1, <3>2, SeqElement
      <3> QED BY <2>2, <3>1, <3>3
    <2> QED BY <2>1, <2>2
  <1>8. ASSUME NEW f \in Files(place), NEW j \in DOMAIN tree.index[f]
        PROVE  /\ f \in Files(place)' /\ j \in DOMAIN tree'.index[f]
               /\ tree'.index[f][j] = tree.index[f][j]
    BY <1>1, <1>3, <1>4, <1>5
  <1>9. tree'.index[file] # <<>> /\ Last(tree'.index[file]) = Name(d)
    <2>1. tree'.index[file] # <<>>
      BY <1>3
    <2> QED BY <1>3, <2>1 DEF Last
  <1>10. file \in Files(place)' /\ end \in DOMAIN tree'.index[file] /\ end \in Nat
    BY <1>1, <1>3
  <1>11. \A f \in Files(place)' : \A j \in DOMAIN tree'.index[f] :
            \/ /\ f \in Files(place) /\ j \in DOMAIN tree.index[f] /\ j \in Nat
               /\ tree'.index[f][j] = tree.index[f][j] /\ (f = file => j < end)
            \/ f = file /\ j = end /\ tree'.index[f][j] = Name(d)
    BY <1>7
  <1>12. \A f \in Files(place) : \A j \in DOMAIN tree.index[f] :
            /\ f \in Files(place)' /\ j \in DOMAIN tree'.index[f]
            /\ tree'.index[f][j] = tree.index[f][j]
    BY <1>8
  <1> QED BY <1>3, <1>9, <1>10, <1>11, <1>12

\* The parts of IndexOK for the place that grows.
LEMMA IndexPlace ==
    ASSUME log \in Streams, TypeOK, IndexTyped, NumbersOK,
           NEW from, NEW timeline, NEW i, NEW place, NEW d, NEW c, NEW n,
           Grows(from, timeline, i, place, d, c, n),
           c < Limit, Entries(place) = Counted(place), LinesAre(place), InOrder(place)
    PROVE  LinesAre(place)' /\ InOrder(place)' /\ ActiveIs(place, c + 1)'
  <1>1. PICK file : file = <<place, timeline>>
    OBVIOUS
  <1>2. PICK end : end = Len(Lines(file)) + 1
    OBVIOUS
  <1>3. /\ \A f \in Files(place)' : \A j \in DOMAIN tree'.index[f] :
               \/ /\ f \in Files(place) /\ j \in DOMAIN tree.index[f] /\ j \in Nat
                  /\ tree'.index[f][j] = tree.index[f][j] /\ (f = file => j < end)
               \/ f = file /\ j = end /\ tree'.index[f][j] = Name(d)
        /\ \A f \in Files(place) : \A j \in DOMAIN tree.index[f] :
               /\ f \in Files(place)' /\ j \in DOMAIN tree'.index[f]
               /\ tree'.index[f][j] = tree.index[f][j]
        /\ file \in Files(place)' /\ end \in DOMAIN tree'.index[file] /\ end \in Nat
        /\ tree'.index[file][end] = Name(d)
        /\ tree'.index[file] # <<>> /\ Last(tree'.index[file]) = Name(d)
    BY <1>1, <1>2, NewLines
  <1>4. /\ Name(d)[1] = c + 1 /\ c \in Nat
        /\ tree'.active[place] = timeline /\ place \in DOMAIN tree'.active
        /\ DOMAIN tree'.index = DOMAIN tree.index \cup {file}
    <2>1. c \in Nat
      BY GitProjectionConstants DEF Grows
    <2> QED BY <1>1, <2>1, IndexGrows
  <1>5. \A f \in Files(place) : \A j \in DOMAIN tree.index[f] :
            tree.index[f][j][1] \in 1..c
    <2> TAKE f \in Files(place)
    <2> TAKE j \in DOMAIN tree.index[f]
    <2>1. tree.index[f][j] \in {Name(e) : e \in Entries(place)}
      <3>1. tree.index[f][j] \in ToSet(tree.index[f])
        BY DEF ToSet
      <3>2. tree.index[f][j] \in UNION {ToSet(tree.index[g]) : g \in Files(place)}
        BY <3>1
      <3> QED BY <3>2 DEF LinesAre
    <2>2. PICK e \in Counted(place) : tree.index[f][j] = Name(e)
      BY <2>1
    <2>3. e.number \in 1..c
      BY CountedGrows
    <2> QED BY <2>2, <2>3 DEF Name
  <1>6. Entries(place)' = Entries(place) \cup {d}
    BY CountedGrows
  <1>7. LinesAre(place)'
    <2>1. \A x : x \in UNION {ToSet(tree'.index[f]) : f \in Files(place)'} <=>
                 x = Name(d) \/ x \in UNION {ToSet(tree.index[f]) : f \in Files(place)}
      <3>1. \A x : x \in UNION {ToSet(tree'.index[f]) : f \in Files(place)'} <=>
                   \E f \in Files(place)' : \E j \in DOMAIN tree'.index[f] :
                       x = tree'.index[f][j]
        BY DEF ToSet
      <3>2. \A x : x \in UNION {ToSet(tree.index[f]) : f \in Files(place)} <=>
                   \E f \in Files(place) : \E j \in DOMAIN tree.index[f] : x = tree.index[f][j]
        BY DEF ToSet
      <3>3. ASSUME NEW x, NEW f \in Files(place)', NEW j \in DOMAIN tree'.index[f],
                   x = tree'.index[f][j]
            PROVE  \/ x = Name(d)
                   \/ \E g \in Files(place) : \E k \in DOMAIN tree.index[g] : x = tree.index[g][k]
        BY <1>3, <3>3
      <3>4. ASSUME NEW x, NEW f \in Files(place), NEW j \in DOMAIN tree.index[f],
                   x = tree.index[f][j]
            PROVE  \E g \in Files(place)' : \E k \in DOMAIN tree'.index[g] : x = tree'.index[g][k]
        BY <1>3, <3>4
      <3>5. \E g \in Files(place)' : \E k \in DOMAIN tree'.index[g] : Name(d) = tree'.index[g][k]
        BY <1>3
      <3> QED BY <3>1, <3>2, <3>3, <3>4, <3>5
    <2>2. {Name(e) : e \in Entries(place)'} = {Name(e) : e \in Entries(place)} \cup {Name(d)}
      BY <1>6
    <2>3. UNION {ToSet(tree'.index[f]) : f \in Files(place)'}
              = {Name(e) : e \in Entries(place)} \cup {Name(d)}
      BY <2>1 DEF LinesAre
    <2> QED BY <2>2, <2>3 DEF LinesAre, Name
  <1>8. ASSUME NEW f \in Files(place)', NEW g \in Files(place)',
               NEW j \in DOMAIN tree'.index[f], NEW k \in DOMAIN tree'.index[g]
        PROVE  /\ f = g /\ j < k => tree'.index[f][j][1] < tree'.index[g][k][1]
               /\ tree'.index[f][j] = tree'.index[g][k] => f = g
    <2> DEFINE Old(h, m) == /\ h \in Files(place) /\ m \in DOMAIN tree.index[h] /\ m \in Nat
                            /\ tree'.index[h][m] = tree.index[h][m] /\ (h = file => m < end)
               New(h, m) == h = file /\ m = end /\ tree'.index[h][m] = Name(d)
    <2>1. (Old(f, j) \/ New(f, j)) /\ (Old(g, k) \/ New(g, k))
      BY <1>3
    <2>2. CASE Old(f, j) /\ Old(g, k)
      BY <2>2 DEF InOrder
    <2>3. CASE Old(f, j) /\ New(g, k)
      <3>1. tree'.index[f][j][1] \in 1..c /\ tree'.index[g][k][1] = c + 1
        BY <1>4, <1>5, <2>3
      <3> QED BY <1>4, <3>1
    <2>4. CASE New(f, j) /\ Old(g, k)
      <3>1. tree'.index[g][k][1] \in 1..c /\ tree'.index[f][j][1] = c + 1
        BY <1>4, <1>5, <2>4
      <3>2. ~(f = g /\ j < k)
        BY <1>3, <2>4
      <3> QED BY <1>4, <3>1, <3>2
    <2>5. CASE New(f, j) /\ New(g, k)
      BY <1>3, <2>5
    <2> QED BY <2>1, <2>2, <2>3, <2>4, <2>5
  <1>9. InOrder(place)'
    BY <1>8 DEF InOrder
  <1>10. ActiveIs(place, c + 1)'
    <2>1. <<place, tree'.active[place]>> = file /\ file \in DOMAIN tree'.index
      BY <1>1, <1>4
    <2>2. Last(tree'.index[file])[1] = c + 1
      BY <1>3, <1>4
    <2> QED BY <1>3, <1>4, <2>1, <2>2 DEF ActiveIs
  <1> QED BY <1>7, <1>9, <1>10

LEMMA IndexCommit ==
    ASSUME log \in Streams, TypeOK, NumbersOK, HashesOK, IndexTyped, IndexOK,
           NEW from, NEW timeline, NEW i, NEW place, NEW d, NEW c, NEW n,
           Grows(from, timeline, i, place, d, c, n)
    PROVE  IndexOK'
  <1> USE GitProjectionConstants
  <1>1. ASSUME NEW other, other # place, Small(other)'
        PROVE  /\ LinesAre(other)' /\ InOrder(other)'
               /\ ActiveIs(other, Cardinality(Commits(other)))'
    <2>1. Commits(other)' = Commits(other)
      BY <1>1, CommitsGrow
    <2>2. LinesAre(other) /\ InOrder(other) /\ ActiveIs(other, Cardinality(Commits(other)))
      BY <1>1, <2>1, IndexParts DEF Small
    <2>3. /\ Entries(other)' = Entries(other) /\ Files(other)' = Files(other)
          /\ \A f \in Files(other) : tree'.index[f] = tree.index[f]
          /\ other \in DOMAIN tree.active =>
                 other \in DOMAIN tree'.active /\ tree'.active[other] = tree.active[other]
      BY <1>1, OtherPlaces
    <2>4. LinesAre(other)'
      BY <2>2, <2>3 DEF LinesAre, Name
    <2>5. InOrder(other)'
      <3>1. ASSUME NEW f \in Files(other), NEW g \in Files(other),
                   NEW j \in DOMAIN tree'.index[f], NEW k \in DOMAIN tree'.index[g]
            PROVE  /\ f = g /\ j < k => tree'.index[f][j][1] < tree'.index[g][k][1]
                   /\ tree'.index[f][j] = tree'.index[g][k] => f = g
        <4>1. tree'.index[f] = tree.index[f] /\ tree'.index[g] = tree.index[g]
          BY <2>3
        <4>2. j \in DOMAIN tree.index[f] /\ k \in DOMAIN tree.index[g]
          BY <3>1, <4>1
        <4>3. /\ f = g /\ j < k => tree.index[f][j][1] < tree.index[g][k][1]
              /\ tree.index[f][j] = tree.index[g][k] => f = g
          BY <2>2, <4>2 DEF InOrder
        <4> QED BY <4>1, <4>3
      <3>2. Files(other)' = Files(other)
        BY <2>3
      <3> HIDE <2>3
      <3> QED BY <3>1, <3>2 DEF InOrder
    <2>6. ActiveIs(other, Cardinality(Commits(other)))'
      <3>1. <<other, tree.active[other]>> \in DOMAIN tree.index =>
                /\ <<other, tree.active[other]>> \in Files(other)
                /\ <<other, tree.active[other]>> \in DOMAIN tree'.index
        BY <2>3 DEF Files
      <3> QED BY <2>1, <2>2, <2>3, <3>1 DEF ActiveIs
    <2> QED BY <2>4, <2>5, <2>6
  <1>2. ASSUME Small(place)'
        PROVE  /\ LinesAre(place)' /\ InOrder(place)'
               /\ ActiveIs(place, Cardinality(Commits(place)))'
    <2>1. PICK size : size = Cardinality(Commits(place))
      OBVIOUS
    <2>2. Cardinality(Commits(place)') = size + 1 /\ size \in Nat
      BY <2>1, RanksGrow, CommitsFinite
    <2>3. size + 1 <= Limit /\ Small(place)
      BY <1>2, <2>1, <2>2 DEF Small
    <2>4. Entries(place) = Counted(place) /\ c = size /\ c < Limit
      BY <2>1, <2>2, <2>3 DEF Grows, HashesOK
    <2>5. LinesAre(place) /\ InOrder(place)
      BY <2>3, IndexParts
    <2>6. LinesAre(place)' /\ InOrder(place)' /\ ActiveIs(place, c + 1)'
      BY <2>4, <2>5, IndexPlace
    <2> QED BY <2>2, <2>4, <2>6
  <1>3. (\A p : Small(p) => LinesAre(p) /\ InOrder(p) /\ ActiveIs(p, Cardinality(Commits(p))))'
    BY <1>1, <1>2
  <1> QED BY <1>3, IndexParts, PTL

\* Only a new commit touches the tree.
LEMMA TreeQuiet ==
    ASSUME IInv, UNCHANGED <<log, commits, tree>>
    PROVE  NumbersOK' /\ HashesOK' /\ IndexTyped' /\ IndexOK'
  <1> USE DEF IInv
  <1>1. /\ \A p : Small(p)' <=> Small(p)
        /\ \A p : Entries(p)' = Entries(p) /\ Counted(p)' = Counted(p)
        /\ \A p : Commits(p)' = Commits(p) /\ Files(p)' = Files(p)
        /\ \A p, j, x : Nth(p, j, x)' <=> Nth(p, j, x)
        /\ Messages' = Messages /\ Line' = Line
    BY DEF Small, Entries, Counted, Commits, Files, Nth, Rank, Messages, Line, Froms, Place
  <1>2. NumbersOK'
    BY <1>1 DEF NumbersOK
  <1>3. HashesOK'
    BY <1>1 DEF HashesOK
  <1>4. IndexTyped'
    BY <1>1 DEF IndexTyped
  <1>5. IndexOK'
    BY <1>1 DEF IndexOK, Name
  <1> QED BY <1>2, <1>3, <1>4, <1>5

LEMMA TreeStep ==
    ASSUME IInv, Step
    PROVE  NumbersOK' /\ HashesOK' /\ IndexTyped' /\ IndexOK'
  <1>1. CASE UNCHANGED <<log, commits, tree>>
    BY <1>1, TreeQuiet
  <1>2. ASSUME NEW w \in Workers, NEW from, NEW timeline, NewCommit(w, from, timeline)
        PROVE  NumbersOK' /\ HashesOK' /\ IndexTyped' /\ IndexOK'
    <2>1. PICK i, place, d, c, n : Grows(from, timeline, i, place, d, c, n)
      BY <1>2, CommitGrows
    <2> QED BY <2>1, NumbersCommit, HashesCommit, IndexTypedCommit, IndexCommit DEF IInv
  <1>3. ASSUME NEW w \in Workers, NEW i \in Messages, Take(w, i)
        PROVE  UNCHANGED <<log, commits, tree>>
    BY <1>3 DEF Take
  <1>4. ASSUME NEW w \in Workers, NEW s \in Seconds, Seal(w, s)
        PROVE  UNCHANGED <<log, commits, tree>>
    BY <1>4 DEF Seal
  <1>5. ASSUME NEW w \in Workers,
               Refused(w) \/ CreateBranch(w) \/ PromoteBranch(w) \/ Checkout(w) \/ Ack(w)
        PROVE  UNCHANGED <<log, commits, tree>>
    BY <1>5 DEF Refused, CreateBranch, PromoteBranch, Checkout, Ack
  <1>6. DaemonRestarts => UNCHANGED <<log, commits, tree>>
    BY DEF DaemonRestarts
  <1> QED BY <1>1, <1>2, <1>3, <1>4, <1>5, <1>6 DEF Step

-----------------------------------------------------------------------------
(* The invariant *)

LEMMA InitInv == Init => IInv
  <1> SUFFICES ASSUME Init PROVE IInv
    OBVIOUS
  <1> USE GitProjectionConstants
  <1> DEFINE first == [parent |-> 0, msg |-> 0]
  <1>1. /\ log \in Streams /\ lost = {} /\ faults = 0 /\ head = "main" /\ worktree = 1
        /\ refs = [b \in {"main"} |-> 1] /\ commits = <<first>>
        /\ tree.dirs = {} /\ tree.index = <<>> /\ tree.active = <<>>
        /\ consumers = [c \in {All} |-> Unmade]
    BY DEF Init, EmptyTree
  <1>2. /\ Workers \in Pools /\ \A w \in Workers : workers[w] = Idle
        /\ workers = [w \in Workers |-> Idle]
    BY DEF Init, Workers
  <1>3. /\ Len(commits) = 1 /\ DOMAIN commits = {1} /\ commits[1] = first
        /\ first.parent = 0 /\ first.msg = 0
    BY <1>1
  <1>4. Messages = 1..Len(log) /\ Len(log) \in Nat
    BY <1>1, LogType
  <1>5. consumers[All].seen = 0 /\ consumers[All].owed = {} /\ consumers[All].made = FALSE
    BY <1>1 DEF Unmade
  <1>6. TypeOK
    <2>1. consumers \in [{All} -> [made : BOOLEAN, seen : 0..Len(log), owed : SUBSET Messages]]
      BY <1>1, <1>4 DEF Unmade
    <2>2. commits \in Seq([parent : Nat, msg : 0..Len(log)])
      BY <1>1, <1>4
    <2>3. /\ DOMAIN refs \subseteq Branch /\ head \in DOMAIN refs
          /\ \A b \in DOMAIN refs : refs[b] \in DOMAIN commits
      BY <1>1, <1>3 DEF Branch
    <2>4. workers \in [Workers ->
           [at : {"idle", "handling", "committed", "sealed", "moved", "handled"},
            msg : 0..Len(log), base : 0..Len(commits), commit : 0..Len(commits)]]
      BY <1>2, <1>3, <1>4 DEF Idle
    <2> QED BY <1>1, <1>2, <1>3, <2>1, <2>2, <2>3, <2>4 DEF TypeOK
  <1>7. OneLine /\ BranchesMark
    BY <1>1, <1>3 DEF OneLine, BranchesMark
  <1>8. \A w \in Workers : workers[w].at = "idle"
    BY <1>2 DEF Idle
  <1>9. WorkersOK
    BY <1>8 DEF WorkersOK, WorkerOK, At
  <1>10. TakenKept
    BY <1>4, <1>5 DEF TakenKept, Taken
  <1>11. Alone
    BY <1>1, <1>3, <1>5, <1>8 DEF Alone, Steady, At
  <1>12. /\ \A p : Entries(p) = {} /\ Counted(p) = {} /\ Commits(p) = {} /\ Files(p) = {}
    BY <1>1, <1>3 DEF Entries, Counted, Commits, Files
  <1>13. NumbersOK
    <2>1. IsFiniteSet(tree.dirs) /\ Cardinality({}) = 0
      BY <1>1, FS_EmptySet
    <2>2. 1..0 = {}
      OBVIOUS
    <2>3. ASSUME NEW p
          PROVE  /\ {d.number : d \in Counted(p)} = 1..Cardinality(Counted(p))
                 /\ \A d, e \in Counted(p) : d.number = e.number => d = e
      <3>1. Counted(p) = {} /\ Cardinality(Counted(p)) = 0
        BY <1>12, <2>1
      <3>2. {d.number : d \in Counted(p)} = {}
        BY <3>1
      <3> QED BY <2>2, <3>1, <3>2
    <2> QED BY <2>1, <2>3 DEF NumbersOK
  <1>14. HashesOK
    BY <1>12 DEF HashesOK
  <1>15. IndexTyped
    BY <1>1 DEF IndexTyped
  <1>16. IndexOK
    BY <1>12 DEF IndexOK
  <1> QED BY <1>1, <1>6, <1>7, <1>9, <1>10, <1>11, <1>13, <1>14, <1>15, <1>16 DEF IInv

LEMMA NextInv == IInv /\ [Next]_vars => IInv'
  <1> SUFFICES ASSUME IInv, [Next]_vars PROVE IInv'
    OBVIOUS
  <1>1. CASE Next
    <2>1. Step
      BY <1>1, Steps DEF IInv
    <2> QED BY <2>1, TypeStep, LineStep, KnownStep, AloneStep, TreeStep DEF IInv
  <1>2. CASE UNCHANGED vars
    <2>1. /\ UNCHANGED <<log, consumers, commits, refs, head, tree, worktree, workers, lost, faults>>
      BY <1>2 DEF vars
    <2>2. TypeOK' /\ log' \in Streams
      BY <2>1 DEF IInv, TypeOK, Messages, Branch, Workers
    <2>3. OneLine' /\ BranchesMark'
      BY <2>1 DEF IInv, OneLine, BranchesMark
    <2>4. WorkersOK' /\ TakenKept'
      BY <2>1 DEF IInv, WorkersOK, WorkerOK, TakenKept, Taken, Committed, At, Message, Messages,
                  Workers
    <2>5. Alone'
      BY <2>1 DEF IInv, Alone, Steady, At, Workers
    <2> QED BY <2>1, <2>2, <2>3, <2>4, <2>5, TreeQuiet DEF IInv
  <1> QED BY <1>1, <1>2

\* Every reachable state satisfies the inductive invariant.
THEOREM Invariant == Spec => []IInv
  BY InitInv, NextInv, PTL DEF Spec

-----------------------------------------------------------------------------
(* Theorems *)

\* Stream, repository and workers keep their types.
THEOREM TypeCorrect == Spec => []TypeOK
  <1>1. IInv => TypeOK
    BY DEF IInv
  <1> QED BY <1>1, Invariant, PTL

LEMMA HistoryKept == IInv => TreeIsHistory
  <1> SUFFICES ASSUME IInv, NEW place \in Places, Small(place), NEW size,
                      size = Cardinality(Commits(place))
               PROVE  /\ Cardinality(Entries(place)) = size
                      /\ {d.number : d \in Entries(place)} = 1..size
                      /\ \A d \in Entries(place) :
                             /\ Len(d.hash) = d.number
                             /\ \A j \in 1..d.number : Nth(place, j, d.hash[j])
                      /\ LinesAre(place) /\ InOrder(place)
                      /\ Files(place) # {} =>
                             Last(tree.index[<<place, tree.active[place]>>])[1] = size
    BY DEF TreeIsHistory, LinesAre, InOrder
  <1>1. /\ Entries(place) = Counted(place)
        /\ Cardinality(Counted(place)) = size
        /\ \A d \in Entries(place) :
               /\ Len(d.hash) = d.number
               /\ \A j \in 1..d.number : Nth(place, j, d.hash[j])
    BY DEF IInv, HashesOK
  <1>2. {d.number : d \in Counted(place)} = 1..Cardinality(Counted(place))
    BY DEF IInv, NumbersOK
  <1>3. LinesAre(place) /\ InOrder(place) /\ ActiveIs(place, size)
    BY IndexParts DEF IInv
  <1> QED BY <1>1, <1>2, <1>3 DEF ActiveIs

\* However many workers commit, and wherever forks and promotes move branches, the commits are
\* one line that ends at HEAD, and the numbers, hashes and index files of the tree tell the
\* order in which the messages of an agent's session were committed.
THEOREM HistoryIsLinear == Spec => []LinearHistory
  <1>1. IInv => LinearHistory
    BY HistoryKept DEF IInv, OneLine, LinearHistory
  <1> QED BY <1>1, Invariant, PTL

\* No message is acknowledged that is not committed or was refused; a single worker refuses
\* none, and without faults commits the stream once and in its order.
THEOREM NoneMissed == Spec => []NothingMissed
  <1>1. IInv => NothingMissed
    BY DEF IInv, TakenKept, Alone, NothingMissed
  <1> QED BY <1>1, Invariant, PTL

-----------------------------------------------------------------------------
(* Induction, and sequences that are folded *)

\* Every non-empty set of natural numbers has a least element: < is well-founded.
LEMMA LeastNat ==
    ASSUME NEW T \in SUBSET Nat, T # {}
    PROVE  \E n \in T : \A m \in T : n <= m
  <1> DEFINE R == OpToRel(<, Nat)
  <1>1. IsWellFoundedOn(R, Nat)
    BY NatLessThanWellFounded
  <1> HIDE DEF R
  <1>2. PICK n \in T : \A m \in T : ~ (<<m, n>> \in R)
    BY <1>1, WFMin
  <1>3. ASSUME NEW m \in T PROVE n <= m
    <2>1. m \in Nat /\ n \in Nat
      OBVIOUS
    <2>2. m < n => <<m, n>> \in R
      BY <2>1 DEF R, OpToRel
    <2>3. ~ (m < n)
      BY <1>2, <2>2
    <2> QED BY <2>1, <2>3
  <1> QED BY <1>3

\* A set of natural numbers that has zero, and the successor of each of its elements.
LEMMA Induction ==
    ASSUME NEW T \in SUBSET Nat, 0 \in T, \A n \in Nat : n \in T => n + 1 \in T
    PROVE  T = Nat
  <1> SUFFICES ASSUME T # Nat PROVE FALSE
    OBVIOUS
  <1>1. PICK n \in Nat \ T : \A m \in Nat \ T : n <= m
    BY LeastNat
  <1>2. n # 0 /\ n - 1 \in Nat
    BY <1>1
  <1>3. n - 1 \in T
    BY <1>1, <1>2
  <1> QED BY <1>1, <1>2, <1>3


\* Where a sequence of sequences of at most one element has the elements of the flat one.
Spread(flat, s, n) ==
    /\ \A j, k \in DOMAIN flat : j < k => \E a, b \in 1..n : /\ a < b
                                          /\ s[a] = <<flat[j]>> /\ s[b] = <<flat[k]>>
    /\ \A k \in DOMAIN flat : \E a \in 1..n : s[a] = <<flat[k]>>
    /\ \A a \in 1..n : s[a] # <<>> => \E k \in DOMAIN flat : s[a] = <<flat[k]>>

\* The function by which FlattenSeq is defined is there, and is what its definition says.
LEMMA FlattenIs ==
    ASSUME NEW s, NEW N \in Nat, N # 0, Len(s) = N
    PROVE  \E f : /\ FlattenSeq(s) = f[N]
                  /\ f = [i \in 1..N |-> IF i = 1 THEN s[i] ELSE f[i - 1] \o s[i]]
  <1> DEFINE F(f, n) == [i \in 1..n |-> IF i = 1 THEN s[i] ELSE f[i - 1] \o s[i]]
             F0 == CHOOSE f : f = F(f, N)
             T == {n \in Nat : \E f : f = F(f, n)}
  <1>1. FlattenSeq(s) = F0[N]
    BY DEF FlattenSeq
  <1>2. 0 \in T
    <2> DEFINE f == [i \in 1..0 |-> 0]
    <2>1. f = F(f, 0)
      OBVIOUS
    <2> QED BY <2>1
  <1>3. ASSUME NEW n \in Nat, n \in T PROVE n + 1 \in T
    <2>1. PICK f : f = F(f, n)
      BY <1>3
    <2> DEFINE e == IF n + 1 = 1 THEN s[n + 1] ELSE f[n] \o s[n + 1]
               g == [i \in 1..(n + 1) |-> IF i = n + 1 THEN e ELSE f[i]]
    <2>2. ASSUME NEW i \in 1..(n + 1)
          PROVE  g[i] = IF i = 1 THEN s[i] ELSE g[i - 1] \o s[i]
      <3>1. CASE i = n + 1
        <4>1. g[i] = e
          BY <3>1
        <4>2. CASE i = 1
          BY <3>1, <4>1, <4>2
        <4>3. CASE i # 1
          <5>1. i - 1 = n /\ n \in 1..(n + 1) /\ n # n + 1
            BY <3>1, <4>3
          <5>2. g[i - 1] = f[n]
            BY <5>1
          <5> QED BY <3>1, <4>1, <4>3, <5>2
        <4> QED BY <4>2, <4>3
      <3>2. CASE i # n + 1
        <4>1. i \in 1..n /\ g[i] = f[i]
          BY <3>2
        <4>2. f[i] = IF i = 1 THEN s[i] ELSE f[i - 1] \o s[i]
          BY <2>1, <4>1
        <4>3. i # 1 => i - 1 \in 1..(n + 1) /\ i - 1 # n + 1
          BY <4>1
        <4>4. i # 1 => g[i - 1] = f[i - 1]
          BY <4>3
        <4> QED BY <4>1, <4>2, <4>4
      <3> QED BY <3>1, <3>2
    <2> HIDE DEF e
    <2>3. g = F(g, n + 1)
      BY <2>2
    <2> HIDE DEF g
    <2>4. n + 1 \in Nat
      OBVIOUS
    <2> QED BY <2>3, <2>4
  <1>4. T \in SUBSET Nat
    OBVIOUS
  <1> HIDE DEF T
  <1>5. N \in T
    BY <1>2, <1>3, <1>4, Induction
  <1>6. \E f : f = F(f, N)
    BY <1>5 DEF T
  <1>7. F0 = F(F0, N)
    BY <1>6
  <1> HIDE DEF F0
  <1> QED BY <1>1, <1>7

\* One more element comes after those that were spread.
LEMMA SpreadOne ==
    ASSUME NEW S, NEW flat \in Seq(S), NEW s, NEW n \in Nat, Spread(flat, s, n),
           NEW x \in S, s[n + 1] = <<x>>
    PROVE  Spread(Append(flat, x), s, n + 1)
  <1> DEFINE long == Append(flat, x)
  <1>1. /\ DOMAIN flat = 1..Len(flat) /\ Len(flat) \in Nat
        /\ long \in Seq(S) /\ Len(long) = Len(flat) + 1 /\ long[Len(flat) + 1] = x
        /\ \A k \in DOMAIN flat : long[k] = flat[k]
    BY SeqElement, AppendProperties
  <1>2. DOMAIN long = 1..(Len(flat) + 1)
    BY <1>1, SeqElement
  <1> HIDE DEF long
  <1>3. ASSUME NEW k \in DOMAIN long
        PROVE  \/ k \in DOMAIN flat /\ \E a \in 1..n : s[a] = <<long[k]>>
               \/ k = Len(flat) + 1 /\ s[n + 1] = <<long[k]>>
    <2>1. CASE k \in DOMAIN flat
      <3>1. \E a \in 1..n : s[a] = <<flat[k]>>
        BY <2>1 DEF Spread
      <3> QED BY <1>1, <2>1, <3>1
    <2>2. CASE k = Len(flat) + 1
      BY <1>1, <2>2
    <2> QED BY <1>1, <1>2, <2>1, <2>2
  <1>4. ASSUME NEW j \in DOMAIN long, NEW k \in DOMAIN long, j < k
        PROVE  \E a, b \in 1..(n + 1) : a < b /\ s[a] = <<long[j]>> /\ s[b] = <<long[k]>>
    <2>1. CASE k \in DOMAIN flat
      <3>1. j \in DOMAIN flat
        BY <1>1, <1>2, <1>4, <2>1
      <3>2. PICK a, b \in 1..n : a < b /\ s[a] = <<flat[j]>> /\ s[b] = <<flat[k]>>
        BY <1>4, <2>1, <3>1 DEF Spread
      <3>3. a \in 1..(n + 1) /\ b \in 1..(n + 1)
        OBVIOUS
      <3> QED BY <1>1, <2>1, <3>1, <3>2, <3>3
    <2>2. CASE k = Len(flat) + 1
      <3>1. j \in DOMAIN flat
        BY <1>1, <1>2, <1>4, <2>2
      <3>2. PICK a \in 1..n : s[a] = <<long[j]>>
        <4>1. \E a \in 1..n : s[a] = <<flat[j]>>
          BY <3>1 DEF Spread
        <4>2. long[j] = flat[j]
          BY <1>1, <3>1
        <4> QED BY <4>1, <4>2
      <3>3. a \in 1..(n + 1) /\ n + 1 \in 1..(n + 1) /\ a < n + 1
        <4>1. n \in Nat /\ a \in 1..n
          OBVIOUS
        <4> QED BY ONLY <4>1
      <3>4. s[n + 1] = <<long[k]>>
        BY <1>1, <2>2
      <3> QED BY <3>2, <3>3, <3>4
    <2> QED BY <1>1, <1>2, <2>1, <2>2
  <1>5. ASSUME NEW a \in 1..(n + 1), s[a] # <<>>
        PROVE  \E k \in DOMAIN long : s[a] = <<long[k]>>
    <2>1. CASE a \in 1..n
      <3>1. PICK k \in DOMAIN flat : s[a] = <<flat[k]>>
        BY <1>5, <2>1 DEF Spread
      <3>2. k \in DOMAIN long /\ long[k] = flat[k]
        BY <1>1, <1>2
      <3> QED BY <3>1, <3>2
    <2>2. CASE a = n + 1
      <3>1. Len(flat) + 1 \in DOMAIN long
        BY <1>1, <1>2
      <3> QED BY <1>1, <2>2, <3>1
    <2> QED BY <2>1, <2>2
  <1>6. \A k \in DOMAIN long : \E a \in 1..(n + 1) : s[a] = <<long[k]>>
    <2> TAKE k \in DOMAIN long
    <2>1. n + 1 \in 1..(n + 1) /\ 1..n \subseteq 1..(n + 1)
      OBVIOUS
    <2> QED BY <1>3, <2>1
  <1>7. Spread(long, s, n + 1)
    BY <1>4, <1>5, <1>6 DEF Spread
  <1> QED BY <1>7 DEF long

\* Nothing comes after those that were spread.
LEMMA SpreadNone ==
    ASSUME NEW flat, NEW s, NEW n \in Nat, Spread(flat, s, n), s[n + 1] = <<>>
    PROVE  Spread(flat, s, n + 1)
  <1>1. /\ 1..n \subseteq 1..(n + 1)
        /\ \A a \in 1..(n + 1) : a \in 1..n \/ a = n + 1
    OBVIOUS
  <1>2. ASSUME NEW j \in DOMAIN flat, NEW k \in DOMAIN flat, j < k
        PROVE  \E a, b \in 1..(n + 1) : a < b /\ s[a] = <<flat[j]>> /\ s[b] = <<flat[k]>>
    <2>1. PICK a, b \in 1..n : a < b /\ s[a] = <<flat[j]>> /\ s[b] = <<flat[k]>>
      BY <1>2 DEF Spread
    <2>2. a \in 1..(n + 1) /\ b \in 1..(n + 1)
      OBVIOUS
    <2> QED BY <2>1, <2>2
  <1>3. ASSUME NEW a \in 1..(n + 1), s[a] # <<>>
        PROVE  \E k \in DOMAIN flat : s[a] = <<flat[k]>>
    BY <1>1, <1>3 DEF Spread
  <1>4. \A k \in DOMAIN flat : \E a \in 1..(n + 1) : s[a] = <<flat[k]>>
    BY <1>1 DEF Spread
  <1> QED BY <1>2, <1>3, <1>4 DEF Spread

\* The flat sequence of sequences of at most one element has all their elements, in order.
LEMMA FlattenShort ==
    ASSUME NEW S, NEW s \in Seq(Seq(S)),
           \A i \in DOMAIN s : s[i] = <<>> \/ \E x \in S : s[i] = <<x>>
    PROVE  FlattenSeq(s) \in Seq(S) /\ Spread(FlattenSeq(s), s, Len(s))
  <1>1. DOMAIN s = 1..Len(s) /\ Len(s) \in Nat
    BY SeqElement
  <1>2. CASE Len(s) = 0
    <2>1. FlattenSeq(s) = s /\ s = <<>>
      BY <1>2, EmptySeq DEF FlattenSeq
    <2>2. Spread(<<>>, s, 0)
      BY DEF Spread
    <2> QED BY <1>2, <2>1, <2>2, EmptySeq
  <1>3. CASE Len(s) # 0
    <2>1. PICK f : /\ FlattenSeq(s) = f[Len(s)]
                   /\ f = [i \in 1..Len(s) |-> IF i = 1 THEN s[i] ELSE f[i - 1] \o s[i]]
      BY <1>1, <1>3, FlattenIs
    <2> DEFINE T == {n \in Nat : n + 1 \in DOMAIN s =>
                                    f[n + 1] \in Seq(S) /\ Spread(f[n + 1], s, n + 1)}
    <2>2. 0 \in T
      <3>1. 1 \in DOMAIN s /\ f[1] = s[1]
        BY <1>1, <1>3, <2>1
      <3>2. Spread(<<>>, s, 0) /\ <<>> \in Seq(S)
        BY EmptySeq DEF Spread
      <3>3. ASSUME s[1] = <<>> PROVE f[1] \in Seq(S) /\ Spread(f[1], s, 0 + 1)
        <4>1. s[0 + 1] = <<>> /\ 0 \in Nat
          BY <3>3
        <4>2. Spread(<<>>, s, 0 + 1)
          BY <3>2, <4>1, SpreadNone
        <4> QED BY <3>1, <3>2, <3>3, <4>2
      <3>4. ASSUME s[1] # <<>> PROVE f[1] \in Seq(S) /\ Spread(f[1], s, 0 + 1)
        <4>1. PICK x \in S : s[1] = <<x>>
          BY <3>1, <3>4
        <4>2. Append(<<>>, x) = <<x>>
          OBVIOUS
        <4>3. s[0 + 1] = <<x>> /\ 0 \in Nat
          BY <4>1
        <4>4. Spread(Append(<<>>, x), s, 0 + 1)
          BY <3>2, <4>3, SpreadOne
        <4>5. Append(<<>>, x) \in Seq(S)
          BY <3>2, AppendProperties
        <4> QED BY <3>1, <4>1, <4>2, <4>4, <4>5
      <3>5. f[1] \in Seq(S) /\ Spread(f[1], s, 0 + 1)
        BY <3>3, <3>4
      <3>6. 0 + 1 = 1 /\ 0 \in Nat
        OBVIOUS
      <3> QED BY <3>5, <3>6
    <2>3. ASSUME NEW n \in Nat, n \in T PROVE n + 1 \in T
      <3> SUFFICES ASSUME (n + 1) + 1 \in DOMAIN s
                   PROVE  f[(n + 1) + 1] \in Seq(S) /\ Spread(f[(n + 1) + 1], s, (n + 1) + 1)
        OBVIOUS
      <3> PICK m \in Nat : m = n + 1
        OBVIOUS
      <3>1. m \in DOMAIN s /\ m + 1 \in DOMAIN s /\ m + 1 # 1 /\ (m + 1) - 1 = m
        BY <1>1
      <3>2. f[m + 1] = f[m] \o s[m + 1]
        BY <1>1, <2>1, <3>1
      <3>3. f[m] \in Seq(S) /\ Spread(f[m], s, m)
        BY <2>3, <3>1
      <3>4. CASE s[m + 1] = <<>>
        <4>1. f[m + 1] = f[m]
          BY <3>2, <3>3, <3>4, ConcatEmptySeq
        <4>2. Spread(f[m], s, m + 1)
          BY <3>3, <3>4, SpreadNone
        <4> QED BY <3>3, <4>1, <4>2
      <3>5. CASE s[m + 1] # <<>>
        <4>1. PICK x \in S : s[m + 1] = <<x>>
          BY <3>1, <3>5
        <4>2. f[m + 1] = Append(f[m], x)
          BY <3>2, <3>3, <4>1, AppendIsConcat
        <4>3. Spread(Append(f[m], x), s, m + 1) /\ Append(f[m], x) \in Seq(S)
          BY <3>3, <4>1, SpreadOne, AppendProperties
        <4> QED BY <4>2, <4>3
      <3> QED BY <3>4, <3>5
    <2>4. T \in SUBSET Nat
      OBVIOUS
    <2> HIDE DEF T
    <2>5. T = Nat
      BY <2>2, <2>3, <2>4, Induction
    <2>6. Len(s) - 1 \in Nat /\ (Len(s) - 1) + 1 = Len(s) /\ Len(s) \in DOMAIN s
      BY <1>1, <1>3
    <2>7. Len(s) - 1 \in T
      BY <2>5, <2>6
    <2> QED BY <2>1, <2>6, <2>7 DEF T
  <1> QED BY <1>2, <1>3

-----------------------------------------------------------------------------
(* The conversation: the inductive invariant *)

Stages == {"invoked", "dispatched", "calling", "waiting", "delegating", "ended", "done"}
RunRecord == [by : Clients \cup Nodes, at : Stages, invoke : Nodes, answer : Nodes, next : Nat,
              head : Nodes, given : Seq(Said), upto : Nodes]

TalkTypes == /\ sent \in Seq(Sent) /\ Len(sent) <= MaxSent
             /\ dag \in Seq(Nodes) /\ typed \subseteq ToSet(dag)
             /\ runs \in Seq(RunRecord) /\ Len(runs) <= Len(sent)
             /\ bases \in [Clients -> [parent : Nodes, state : Nodes]]
             /\ failures \in 0..MaxFailures

\* An error that was reported before has the id of the first.
IdOK(i) == \/ sent[i].id = i
           \/ /\ sent[i].error /\ sent[i].id \in 1..(i - 1)
              /\ sent[sent[i].id].error /\ sent[sent[i].id].id = sent[i].id

\* Only calls and answers of the run come after node c and before i.
OnlyCalls(c, i, r) ==
    \A x \in (c + 1)..(i - 1) : sent[x].run = r => sent[x].type \in {"request", "response"}

\* A request stands on its call, a response on its request.
CallOK(i) == LET c == sent[i].of[1] IN
    /\ c \in 1..(i - 1) /\ sent[c].type = "complete" /\ ~sent[c].error
    /\ sent[i].of[2] \in DOMAIN sent[c].calls
ReplyOK(i) == LET q == sent[i].of[1] IN
    /\ q \in 1..(i - 1) /\ sent[q].type = "request" /\ sent[i].parent \in {Root, q}
    /\ OnlyCalls(sent[q].of[1], i, sent[i].run)

MessageOK(i) == /\ IdOK(i) /\ sent[i].parent \in {Root} \cup DOMAIN sent
                /\ sent[i].error => sent[i].type = "complete" /\ sent[i].calls = NoCalls
                /\ sent[i].type = "request" => CallOK(i)
                /\ sent[i].type = "response" => ReplyOK(i)
MessagesOK == \A i \in DOMAIN sent : MessageOK(i)

\* Nodes come in the order in which they were sent, but for an error that came before.
BranchOK == /\ \A k \in DOMAIN dag : dag[k] \in DOMAIN sent /\ sent[dag[k]].id = dag[k]
            /\ \A j, k \in DOMAIN dag :
                  j < k => \/ dag[j] < dag[k]
                           \/ dag[j] > dag[k] /\ sent[dag[k]].error

\* What an agent was given stands on messages.
GivenOne(r) == LET given == runs[r].given IN
    /\ \A k \in DOMAIN given : given[k].from \in DOMAIN sent
    /\ \A j, k \in DOMAIN given :
          j < k => \/ given[j].from < given[k].from
                   \/ given[j].from > given[k].from /\ sent[given[k].from].error
    /\ \A k \in DOMAIN given : given[k].by = "tool" =>
          /\ sent[given[k].from].type = "response"
          /\ given[k].call = sent[sent[given[k].from].of[1]].of
GivenOK == \A r \in DOMAIN runs : GivenOne(r)

\* Where a run stands.
Calling == {"calling", "waiting", "delegating", "ended"}
CallingOK(r) == runs[r].at \in Calling =>
    /\ runs[r].answer \in DOMAIN sent /\ sent[runs[r].answer].type = "complete"
    /\ ~sent[runs[r].answer].error /\ sent[runs[r].answer].id = runs[r].answer
    /\ runs[r].next \in DOMAIN sent[runs[r].answer].calls
    /\ OnlyCalls(runs[r].answer, Len(sent) + 1, r)
WaitingOK(r) == runs[r].at = "waiting" =>
    /\ runs[r].head \in DOMAIN sent /\ sent[runs[r].head].type = "request"
    /\ sent[runs[r].head].run = r /\ sent[runs[r].head].of[1] = runs[r].answer
RunOne(r) == CallingOK(r) /\ WaitingOK(r)
RunsOK == \A r \in DOMAIN runs : RunOne(r)

\* A caller waits for the one run that it delegated to.
Delegated(r) == runs[r].at # "done" /\ runs[r].by \notin Clients
CallersOK ==
    /\ \A r \in DOMAIN runs : runs[r].by \in Clients \cup DOMAIN runs
    /\ \A r \in DOMAIN runs : Delegated(r) => runs[runs[r].by].at = "delegating"
    /\ \A r, q \in DOMAIN runs : Delegated(r) /\ Delegated(q) /\ runs[r].by = runs[q].by => r = q

\* What will not be said any more, and the requests whose answers will not.
Lost == {i \in DOMAIN sent : /\ Says(i) /\ i \notin Repeats
                             /\ i \notin typed \/ (sent[i].type = "response" /\ ~Answered(i))}
Waiting == {i \in DOMAIN sent : /\ sent[i].type = "request" /\ i \notin typed
                                /\ sent[i].run \in DOMAIN runs
                                /\ runs[sent[i].run].at = "waiting"
                                /\ runs[sent[i].run].head = i}
LossesPaid == Cardinality(Lost \cup Waiting) <= failures
ForgottenPaid == \A r \in DOMAIN runs :
    runs[r].at = "dispatched" => /\ runs[r].upto <= Len(sent)
                                 /\ Cardinality(Forgotten(r)) <= failures

TalkInv == /\ TalkTypes /\ MessagesOK /\ BranchOK /\ GivenOK /\ RunsOK /\ CallersOK
           /\ LossesPaid /\ ForgottenPaid

-----------------------------------------------------------------------------
(* What recording a message does *)

\* The identity of a new message is its own, or that of the same error before it.
NewIdOK(m) == \/ m.id = Len(sent) + 1
              \/ /\ m.error /\ m.id \in DOMAIN sent
                 /\ sent[m.id].error /\ sent[m.id].id = m.id

\* A message is recorded: its parent was found or not, its rows were kept or not.
Records(m, found, kept) ==
    /\ m \in Sent /\ found \in BOOLEAN /\ kept \in Outcomes
    /\ sent' = Append(sent, m) /\ Insert(m.id, kept)
    /\ failures' = failures + Cost(found, kept) /\ failures' <= MaxFailures
    /\ Len(sent) < MaxSent /\ NewIdOK(m) /\ m.parent \in {Root} \cup DOMAIN sent

\* The messages of before are where they were.
Extends == /\ Len(sent) \in Nat /\ Len(sent') \in Nat /\ Len(sent) <= Len(sent')
           /\ DOMAIN sent = 1..Len(sent) /\ DOMAIN sent' = 1..Len(sent')
           /\ \A i \in DOMAIN sent : sent'[i] = sent[i]

\* A new id, or that of the same error, reported before.
LEMMA HashIs ==
    ASSUME TalkTypes, MessagesOK, NEW error \in BOOLEAN, NEW parent
    PROVE  \/ Hash(error, parent) = Len(sent) + 1
           \/ /\ error /\ Hash(error, parent) \in DOMAIN sent
              /\ sent[Hash(error, parent)].error
              /\ sent[Hash(error, parent)].id = Hash(error, parent)
  <1> DEFINE equal == {i \in DOMAIN sent : sent[i].error /\ sent[i].parent = parent}
  <1>1. CASE error /\ equal # {}
    <2>1. PICK i \in equal : Hash(error, parent) = sent[i].id
      BY <1>1 DEF Hash
    <2>2. IdOK(i) /\ i \in DOMAIN sent /\ sent[i].error
      BY <2>1 DEF MessagesOK, MessageOK
    <2>3. DOMAIN sent = 1..Len(sent) /\ Len(sent) \in Nat
      BY SeqElement DEF TalkTypes
    <2> DEFINE h == sent[i].id
    <2>4. h \in DOMAIN sent /\ sent[h].error /\ sent[h].id = h
      <3>1. CASE h = i
        BY <2>2, <3>1
      <3>2. CASE h # i
        BY <2>2, <2>3, <3>2 DEF IdOK
      <3> QED BY <3>1, <3>2
    <2> QED BY <1>1, <2>1, <2>4
  <1>2. CASE ~(error /\ equal # {})
    BY <1>2 DEF Hash
  <1> QED BY <1>1, <1>2

\* Every node of the branch is a message that was sent.
LEMMA RecordedSent ==
    ASSUME TalkTypes, BranchOK
    PROVE  \A i : Recorded(i) => i \in DOMAIN sent /\ sent[i].id = i
  BY DEF Recorded, ToSet, BranchOK

\* Recording a message, whatever the store makes of it, is one Records.
LEMMA RecordGives ==
    ASSUME TalkTypes, MessagesOK, BranchOK, Len(sent) < MaxSent,
           NEW type \in {"invoke", "complete", "request", "response"}, NEW r \in Nodes, NEW after,
           NEW of \in Nodes \X Nat, NEW calls \in Lists \cup {NoCalls}, NEW state \in Nodes,
           NEW error \in BOOLEAN, Record(type, r, after, of, calls, state, error)
    PROVE  \E m, found, kept :
              /\ Records(m, found, kept) /\ m.parent = Parent(type, after, found)
              /\ m.type = type /\ m.run = r /\ m.of = of /\ m.calls = calls
              /\ m.state = state /\ m.error = error
              /\ ~error => m.id = Len(sent) + 1
  <1>1. PICK found \in BOOLEAN, kept \in Outcomes :
           /\ failures + Cost(found, kept) <= MaxFailures
           /\ failures' = failures + Cost(found, kept)
           /\ Insert(Hash(error, Parent(type, after, found)), kept)
           /\ sent' = Append(sent, [type |-> type,
                                    id |-> Hash(error, Parent(type, after, found)),
                                    parent |-> Parent(type, after, found), run |-> r,
                                    of |-> of, calls |-> calls, state |-> state,
                                    error |-> error])
    BY DEF Record
  <1> DEFINE parent == Parent(type, after, found)
             id == Hash(error, parent)
             m == [type |-> type, id |-> id, parent |-> parent, run |-> r, of |-> of,
                   calls |-> calls, state |-> state, error |-> error]
  <1>2. parent \in {Root} \cup DOMAIN sent
    BY RecordedSent DEF Parent
  <1>3. \/ id = Len(sent) + 1
        \/ error /\ id \in DOMAIN sent /\ sent[id].error /\ sent[id].id = id
    BY HashIs
  <1>4. DOMAIN sent = 1..Len(sent) /\ Len(sent) \in Nat /\ MaxSent \in Nat
    BY SeqElement, ConversationConstants DEF TalkTypes
  <1>5. id \in Nodes /\ parent \in Nodes
    BY <1>2, <1>3, <1>4 DEF Nodes, Root
  <1> HIDE DEF id, parent
  <1>6. m \in Sent
    BY <1>5 DEF Sent
  <1>7. Records(m, found, kept)
    BY <1>1, <1>2, <1>3, <1>6 DEF Records, NewIdOK, id, parent
  <1>8. ~error => m.id = Len(sent) + 1
    BY <1>3
  <1>9. m.parent = Parent(type, after, found)
    BY DEF parent
  <1> QED BY <1>7, <1>8, <1>9

\* The same of an invoke.
LEMMA InvokeGives ==
    ASSUME TalkTypes, MessagesOK, BranchOK, Len(sent) < MaxSent, NEW r \in Nodes, NEW after,
           NEW of \in Nodes \X Nat, NoCalls \in Lists \cup {NoCalls}, NEW state \in Nodes,
           RecordInvoke(r, after, of, state)
    PROVE  \E m, found, kept :
              Records(m, found, kept) /\ m.type = "invoke" /\ m.run = r /\ ~m.error
  <1>1. PICK error \in BOOLEAN : error = FALSE
    OBVIOUS
  <1>2. Record("invoke", r, after, of, NoCalls, state, error)
    BY <1>1 DEF RecordInvoke
  <1>3. PICK m, found, kept :
              /\ Records(m, found, kept) /\ m.type = "invoke" /\ m.run = r /\ m.error = error
    BY <1>2, RecordGives
  <1> QED BY <1>1, <1>3

\* The same of a request, which has an id of its own and follows its call.
LEMMA RequestGives ==
    ASSUME TalkTypes, MessagesOK, BranchOK, Len(sent) < MaxSent, NEW r \in Nodes, NEW after,
           NEW call \in Nodes \X Nat, NoCalls \in Lists \cup {NoCalls}, None \in Nodes,
           RecordRequest(r, after, call)
    PROVE  \E m, found, kept :
              /\ Records(m, found, kept) /\ m.type = "request" /\ m.run = r /\ m.of = call
              /\ ~m.error /\ m.id = Len(sent) + 1
  <1>1. PICK error \in BOOLEAN : error = FALSE
    OBVIOUS
  <1>2. Record("request", r, after, call, NoCalls, None, error)
    BY <1>1 DEF RecordRequest
  <1>3. PICK m, found, kept :
              /\ Records(m, found, kept) /\ m.type = "request" /\ m.run = r /\ m.of = call
              /\ m.error = error /\ (~error => m.id = Len(sent) + 1)
    BY <1>2, RecordGives
  <1> QED BY <1>1, <1>3

\* The same of a response, which follows its request.
LEMMA ResponseGives ==
    ASSUME TalkTypes, MessagesOK, BranchOK, Len(sent) < MaxSent, NEW r \in Nodes, NEW after,
           NEW request \in Nodes, NoCalls \in Lists \cup {NoCalls}, None \in Nodes,
           RecordResponse(r, after, request), NEW of, of = <<request, 0>>
    PROVE  \E m, found, kept :
              /\ Records(m, found, kept) /\ m.parent = Parent("response", after, found)
              /\ m.type = "response" /\ m.run = r /\ m.of = of /\ ~m.error
  <1>1. PICK error \in BOOLEAN : error = FALSE
    OBVIOUS
  <1>2. of \in Nodes \X Nat
    OBVIOUS
  <1>3. Record("response", r, after, of, NoCalls, None, error)
    BY <1>1, <1>2 DEF RecordResponse
  <1>4. PICK m, found, kept :
              /\ Records(m, found, kept) /\ m.parent = Parent("response", after, found)
              /\ m.type = "response" /\ m.run = r /\ m.of = of /\ m.error = error
    BY <1>3, RecordGives
  <1> QED BY <1>1, <1>2, <1>4

\* The same of a completion, with the calls it has.
LEMMA CompleteGives ==
    ASSUME TalkTypes, MessagesOK, BranchOK, Len(sent) < MaxSent, NEW r \in Nodes, NEW after,
           NEW calls \in Lists \cup {NoCalls}, NEW state \in Nodes, runs[r].invoke \in Nodes,
           NEW error \in BOOLEAN, RecordComplete(r, after, calls, state, error)
    PROVE  \E m, found, kept :
              /\ Records(m, found, kept) /\ m.type = "complete" /\ m.run = r /\ m.calls = calls
              /\ m.error = error /\ (~error => m.id = Len(sent) + 1)
  <1>1. PICK of \in Nodes \X Nat : of = <<runs[r].invoke, 0>>
    OBVIOUS
  <1>2. Record("complete", r, after, of, calls, state, error)
    BY <1>1 DEF RecordComplete
  <1> QED BY <1>2, RecordGives

\* The messages of before stay, one comes after them.
LEMMA RecordsExtend ==
    ASSUME TalkTypes, NEW m, NEW found, NEW kept, Records(m, found, kept)
    PROVE  /\ Extends /\ sent' \in Seq(Sent) /\ Len(sent') = Len(sent) + 1
           /\ sent'[Len(sent) + 1] = m
           /\ DOMAIN sent' = DOMAIN sent \cup {Len(sent) + 1}
           /\ Len(sent') <= MaxSent
  <1>1. /\ sent' \in Seq(Sent) /\ Len(sent') = Len(sent) + 1 /\ sent'[Len(sent) + 1] = m
        /\ DOMAIN sent' = DOMAIN sent \cup {Len(sent) + 1}
        /\ \A i \in DOMAIN sent : sent'[i] = sent[i]
    BY SeqAppend DEF Records, TalkTypes
  <1>2. Len(sent) \in Nat /\ DOMAIN sent = 1..Len(sent) /\ DOMAIN sent' = 1..Len(sent')
    BY <1>1, SeqElement DEF TalkTypes
  <1> QED BY <1>1, <1>2, ConversationConstants DEF Extends, Records

\* A parent that is not found or a row that is refused is a failure more.
LEMMA CostIs ==
    ASSUME TalkTypes, NEW m, NEW found, NEW kept, Records(m, found, kept)
    PROVE  /\ failures' \in 0..MaxFailures /\ failures <= failures'
           /\ ~found \/ kept # "both" => failures + 1 <= failures'
  BY ConversationConstants DEF Records, Cost, TalkTypes, Outcomes

\* The branch and the table gain the new id or nothing, and lose nothing.
LEMMA InsertKeeps ==
    ASSUME TalkTypes, NEW m, NEW found, NEW kept, Records(m, found, kept)
    PROVE  /\ dag' \in Seq(Nodes) /\ typed' \subseteq ToSet(dag')
           /\ typed \subseteq typed' /\ (kept = "both" => m.id \in typed')
           /\ ToSet(dag) \subseteq ToSet(dag') /\ ToSet(dag') \subseteq ToSet(dag) \cup {m.id}
           /\ typed' \subseteq typed \cup {m.id}
  <1>1. m.id \in Nodes
    BY DEF Records, Sent
  <1>2. \/ dag' = dag /\ (kept = "both" => m.id \in ToSet(dag))
        \/ dag' = Append(dag, m.id)
    BY DEF Records, Insert, Recorded
  <1>3. CASE dag' = Append(dag, m.id)
    <2>1. /\ dag' \in Seq(Nodes) /\ DOMAIN dag' = DOMAIN dag \cup {Len(dag) + 1}
          /\ \A i \in DOMAIN dag : dag'[i] = dag[i]
          /\ dag'[Len(dag) + 1] = m.id
      BY <1>1, <1>3, SeqAppend DEF TalkTypes
    <2>2. ToSet(dag') = ToSet(dag) \cup {m.id}
      BY <2>1 DEF ToSet
    <2> QED BY <2>1, <2>2 DEF Records, Insert, TalkTypes
  <1>4. CASE dag' = dag /\ (kept = "both" => m.id \in ToSet(dag))
    BY <1>4 DEF Records, Insert, TalkTypes
  <1> QED BY <1>2, <1>3, <1>4

\* What a new message stands on.
StandsOn(m) ==
    /\ m.error => m.type = "complete" /\ m.calls = NoCalls
    /\ m.type = "request" => LET c == m.of[1] IN
          /\ c \in DOMAIN sent /\ sent[c].type = "complete" /\ ~sent[c].error
          /\ m.of[2] \in DOMAIN sent[c].calls
    /\ m.type = "response" => LET q == m.of[1] IN
          /\ q \in DOMAIN sent /\ sent[q].type = "request" /\ m.parent \in {Root, q}
          /\ OnlyCalls(sent[q].of[1], Len(sent) + 1, m.run)

\* What comes between two messages of before does not change.
LEMMA OnlyCallsKept ==
    ASSUME Extends, NEW c \in Nat, NEW i \in Nat, i <= Len(sent) + 1, NEW r
    PROVE  OnlyCalls(c, i, r) <=> OnlyCalls(c, i, r)'
  <1>1. ASSUME NEW x \in (c + 1)..(i - 1) PROVE sent'[x] = sent[x]
    <2>1. x \in DOMAIN sent
      BY DEF Extends
    <2> QED BY <2>1 DEF Extends
  <1> QED BY <1>1 DEF OnlyCalls

\* The fields of a message are of their types.
LEMMA MessageTypes ==
    ASSUME TalkTypes, NEW i \in DOMAIN sent
    PROVE  /\ sent[i] \in Sent /\ sent[i].of[1] \in Nat /\ sent[i].of[2] \in Nat
           /\ i \in Nat /\ i # 0 /\ i <= Len(sent)
           /\ Len(sent) \in Nat /\ DOMAIN sent = 1..Len(sent)
  <1>1. sent[i] \in Sent /\ DOMAIN sent = 1..Len(sent) /\ Len(sent) \in Nat
    BY SeqElement DEF TalkTypes
  <1> QED BY <1>1, ConversationConstants DEF Sent, Nodes

\* A message stands on the messages it stood on.
LEMMA MessageKept ==
    ASSUME TalkTypes, Extends, NEW i \in DOMAIN sent, MessageOK(i)
    PROVE  MessageOK(i)'
  <1>1. /\ sent[i] \in Sent /\ i \in Nat /\ i <= Len(sent) /\ Len(sent) \in Nat
        /\ DOMAIN sent = 1..Len(sent)
    BY MessageTypes
  <1>2. sent'[i] = sent[i] /\ \A x \in 1..(i - 1) : x \in DOMAIN sent /\ sent'[x] = sent[x]
    BY <1>1 DEF Extends
  <1>3. IdOK(i)'
    BY <1>2 DEF MessageOK, IdOK
  <1>4. (sent[i].parent \in {Root} \cup DOMAIN sent)'
    BY <1>2 DEF MessageOK, Extends
  <1>5. (sent[i].error => sent[i].type = "complete" /\ sent[i].calls = NoCalls)'
    BY <1>2 DEF MessageOK
  <1>6. (sent[i].type = "request" => CallOK(i))'
    <2> SUFFICES ASSUME sent[i].type = "request" PROVE CallOK(i)'
      BY <1>2
    <2>1. CallOK(i)
      BY DEF MessageOK
    <2>2. sent'[sent[i].of[1]] = sent[sent[i].of[1]]
      BY <1>2, <2>1 DEF CallOK
    <2> QED BY <1>2, <2>1, <2>2 DEF CallOK
  <1>7. (sent[i].type = "response" => ReplyOK(i))'
    <2> SUFFICES ASSUME sent[i].type = "response" PROVE ReplyOK(i)'
      BY <1>2
    <2>1. ReplyOK(i)
      BY DEF MessageOK
    <2> DEFINE q == sent[i].of[1]
    <2>2. q \in 1..(i - 1) /\ q \in DOMAIN sent /\ sent'[q] = sent[q]
      BY <1>2, <2>1 DEF ReplyOK
    <2>3. sent[q].of[1] \in Nat
      BY <2>2, MessageTypes
    <2>4. OnlyCalls(sent[q].of[1], i, sent[i].run)'
        <=> OnlyCalls(sent[q].of[1], i, sent[i].run)
      <3>1. \A r : OnlyCalls(sent[q].of[1], i, r) <=> 
            \A x \in (sent[q].of[1] + 1)..(i - 1) :
                sent[x].run = r => sent[x].type \in {"request", "response"}
        BY DEF OnlyCalls
      <3>2. \A x \in (sent[q].of[1] + 1)..(i - 1) : sent'[x] = sent[x]
        BY <1>2, <2>3
      <3> QED BY <1>2, <2>2, <3>1, <3>2 DEF OnlyCalls
    <2> QED BY <1>2, <2>1, <2>2, <2>4 DEF ReplyOK
  <1> QED BY <1>3, <1>4, <1>5, <1>6, <1>7 DEF MessageOK

\* Every message stands on others when a new one is recorded.
LEMMA MessagesKept ==
    ASSUME TalkTypes, MessagesOK, NEW m, NEW found, NEW kept, Records(m, found, kept), StandsOn(m)
    PROVE  MessagesOK'
  <1>0. Len(sent) \in Nat
    BY SeqElement DEF TalkTypes
  <1> PICK n \in Nat : n = Len(sent) + 1
    BY <1>0
  <1>1. /\ Extends /\ sent' \in Seq(Sent) /\ Len(sent') = n /\ sent'[n] = m
        /\ DOMAIN sent' = DOMAIN sent \cup {n}
    BY RecordsExtend
  <1>2. /\ DOMAIN sent = 1..Len(sent) /\ Len(sent) \in Nat
        /\ DOMAIN sent = 1..(n - 1)
    BY <1>1 DEF Extends
  <1>3. \A x \in 1..(n - 1) : sent'[x] = sent[x]
    BY <1>1, <1>2 DEF Extends
  <1>4. IdOK(n)'
    BY <1>1, <1>2, <1>3 DEF IdOK, Records, NewIdOK
  <1>5. (sent[n].parent \in {Root} \cup DOMAIN sent)'
    BY <1>1 DEF Records
  <1>6. (sent[n].error => sent[n].type = "complete" /\ sent[n].calls = NoCalls)'
    BY <1>1 DEF StandsOn
  <1>7. (sent[n].type = "request" => CallOK(n))'
    BY <1>1, <1>2, <1>3 DEF StandsOn, CallOK
  <1>8. (sent[n].type = "response" => ReplyOK(n))'
    <2> SUFFICES ASSUME m.type = "response" PROVE ReplyOK(n)'
      BY <1>1
    <2> DEFINE q == m.of[1]
    <2>1. /\ q \in DOMAIN sent /\ sent[q].type = "request" /\ m.parent \in {Root, q}
          /\ OnlyCalls(sent[q].of[1], n, m.run)
      BY DEF StandsOn
    <2>2. sent'[q] = sent[q] /\ sent[q].of[1] \in Nat
      BY <1>2, <1>3, <2>1, MessageTypes
    <2>3. \A x \in (sent[q].of[1] + 1)..(n - 1) : sent'[x] = sent[x]
      BY <1>2, <1>3, <2>2
    <2>4. OnlyCalls(sent[q].of[1], n, sent[n].run)'
      BY <1>1, <2>1, <2>2, <2>3 DEF OnlyCalls
    <2> QED BY <1>1, <1>2, <2>1, <2>2, <2>4 DEF ReplyOK
  <1>9. MessageOK(n)'
    BY <1>4, <1>5, <1>6, <1>7, <1>8 DEF MessageOK
  <1> QED BY <1>1, <1>9, MessageKept DEF MessagesOK

\* The branch stays in the order of the messages: a new id is the greatest, or that of an error.
LEMMA BranchKept ==
    ASSUME TalkTypes, BranchOK, NEW m, NEW found, NEW kept, Records(m, found, kept)
    PROVE  BranchOK'
  <1> DEFINE n == Len(sent) + 1
  <1>1. /\ Extends /\ Len(sent') = n /\ sent'[n] = m /\ DOMAIN sent' = DOMAIN sent \cup {n}
    BY RecordsExtend
  <1>2. /\ m.id \in DOMAIN sent' /\ sent'[m.id].id = m.id
        /\ m.id = n \/ (m.id \in DOMAIN sent /\ sent[m.id].error)
    BY <1>1 DEF Records, NewIdOK, Extends
  <1>3. \A k \in DOMAIN dag : /\ dag[k] \in DOMAIN sent' /\ sent'[dag[k]] = sent[dag[k]]
                              /\ sent[dag[k]].id = dag[k]
    BY <1>1 DEF BranchOK, Extends
  <1>4. CASE dag' = dag
    BY <1>3, <1>4 DEF BranchOK
  <1>5. CASE dag' = Append(dag, m.id) /\ ~Recorded(m.id)
    <2> DEFINE last == Len(dag) + 1
    <2>1. m.id \in Nodes
      BY DEF Records, Sent
    <2>2. /\ DOMAIN dag' = DOMAIN dag \cup {last} /\ dag'[last] = m.id
          /\ \A k \in DOMAIN dag : dag'[k] = dag[k]
          /\ DOMAIN dag = 1..Len(dag) /\ Len(dag) \in Nat
      BY <1>5, <2>1, SeqAppend, SeqElement DEF TalkTypes
    <2>3. \A k \in DOMAIN dag' : dag'[k] \in DOMAIN sent' /\ sent'[dag'[k]].id = dag'[k]
      BY <1>2, <1>3, <2>2
    <2>4. ASSUME NEW j \in DOMAIN dag', NEW k \in DOMAIN dag', j < k
          PROVE  dag'[j] < dag'[k] \/ (dag'[j] > dag'[k] /\ sent'[dag'[k]].error)
      <3>1. j \in DOMAIN dag
        BY <2>2, <2>4
      <3>2. CASE k \in DOMAIN dag
        BY <1>3, <2>2, <2>4, <3>1, <3>2 DEF BranchOK
      <3>3. CASE k = last
        <4>1. dag'[k] = m.id /\ dag'[j] = dag[j] /\ dag[j] \in DOMAIN sent /\ dag[j] # m.id
          BY <1>5, <2>2, <3>1, <3>3 DEF BranchOK, Recorded, ToSet
        <4>2. dag[j] \in Nat /\ dag[j] < n /\ m.id \in Nat
          BY <1>1, <1>2, <4>1 DEF Extends
        <4>3. m.id \in DOMAIN sent /\ sent[m.id].error => sent'[m.id].error
          BY <1>1 DEF Extends
        <4> QED BY <1>2, <4>1, <4>2, <4>3
      <3> QED BY <2>2, <3>2, <3>3
    <2> QED BY <2>3, <2>4 DEF BranchOK
  <1> QED BY <1>4, <1>5 DEF Records, Insert

\* What an agent was given keeps standing on messages.
LEMMA GivenKept ==
    ASSUME TalkTypes, MessagesOK, Extends, NEW r, GivenOne(r), runs'[r].given = runs[r].given
    PROVE  GivenOne(r)'
  <1> DEFINE given == runs[r].given
  <1>1. \A k \in DOMAIN given : /\ given[k].from \in DOMAIN sent
                                /\ sent'[given[k].from] = sent[given[k].from]
    BY DEF GivenOne, Extends
  <1>2. ASSUME NEW k \in DOMAIN given, given[k].by = "tool"
        PROVE  LET i == given[k].from
               IN sent[i].type = "response" /\ sent'[sent[i].of[1]] = sent[sent[i].of[1]]
    <2> DEFINE i == given[k].from
    <2>1. i \in DOMAIN sent /\ sent[i].type = "response"
      BY <1>2 DEF GivenOne
    <2>2. sent[i].of[1] \in 1..(i - 1)
      BY <2>1 DEF MessagesOK, MessageOK, ReplyOK
    <2>3. sent[i].of[1] \in DOMAIN sent
      BY <2>1, <2>2 DEF Extends
    <2> QED BY <2>1, <2>3 DEF Extends
  <1>3. \A k \in DOMAIN given : given[k].from \in DOMAIN sent'
    BY <1>1 DEF Extends
  <1>4. \A k \in DOMAIN given : given[k].by = "tool" =>
          /\ sent'[given[k].from].type = "response"
          /\ given[k].call = sent'[sent'[given[k].from].of[1]].of
    <2> SUFFICES ASSUME NEW k \in DOMAIN given, given[k].by = "tool"
                 PROVE  /\ sent'[given[k].from].type = "response"
                        /\ given[k].call = sent'[sent'[given[k].from].of[1]].of
      OBVIOUS
    <2> PICK i : i = given[k].from
      OBVIOUS
    <2>1. given[k].call = sent[sent[i].of[1]].of
      BY DEF GivenOne
    <2>2. sent'[i] = sent[i]
      BY <1>1
    <2>3. sent[i].type = "response" /\ sent'[sent[i].of[1]] = sent[sent[i].of[1]]
      BY <1>2
    <2> QED BY <2>1, <2>2, <2>3
  <1>5. \A j, k \in DOMAIN given :
          j < k => \/ given[j].from < given[k].from
                   \/ given[j].from > given[k].from /\ sent'[given[k].from].error
    BY <1>1 DEF GivenOne
  <1> QED BY <1>3, <1>4, <1>5 DEF GivenOne

\* What an agent was not told of stays as it is.
LEMMA ForgottenKept ==
    ASSUME TalkTypes, Extends, failures' \in Nat, failures <= failures', NEW r \in DOMAIN runs,
           ForgottenPaid, runs[r].at = "dispatched",
           runs'[r].given = runs[r].given, runs'[r].upto = runs[r].upto
    PROVE  runs'[r].upto <= Len(sent') /\ Cardinality(Forgotten(r)') <= failures'
  <1>1. runs[r] \in RunRecord /\ Len(runs) \in Nat
    BY SeqElement DEF TalkTypes
  <1>2. runs[r].upto \in Nat /\ runs[r].upto <= Len(sent) /\ Cardinality(Forgotten(r)) <= failures
    BY <1>1, ConversationConstants DEF ForgottenPaid, RunRecord, Nodes
  <1>3. ASSUME NEW i \in 1..runs[r].upto
        PROVE  sent'[i] = sent[i] /\ i \in DOMAIN sent /\ i \in DOMAIN sent'
    BY <1>2 DEF Extends
  <1>4. \A i \in 1..runs[r].upto : Says(i)' = Says(i) /\ (i \in Repeats' <=> i \in Repeats)
    BY <1>3 DEF Says, Repeats
  <1>5. Forgotten(r)' = Forgotten(r)
    BY <1>4 DEF Forgotten
  <1>6. Forgotten(r) \subseteq 1..runs[r].upto
    BY DEF Forgotten
  <1>7. Cardinality(Forgotten(r)) \in Nat
    <2>1. 1 \in Int /\ runs[r].upto \in Int
      BY <1>2
    <2>2. IsFiniteSet(1..runs[r].upto)
      BY <2>1, FS_Interval
    <2>3. IsFiniteSet(Forgotten(r))
      BY <1>6, <2>2, FS_Subset
    <2> QED BY <2>3, FS_CardinalityType
  <1>8. failures \in Nat
    BY ConversationConstants DEF TalkTypes
  <1> QED BY <1>2, <1>5, <1>7, <1>8 DEF Extends

\* A set that gains at most one element, and one that loses another for it.
LEMMA OneMore ==
    ASSUME NEW D, IsFiniteSet(D), NEW E, NEW n, E \subseteq D \cup {n}
    PROVE  /\ IsFiniteSet(E) /\ Cardinality(E) \in Nat /\ Cardinality(D) \in Nat
           /\ Cardinality(E) <= Cardinality(D) + 1
           /\ \A q \in D \ E : Cardinality(E) <= Cardinality(D)
           /\ E \subseteq D => Cardinality(E) <= Cardinality(D)
  <1>1. /\ IsFiniteSet(D \cup {n}) /\ Cardinality(D) \in Nat
        /\ Cardinality(D \cup {n}) \in Nat /\ Cardinality(D \cup {n}) <= Cardinality(D) + 1
    BY FS_AddElement, FS_CardinalityType
  <1>2. IsFiniteSet(E) /\ Cardinality(E) \in Nat /\ Cardinality(E) <= Cardinality(D \cup {n})
    BY <1>1, FS_Subset, FS_CardinalityType
  <1>3. ASSUME NEW q \in D \ E PROVE Cardinality(E) <= Cardinality(D)
    <2> DEFINE less == D \ {q}
    <2>1. IsFiniteSet(less) /\ Cardinality(less) = Cardinality(D) - 1
      BY <1>3, FS_RemoveElement
    <2> HIDE DEF less
    <2>2. /\ IsFiniteSet(less \cup {n}) /\ Cardinality(less) \in Nat
          /\ Cardinality(less \cup {n}) \in Nat
          /\ Cardinality(less \cup {n}) <= Cardinality(less) + 1
      <3>1. IsFiniteSet(less) /\ Cardinality(less) \in Nat
        BY <2>1, FS_CardinalityType
      <3>2. /\ IsFiniteSet(less \cup {n})
            /\ Cardinality(less \cup {n}) = IF n \in less THEN Cardinality(less)
                                             ELSE Cardinality(less) + 1
        BY <3>1, FS_AddElement
      <3> QED BY <3>1, <3>2
    <2>3. E \subseteq less \cup {n}
      BY <1>3 DEF less
    <2>4. Cardinality(E) <= Cardinality(less \cup {n})
      BY <2>2, <2>3, FS_Subset
    <2> QED BY <1>1, <1>2, <2>1, <2>2, <2>4
  <1>4. E \subseteq D => Cardinality(E) <= Cardinality(D)
    BY FS_Subset
  <1> QED BY <1>1, <1>2, <1>3, <1>4

\* What is lost and what waits can be counted.
LEMMA DueFinite ==
    ASSUME TalkTypes
    PROVE  IsFiniteSet(Lost \cup Waiting) /\ Cardinality(Lost \cup Waiting) \in Nat
  <1>1. DOMAIN sent = 1..Len(sent) /\ 1 \in Int /\ Len(sent) \in Int
    BY SeqElement DEF TalkTypes
  <1>2. IsFiniteSet(DOMAIN sent)
    BY <1>1, FS_Interval
  <1>3. Lost \cup Waiting \subseteq DOMAIN sent
    BY DEF Lost, Waiting
  <1>4. IsFiniteSet(Lost \cup Waiting)
    BY <1>2, <1>3, FS_Subset
  <1> QED BY <1>4, FS_CardinalityType

\* Who waits for the answer of a request that a new message is the answer of.
Answers(m, found) ==
    \E x \in DOMAIN runs :
       /\ runs[x].at = "waiting" /\ runs[x].head = m.of[1] /\ sent[m.of[1]].run = x
       /\ m.parent = IF found /\ Recorded(m.of[1]) THEN m.of[1] ELSE Root
       /\ runs'[x].at # "waiting"

\* Nobody comes to wait but for the new message.
WaitsKept == \A x \in DOMAIN runs' : runs'[x].at = "waiting" =>
    \/ runs'[x].head = Len(sent) + 1
    \/ x \in DOMAIN runs /\ runs[x].at = "waiting" /\ runs'[x].head = runs[x].head

\* No message of before comes to be lost: rows are only added.
LEMMA LostKept ==
    ASSUME TalkTypes, MessagesOK, Extends, typed \subseteq typed', NEW i \in DOMAIN sent,
           i \in Lost'
    PROVE  i \in Lost
  <1>1. sent'[i] = sent[i]
    BY DEF Extends
  <1>2. Says(i) /\ i \notin Repeats
    BY <1>1 DEF Lost, Says, Repeats, Extends
  <1>3. i \notin typed' => i \notin typed
    OBVIOUS
  <1>4. Answered(i) => Answered(i)'
    <2> SUFFICES ASSUME Answered(i) PROVE Answered(i)'
      OBVIOUS
    <2>1. sent[i].parent \in DOMAIN sent
      BY DEF Answered, MessagesOK, MessageOK
    <2> QED BY <1>1, <2>1 DEF Answered, Extends
  <1> QED BY <1>1, <1>2, <1>4 DEF Lost

\* No request of before comes to be one whose answer is lost.
LEMMA WaitingKept ==
    ASSUME TalkTypes, Extends, WaitsKept, typed \subseteq typed', NEW i \in DOMAIN sent,
           i \in Waiting'
    PROVE  i \in Waiting
  <1>1. sent'[i] = sent[i] /\ i # Len(sent) + 1
    BY DEF Extends
  <1> QED BY <1>1 DEF Waiting, WaitsKept

\* A new message that was kept is lost only if its request waited to be: it takes its place.
LEMMA NewLost ==
    ASSUME TalkTypes, MessagesOK, NEW m, NEW found, NEW kept, Records(m, found, kept), StandsOn(m),
           m.type = "response" => Answers(m, found),
           found, kept = "both", Len(sent) + 1 \in Lost' \cup Waiting'
    PROVE  \E q \in Lost \cup Waiting : q \notin Lost' \cup Waiting'
  <1>0. Len(sent) \in Nat
    BY SeqElement DEF TalkTypes
  <1> PICK n \in Nat : n = Len(sent) + 1
    BY <1>0
  <1>1. Extends /\ sent'[n] = m /\ DOMAIN sent' = DOMAIN sent \cup {n}
    BY RecordsExtend
  <1>2. m.id \in typed' /\ typed \subseteq typed' /\ typed' \subseteq typed \cup {m.id}
    BY InsertKeeps
  <1>3. n \notin Waiting'
    <2>1. m.type = "request" => m.id = n
      BY DEF StandsOn, Records, NewIdOK
    <2> QED BY <1>1, <1>2, <2>1 DEF Waiting
  <1>4. n \in Lost'
    BY <1>3
  <1>5. m.id = n
    BY <1>1, <1>4 DEF Lost, Repeats
  <1>6. m.type = "response" /\ ~Answered(n)'
    BY <1>1, <1>2, <1>4, <1>5 DEF Lost
  <1> DEFINE q == m.of[1]
  <1>7. q \in DOMAIN sent /\ sent[q].type = "request" /\ sent'[q] = sent[q] /\ q # n
    BY <1>1, <1>6 DEF StandsOn, Extends
  <1>8. PICK x \in DOMAIN runs :
           /\ runs[x].at = "waiting" /\ runs[x].head = q /\ sent[q].run = x
           /\ m.parent = (IF Recorded(q) THEN q ELSE Root) /\ runs'[x].at # "waiting"
    BY <1>6 DEF Answers
  <1>9. q # Root
    BY <1>1, <1>7 DEF Root, Extends
  <1>10. q \notin typed
    <2>1. CASE Recorded(q)
      <3>1. m.parent = q
        BY <1>8, <2>1
      <3>2. q \notin typed'
        BY <1>1, <1>6, <1>7, <1>9, <3>1 DEF Answered
      <3> QED BY <1>2, <3>2
    <2>2. CASE ~Recorded(q)
      BY <2>2 DEF TalkTypes, Recorded
    <2> QED BY <2>1, <2>2
  <1>11. q \in Waiting
    BY <1>7, <1>8, <1>10 DEF Waiting
  <1>12. q \notin Waiting'
    BY <1>7, <1>8 DEF Waiting
  <1>13. q \notin Lost'
    BY <1>7 DEF Lost, Says
  <1> QED BY <1>11, <1>12, <1>13

\* Whatever is lost more is paid for by a failure more.
LEMMA DueGrows ==
    ASSUME TalkTypes, MessagesOK, LossesPaid, NEW m, NEW found, NEW kept, Records(m, found, kept),
           StandsOn(m), m.type = "response" => Answers(m, found), WaitsKept
    PROVE  LossesPaid'
  <1> DEFINE D == Lost \cup Waiting
             n == Len(sent) + 1
  <1>1. Extends /\ DOMAIN sent' = DOMAIN sent \cup {n}
    BY RecordsExtend
  <1>2. typed \subseteq typed'
    BY InsertKeeps
  <1>3. D' \subseteq D \cup {n}
    <2>1. D' \subseteq DOMAIN sent'
      BY DEF Lost, Waiting
    <2>2. \A i \in DOMAIN sent : i \in D' => i \in D
      BY <1>1, <1>2, LostKept, WaitingKept
    <2> QED BY <1>1, <2>1, <2>2
  <1>4. IsFiniteSet(D) /\ Cardinality(D) \in Nat
    BY DueFinite
  <1>5. /\ failures' \in Nat /\ failures \in Nat /\ failures <= failures'
        /\ ~found \/ kept # "both" => failures + 1 <= failures'
    BY CostIs, ConversationConstants DEF TalkTypes
  <1>6. n \in D' /\ found /\ kept = "both" => \E q \in D : q \notin D'
    BY NewLost
  <1>7. Cardinality(D) <= failures
    BY DEF LossesPaid
  <1>8. found \in BOOLEAN
    BY DEF Records
  <1>11. n \notin D' => D' \subseteq D
    BY <1>3
  <1> HIDE DEF D, n
  <1>9. /\ Cardinality(D') \in Nat /\ Cardinality(D') <= Cardinality(D) + 1
        /\ (\E q \in D : q \notin D') => Cardinality(D') <= Cardinality(D)
        /\ D' \subseteq D => Cardinality(D') <= Cardinality(D)
    BY <1>3, <1>4, OneMore
  <1>10. Cardinality(D') <= failures'
    <2>1. CASE n \notin D'
      BY <1>4, <1>5, <1>7, <1>9, <1>11, <2>1
    <2>2. CASE ~found \/ kept # "both"
      BY <1>4, <1>5, <1>7, <1>9, <2>2
    <2>3. CASE n \in D' /\ found /\ kept = "both"
      BY <1>4, <1>5, <1>6, <1>7, <1>9, <2>3
    <2> QED BY <1>8, <2>1, <2>2, <2>3
  <1> QED BY <1>10 DEF D, LossesPaid

\* A run that goes through the calls of its answer has nothing but calls and answers since.
LEMMA CallingKept ==
    ASSUME TalkTypes, Extends, NEW x, RunOne(x),
           \A i \in DOMAIN sent' \ DOMAIN sent :
               sent'[i].run = x => sent'[i].type \in {"request", "response"},
           runs'[x].at \in Calling => /\ runs[x].at \in Calling
                                      /\ runs'[x].answer = runs[x].answer
                                      /\ runs'[x].next \in DOMAIN sent[runs[x].answer].calls
    PROVE  CallingOK(x)'
  <1> SUFFICES ASSUME runs'[x].at \in Calling
               PROVE  (/\ runs[x].answer \in DOMAIN sent /\ sent[runs[x].answer].type = "complete"
                       /\ ~sent[runs[x].answer].error /\ sent[runs[x].answer].id = runs[x].answer
                       /\ runs[x].next \in DOMAIN sent[runs[x].answer].calls
                       /\ OnlyCalls(runs[x].answer, Len(sent) + 1, x))'
    BY DEF Calling, CallingOK
  <1> DEFINE c == runs[x].answer
  <1>1. /\ c \in DOMAIN sent /\ sent[c].type = "complete" /\ ~sent[c].error /\ sent[c].id = c
        /\ OnlyCalls(c, Len(sent) + 1, x) /\ sent'[c] = sent[c] /\ runs'[x].answer = c
        /\ c \in DOMAIN sent'
    BY DEF RunOne, CallingOK, Extends
  <1>2. c \in Nat
    BY <1>1, MessageTypes
  <1>3. ASSUME NEW i \in (c + 1)..(Len(sent') + 1 - 1), sent'[i].run = x
        PROVE  sent'[i].type \in {"request", "response"}
    <2>1. CASE i \in DOMAIN sent
      <3>1. i \in (c + 1)..(Len(sent) + 1 - 1) /\ sent'[i] = sent[i]
        BY <1>2, <2>1 DEF Extends
      <3> QED BY <1>1, <1>3, <3>1 DEF OnlyCalls
    <2>2. CASE i \notin DOMAIN sent
      BY <1>2, <1>3, <2>2 DEF Extends
    <2> QED BY <2>1, <2>2
  <1>4. OnlyCalls(runs[x].answer, Len(sent) + 1, x)'
    BY <1>1, <1>3 DEF OnlyCalls
  <1> QED BY <1>1, <1>4

\* A run that records calls and answers, or nothing, stands where it stood.
LEMMA RunGoesOn ==
    ASSUME TalkTypes, Extends, NEW x, RunOne(x),
           \A i \in DOMAIN sent' \ DOMAIN sent :
               sent'[i].run = x => sent'[i].type \in {"request", "response"},
           runs'[x].at \in Calling => /\ runs[x].at \in Calling
                                      /\ runs'[x].answer = runs[x].answer
                                      /\ runs'[x].next \in DOMAIN sent[runs[x].answer].calls,
           runs'[x].at = "waiting" => runs[x].at = "waiting" /\ runs'[x].head = runs[x].head
    PROVE  RunOne(x)'
  <1>1. CallingOK(x)'
    BY CallingKept
  <1>2. WaitingOK(x)'
    <2> SUFFICES ASSUME runs'[x].at = "waiting"
                 PROVE  (/\ runs[x].head \in DOMAIN sent /\ sent[runs[x].head].type = "request"
                         /\ sent[runs[x].head].run = x
                         /\ sent[runs[x].head].of[1] = runs[x].answer)'
      BY DEF WaitingOK
    <2>1. runs'[x].at \in Calling /\ runs[x].at = "waiting" /\ runs'[x].head = runs[x].head
      BY DEF Calling
    <2>2. runs'[x].answer = runs[x].answer
      BY <2>1
    <2> QED BY <2>1, <2>2 DEF RunOne, WaitingOK, Extends
  <1> QED BY <1>1, <1>2 DEF RunOne

\* A run is a record of its type, and its number that of a node.
LEMMA RunTypes ==
    ASSUME TalkTypes, NEW r \in DOMAIN runs
    PROVE  /\ runs[r] \in RunRecord /\ r \in Nodes /\ r \in Nat /\ DOMAIN runs = 1..Len(runs)
           /\ Len(runs) \in Nat
  <1>1. /\ runs[r] \in RunRecord /\ DOMAIN runs = 1..Len(runs) /\ Len(runs) \in Nat
        /\ Len(sent) \in Nat
    BY SeqElement DEF TalkTypes
  <1> QED BY <1>1, ConversationConstants DEF TalkTypes, Nodes

\* Set changes one run.
LEMMA SetIs ==
    ASSUME TalkTypes, NEW r \in DOMAIN runs, NEW run \in RunRecord, Set(r, run)
    PROVE  /\ runs' \in Seq(RunRecord) /\ Len(runs') = Len(runs) /\ DOMAIN runs' = DOMAIN runs
           /\ runs'[r] = run /\ \A x \in DOMAIN runs : x # r => runs'[x] = runs[x]
  <1>1. runs \in [1..Len(runs) -> RunRecord] /\ Len(runs) \in Nat
    BY LenProperties DEF TalkTypes
  <1>2. runs' \in [1..Len(runs) -> RunRecord]
    BY <1>1 DEF Set
  <1>3. runs' \in Seq(RunRecord) /\ Len(runs') = Len(runs)
    BY <1>1, <1>2
  <1> QED BY <1>1, <1>3 DEF Set

\* A run that is set waits for no other, so that each caller still has its one run.
LEMMA CallersSet ==
    ASSUME CallersOK, NEW r \in DOMAIN runs, DOMAIN runs' = DOMAIN runs,
           \A x \in DOMAIN runs : runs'[x].by = runs[x].by,
           \A x \in DOMAIN runs : x # r => runs'[x].at = runs[x].at,
           runs[r].at \notin {"delegating", "done"}
    PROVE  CallersOK'
  <1>1. \A x \in DOMAIN runs : Delegated(x)' => Delegated(x)
    BY DEF Delegated
  <1>2. ASSUME NEW x \in DOMAIN runs, Delegated(x)'
        PROVE  runs'[runs'[x].by].at = "delegating"
    <2>1. Delegated(x) /\ runs[runs[x].by].at = "delegating" /\ runs[x].by \in DOMAIN runs
      BY <1>1, <1>2 DEF CallersOK, Delegated
    <2> QED BY <2>1
  <1>3. \A x \in DOMAIN runs' : runs'[x].by \in Clients \cup DOMAIN runs'
    BY DEF CallersOK
  <1>4. \A x, q \in DOMAIN runs' :
            Delegated(x)' /\ Delegated(q)' /\ runs'[x].by = runs'[q].by => x = q
    BY <1>1 DEF CallersOK
  <1> QED BY <1>2, <1>3, <1>4 DEF CallersOK

\* What an agent was given stays with its run or goes.
GivenStays ==
    \A x \in DOMAIN runs' :
        /\ runs'[x].given = <<>> \/ (x \in DOMAIN runs /\ runs'[x].given = runs[x].given)
        /\ runs'[x].at = "dispatched" =>
              /\ x \in DOMAIN runs /\ runs[x].at = "dispatched"
              /\ runs'[x].given = runs[x].given /\ runs'[x].upto = runs[x].upto

\* What every agent was given stands on messages after a step that gives nothing new.
LEMMA GivenOKKept ==
    ASSUME TalkTypes, MessagesOK, Extends, GivenOK, GivenStays
    PROVE  GivenOK'
  <1> SUFFICES ASSUME NEW x \in DOMAIN runs' PROVE GivenOne(x)'
    BY DEF GivenOK
  <1>1. CASE runs'[x].given = <<>>
    BY <1>1 DEF GivenOne
  <1>2. CASE x \in DOMAIN runs /\ runs'[x].given = runs[x].given
    BY <1>2, GivenKept DEF GivenOK
  <1> QED BY <1>1, <1>2 DEF GivenStays

\* What every agent was not told of is still paid for after such a step.
LEMMA ForgottenOKKept ==
    ASSUME TalkTypes, Extends, ForgottenPaid, GivenStays, failures' \in Nat, failures <= failures'
    PROVE  ForgottenPaid'
  <1> SUFFICES ASSUME NEW x \in DOMAIN runs', runs'[x].at = "dispatched"
               PROVE  runs'[x].upto <= Len(sent') /\ Cardinality(Forgotten(x)') <= failures'
    BY DEF ForgottenPaid
  <1>1. /\ x \in DOMAIN runs /\ runs[x].at = "dispatched"
        /\ runs'[x].given = runs[x].given /\ runs'[x].upto = runs[x].upto
    BY DEF GivenStays
  <1> QED BY <1>1, ForgottenKept

\* A message is recorded and the runs go on.
LEMMA Written ==
    ASSUME TalkInv, NEW m, NEW found, NEW kept, Records(m, found, kept), StandsOn(m),
           m.type = "response" => Answers(m, found), WaitsKept, GivenStays, RunsOK', CallersOK',
           runs' \in Seq(RunRecord), Len(runs') <= Len(sent) + 1,
           bases' \in [Clients -> [parent : Nodes, state : Nodes]]
    PROVE  TalkInv'
  <1>1. /\ TalkTypes /\ MessagesOK /\ BranchOK /\ GivenOK /\ RunsOK /\ CallersOK
        /\ LossesPaid /\ ForgottenPaid
    BY DEF TalkInv
  <1>2. /\ Extends /\ sent' \in Seq(Sent) /\ Len(sent') = Len(sent) + 1 /\ Len(sent') <= MaxSent
    BY <1>1, RecordsExtend
  <1>3. failures' \in 0..MaxFailures /\ failures <= failures'
    BY <1>1, CostIs
  <1>4. failures' \in Nat
    BY <1>3, ConversationConstants
  <1>5. dag' \in Seq(Nodes) /\ typed' \subseteq ToSet(dag')
    BY <1>1, InsertKeeps
  <1>6. TalkTypes'
    BY <1>2, <1>3, <1>5 DEF TalkTypes
  <1>7. MessagesOK' /\ BranchOK'
    BY <1>1, MessagesKept, BranchKept
  <1>8. GivenOK' /\ ForgottenPaid'
    BY <1>1, <1>2, <1>3, <1>4, GivenOKKept, ForgottenOKKept
  <1>9. LossesPaid'
    BY <1>1, DueGrows
  <1> QED BY <1>6, <1>7, <1>8, <1>9 DEF TalkInv

\* The number of a new message is in bounds, and that of a new run.
LEMMA NewIdIs ==
    ASSUME TalkTypes, Len(sent) < MaxSent
    PROVE  NewId \in Nodes /\ Len(runs) + 1 \in Nodes /\ 0 \in Nodes /\ Len(runs) \in Nat
  BY SeqElement, ConversationConstants DEF TalkTypes, NewId, Nodes

\* What a new run is.
LEMMA RunIs ==
    ASSUME TalkTypes, Len(sent) < MaxSent, NEW y \in Clients \cup Nodes
    PROVE  Run(y) \in RunRecord /\ Run(y).at = "invoked" /\ Run(y).by = y /\ Run(y).given = <<>>
  <1>1. NewId \in Nodes /\ 0 \in Nodes /\ 0 \in Nat
    BY NewIdIs
  <1>2. <<>> \in Seq(Said)
    BY EmptySeq
  <1> QED BY <1>1, <1>2 DEF Run, RunRecord, Stages

\* A message may follow none, and call nothing.
LEMMA NoOfIs == ASSUME TalkTypes PROVE NoOf \in Nodes \X Nat /\ NoCalls \in Lists \cup {NoCalls}
  BY ConversationConstants DEF NoOf, Nodes

\* A run that does not change stands where it stood when others record messages.
LEMMA RunUnmoved ==
    ASSUME TalkTypes, Extends, NEW x, RunOne(x), runs'[x] = runs[x],
           \A i \in DOMAIN sent' \ DOMAIN sent :
               sent'[i].run = x => sent'[i].type \in {"request", "response"}
    PROVE  RunOne(x)'
  <1>1. runs'[x].at \in Calling => runs'[x].next \in DOMAIN sent[runs[x].answer].calls
    BY DEF RunOne, CallingOK
  <1>2. runs'[x].at \in Calling => runs[x].at \in Calling /\ runs'[x].answer = runs[x].answer
    OBVIOUS
  <1>3. runs'[x].at = "waiting" => runs[x].at = "waiting" /\ runs'[x].head = runs[x].head
    OBVIOUS
  <1> QED BY <1>1, <1>2, <1>3, RunGoesOn

\* A new run, whose first message is an invoke, comes after the others.
LEMMA NewRun ==
    ASSUME TalkInv, Len(sent) < MaxSent, NEW y \in Clients \cup Nodes, NEW old \in Seq(RunRecord),
           Len(old) = Len(runs), runs' = Append(old, Run(y)),
           \A x \in DOMAIN runs : /\ old[x].given = runs[x].given /\ old[x].answer = runs[x].answer
                                  /\ old[x].next = runs[x].next /\ old[x].upto = runs[x].upto
                                  /\ old[x].head = runs[x].head
                                  /\ \/ old[x].at = runs[x].at
                                     \/ runs[x].at \in Calling /\ old[x].at = "delegating",
           NEW after, NEW state \in Nodes,
           RecordInvoke(Len(runs) + 1, after, NoOf, state),
           bases' \in [Clients -> [parent : Nodes, state : Nodes]], CallersOK'
    PROVE  TalkInv'
  <1>1. /\ TalkTypes /\ MessagesOK /\ BranchOK /\ RunsOK
    BY DEF TalkInv
  <1>0. Len(runs) \in Nat
    BY <1>1, NewIdIs
  <1> PICK new \in Nat : new = Len(runs) + 1
    BY <1>0
  <1>2. /\ Run(y) \in RunRecord /\ Run(y).at = "invoked" /\ Run(y).given = <<>>
        /\ new \in Nodes /\ Len(runs) \in Nat
    BY <1>1, RunIs, NewIdIs
  <1>3. /\ runs' \in Seq(RunRecord) /\ Len(runs') = new /\ DOMAIN runs' = DOMAIN runs \cup {new}
        /\ runs'[new] = Run(y) /\ \A x \in DOMAIN runs : runs'[x] = old[x]
        /\ new \notin DOMAIN runs
    <2>1. DOMAIN runs = 1..Len(runs) /\ DOMAIN old = 1..Len(runs)
      BY <1>1, SeqElement DEF TalkTypes
    <2> QED BY <1>2, <2>1, SeqAppend
  <1>4. PICK m, found, kept :
              Records(m, found, kept) /\ m.type = "invoke" /\ m.run = new /\ ~m.error
    <2>1. NoOf \in Nodes \X Nat /\ NoCalls \in Lists \cup {NoCalls}
      BY <1>1, NoOfIs
    <2>2. RecordInvoke(new, after, NoOf, state)
      OBVIOUS
    <2> QED BY <1>1, <1>2, <2>1, <2>2, InvokeGives
  <1>5. StandsOn(m)
    BY <1>4 DEF StandsOn
  <1>6. /\ Extends /\ sent'[Len(sent) + 1] = m /\ DOMAIN sent' = DOMAIN sent \cup {Len(sent) + 1}
    BY <1>1, <1>4, RecordsExtend
  <1>7. ASSUME NEW x \in DOMAIN runs'
        PROVE  /\ RunOne(x)'
               /\ runs'[x].given = <<>> \/ (x \in DOMAIN runs /\ runs'[x].given = runs[x].given)
               /\ runs'[x].at = "dispatched" =>
                     /\ x \in DOMAIN runs /\ runs[x].at = "dispatched"
                     /\ runs'[x].given = runs[x].given /\ runs'[x].upto = runs[x].upto
               /\ runs'[x].at = "waiting" =>
                     /\ x \in DOMAIN runs /\ runs[x].at = "waiting" /\ runs'[x].head = runs[x].head
    <2>1. CASE x = new
      BY <1>2, <1>3, <2>1 DEF RunOne, CallingOK, WaitingOK, Calling
    <2>2. CASE x \in DOMAIN runs
      <3>1. /\ runs'[x].given = runs[x].given /\ runs'[x].answer = runs[x].answer
            /\ runs'[x].next = runs[x].next /\ runs'[x].upto = runs[x].upto
            /\ runs'[x].head = runs[x].head
            /\ \/ runs'[x].at = runs[x].at
               \/ runs[x].at \in Calling /\ runs'[x].at = "delegating"
        BY <1>3, <2>2
      <3>2. RunOne(x)
        BY <1>1, <2>2 DEF RunsOK
      <3>3. \A i \in DOMAIN sent' \ DOMAIN sent : sent'[i].run # x
        BY <1>3, <1>4, <1>6, <2>2
      <3>4. runs'[x].at \in Calling => /\ runs[x].at \in Calling
                                       /\ runs'[x].answer = runs[x].answer
                                       /\ runs'[x].next \in DOMAIN sent[runs[x].answer].calls
        BY <3>1, <3>2 DEF RunOne, CallingOK
      <3>5. runs'[x].at = "waiting" => runs[x].at = "waiting" /\ runs'[x].head = runs[x].head
        BY <3>1
      <3>6. RunOne(x)'
        BY <1>1, <1>6, <3>2, <3>3, <3>4, <3>5, RunGoesOn
      <3> QED BY <2>2, <3>1, <3>6
    <2> QED BY <1>3, <2>1, <2>2
  <1>8. RunsOK' /\ GivenStays /\ WaitsKept
    BY <1>7 DEF RunsOK, GivenStays, WaitsKept
  <1>9. Len(runs') <= Len(sent) + 1
    BY <1>1, <1>2, <1>3, <1>6 DEF TalkTypes, Extends
  <1> QED BY <1>3, <1>4, <1>5, <1>8, <1>9, Written

\* A client begins a run on the branch.
LEMMA StartStep ==
    ASSUME TalkInv, NEW c \in Clients, NEW base \in [parent : Nodes, state : Nodes], Start(c, base)
    PROVE  TalkInv'
  <1>1. TalkTypes /\ CallersOK
    BY DEF TalkInv
  <1>2. /\ Len(sent) < MaxSent /\ runs' = Append(runs, Run(c))
        /\ RecordInvoke(Len(runs) + 1, base.parent, NoOf, base.state)
        /\ bases' = [bases EXCEPT ![c] = base]
    BY DEF Start
  <1>3. base.state \in Nodes /\ runs \in Seq(RunRecord)
    BY <1>1 DEF TalkTypes
  <1>4. bases' \in [Clients -> [parent : Nodes, state : Nodes]]
    BY <1>1, <1>2 DEF TalkTypes
  <1>5. CallersOK'
    <2>0. Len(runs) \in Nat
      BY <1>1, NewIdIs, <1>2
    <2> PICK new \in Nat : new = Len(runs) + 1
      BY <2>0
    <2>1. Run(c) \in RunRecord /\ Run(c).by = c
      BY <1>1, <1>2, RunIs
    <2>2. /\ DOMAIN runs' = DOMAIN runs \cup {new} /\ runs'[new] = Run(c)
          /\ \A x \in DOMAIN runs : runs'[x] = runs[x]
      BY <1>2, <1>3, <2>1, SeqAppend
    <2>3. ~Delegated(new)'
      BY <2>1, <2>2 DEF Delegated
    <2>4. \A x \in DOMAIN runs : Delegated(x)' <=> Delegated(x)
      BY <2>2 DEF Delegated
    <2>5. \A x \in DOMAIN runs' : runs'[x].by \in Clients \cup DOMAIN runs'
      BY <1>1, <2>1, <2>2 DEF CallersOK
    <2>6. ASSUME NEW x \in DOMAIN runs', Delegated(x)'
          PROVE  /\ x \in DOMAIN runs /\ Delegated(x) /\ runs'[x] = runs[x]
                 /\ runs'[runs'[x].by].at = "delegating"
      <3>1. x \in DOMAIN runs /\ Delegated(x) /\ runs'[x] = runs[x]
        BY <2>2, <2>3, <2>4, <2>6
      <3>2. runs[x].by \in DOMAIN runs /\ runs[runs[x].by].at = "delegating"
        BY <1>1, <3>1 DEF CallersOK, Delegated
      <3> QED BY <2>2, <3>1, <3>2
    <2>7. \A x, q \in DOMAIN runs' :
             Delegated(x)' /\ Delegated(q)' /\ runs'[x].by = runs'[q].by => x = q
      BY <1>1, <2>6 DEF CallersOK
    <2> QED BY <2>5, <2>6, <2>7 DEF CallersOK
  <1> QED BY <1>2, <1>3, <1>4, <1>5, NewRun

\* A terminal session resolves the tip of the branch.
LEMMA OpenStep == ASSUME TalkInv, NEW c \in Clients, Open(c) PROVE TalkInv'
  <1>1. TalkTypes /\ BranchOK
    BY DEF TalkInv
  <1>2. 0 \in Nodes
    BY ConversationConstants DEF Nodes
  <1>3. CASE dag = <<>>
    <2>1. Tip \in [parent : Nodes, state : Nodes]
      BY <1>2, <1>3 DEF Tip, Root, None
    <2> QED BY <2>1, StartStep DEF Open
  <1>4. CASE dag # <<>>
    <2>1. Len(dag) \in DOMAIN dag /\ Last(dag) = dag[Len(dag)]
      BY <1>1, <1>4, SeqElement, EmptySeq DEF TalkTypes, Last
    <2>2. Last(dag) \in DOMAIN sent /\ Last(dag) \in Nodes
      BY <1>1, <2>1, SeqElement DEF TalkTypes, BranchOK
    <2>3. sent[Last(dag)].state \in Nodes
      <3>1. sent[Last(dag)] \in Sent
        BY <1>1, <2>2, SeqElement DEF TalkTypes
      <3> QED BY <3>1 DEF Sent
    <2>4. Tip \in [parent : Nodes, state : Nodes]
      BY <1>2, <1>4, <2>2, <2>3 DEF Tip, Root, None
    <2> QED BY <2>4, StartStep DEF Open
  <1> QED BY <1>3, <1>4

\* A session asks again, on the tip that it resolved.
LEMMA AskStep == ASSUME TalkInv, NEW c \in Clients, Ask(c) PROVE TalkInv'
  <1>1. bases[c] \in [parent : Nodes, state : Nodes]
    BY DEF TalkInv, TalkTypes
  <1> QED BY <1>1, StartStep DEF Ask

\* A run begins another and waits for it.
LEMMA DelegateStep == ASSUME TalkInv, NEW r \in DOMAIN runs, Delegate(r) PROVE TalkInv'
  <1>1. TalkTypes /\ CallersOK
    BY DEF TalkInv
  <1> PICK old : old = [runs EXCEPT ![r].at = "delegating"]
    OBVIOUS
  <1>0. Len(runs) \in Nat
    BY <1>1, RunTypes
  <1> PICK new \in Nat : new = Len(runs) + 1
    BY <1>0
  <1>2. /\ Len(sent) < MaxSent /\ runs' = Append(old, Run(r)) /\ runs[r].at = "calling"
        /\ RecordInvoke(Len(runs) + 1, runs[r].head, NoOf, None)
        /\ bases' = bases
    BY DEF Delegate, Asks
  <1>3. r \in Nodes /\ runs[r] \in RunRecord
    BY <1>1, RunTypes
  <1>4. [runs[r] EXCEPT !.at = "delegating"] \in RunRecord
    BY <1>3 DEF RunRecord, Stages
  <1>5. /\ old \in Seq(RunRecord) /\ Len(old) = Len(runs) /\ DOMAIN old = DOMAIN runs
        /\ old[r] = [runs[r] EXCEPT !.at = "delegating"]
        /\ \A x \in DOMAIN runs : x # r => old[x] = runs[x]
    <2>1. runs \in [1..Len(runs) -> RunRecord] /\ Len(runs) \in Nat
      BY <1>1, LenProperties DEF TalkTypes
    <2>2. old \in [1..Len(runs) -> RunRecord]
      BY <1>4, <2>1
    <2>3. old \in Seq(RunRecord) /\ Len(old) = Len(runs)
      BY <2>1, <2>2
    <2> QED BY <2>1, <2>3
  <1>6. ASSUME NEW x \in DOMAIN runs
        PROVE  /\ old[x].given = runs[x].given /\ old[x].answer = runs[x].answer
               /\ old[x].next = runs[x].next /\ old[x].upto = runs[x].upto
               /\ old[x].head = runs[x].head /\ old[x].by = runs[x].by
               /\ \/ old[x].at = runs[x].at
                  \/ runs[x].at \in Calling /\ old[x].at = "delegating"
    <2>1. CASE x = r
      BY <1>2, <1>3, <1>5, <2>1 DEF Calling, RunRecord
    <2>2. CASE x # r
      BY <1>5, <2>2
    <2> QED BY <2>1, <2>2
  <1>7. bases' \in [Clients -> [parent : Nodes, state : Nodes]]
    BY <1>1, <1>2 DEF TalkTypes
  <1>8. None \in Nodes
    BY ConversationConstants DEF Nodes, None
  <1>9. CallersOK'
    <2>1. Run(r) \in RunRecord /\ Run(r).by = r
      BY <1>1, <1>2, <1>3, RunIs
    <2>2. /\ DOMAIN runs' = DOMAIN runs \cup {new} /\ runs'[new] = Run(r)
          /\ \A x \in DOMAIN runs : runs'[x] = old[x]
      BY <1>2, <1>5, <2>1, SeqAppend
    <2>3. runs'[r].at = "delegating"
      BY <1>3, <1>5, <2>2 DEF RunRecord
    <2>4. \A x \in DOMAIN runs : /\ runs'[x].by = runs[x].by
                                 /\ runs'[x].at = IF x = r THEN "delegating" ELSE runs[x].at
      BY <1>5, <1>6, <2>2, <2>3
    <2>5. \A x \in DOMAIN runs : Delegated(x)' <=> Delegated(x)
      BY <1>2, <2>4 DEF Delegated
    <2>6. \A x \in DOMAIN runs' : runs'[x].by \in Clients \cup DOMAIN runs'
      BY <1>1, <1>3, <2>1, <2>2, <2>4 DEF CallersOK
    <2>7. ASSUME NEW x \in DOMAIN runs, Delegated(x)'
          PROVE  Delegated(x) /\ runs'[x].by # r /\ runs'[runs'[x].by].at = "delegating"
      <3>1. Delegated(x) /\ runs[x].by \in DOMAIN runs /\ runs[runs[x].by].at = "delegating"
        BY <1>1, <2>5, <2>7 DEF CallersOK, Delegated
      <3> QED BY <1>2, <2>4, <3>1
    <2>8. \A x \in DOMAIN runs' : Delegated(x)' => runs'[runs'[x].by].at = "delegating"
      BY <2>1, <2>2, <2>3, <2>7
    <2>9. \A x, q \in DOMAIN runs' :
             Delegated(x)' /\ Delegated(q)' /\ runs'[x].by = runs'[q].by => x = q
      <3> SUFFICES ASSUME NEW x \in DOMAIN runs', NEW q \in DOMAIN runs', Delegated(x)',
                          Delegated(q)', runs'[x].by = runs'[q].by
                   PROVE  x = q
        OBVIOUS
      <3>1. CASE x \in DOMAIN runs /\ q \in DOMAIN runs
        BY <1>1, <2>4, <2>7, <3>1 DEF CallersOK
      <3>2. CASE x = new \/ q = new
        BY <2>1, <2>2, <2>7, <3>2
      <3> QED BY <2>2, <3>1, <3>2
    <2> QED BY <2>6, <2>8, <2>9 DEF CallersOK
  <1>10. /\ r \in Clients \cup Nodes /\ old \in Seq(RunRecord) /\ Len(old) = Len(runs)
         /\ runs' = Append(old, Run(r))
    BY <1>2, <1>3, <1>5
  <1>11. RecordInvoke(Len(runs) + 1, runs[r].head, NoOf, None) /\ Len(sent) < MaxSent
    BY <1>2
  <1> QED BY <1>6, <1>7, <1>8, <1>9, <1>10, <1>11, NewRun

\* Proceed goes to the next call or ends the turn, and changes nothing else.
LEMMA ProceedIs ==
    ASSUME TalkTypes, NEW run \in RunRecord, run.answer \in DOMAIN sent,
           run.next \in DOMAIN sent[run.answer].calls
    PROVE  /\ Proceed(run) \in RunRecord /\ Proceed(run).at \in {"calling", "ended"}
           /\ Proceed(run).by = run.by /\ Proceed(run).answer = run.answer
           /\ Proceed(run).given = run.given /\ Proceed(run).upto = run.upto
           /\ Proceed(run).next \in DOMAIN sent[run.answer].calls
  <1> DEFINE calls == sent[run.answer].calls
  <1>1. sent[run.answer] \in Sent
    BY MessageTypes
  <1>2. calls \in Lists \cup {NoCalls}
    BY <1>1 DEF Sent
  <1>3. calls \in Seq({"tool", "delegate"})
    BY <1>2, ConversationConstants, EmptySeq DEF NoCalls
  <1>4. DOMAIN calls = 1..Len(calls) /\ Len(calls) \in Nat
    BY <1>3, SeqElement
  <1> HIDE DEF calls
  <1>5. run.next \in Nat /\ run.next \in DOMAIN calls
    BY DEF RunRecord, calls
  <1>6. CASE run.next < Len(calls)
    <2>1. Proceed(run) = [run EXCEPT !.at = "calling", !.next = @ + 1]
      BY <1>6 DEF Proceed, calls
    <2>2. run.next + 1 \in Nat /\ run.next + 1 \in DOMAIN calls
      BY <1>4, <1>5, <1>6
    <2> QED BY <2>1, <2>2 DEF RunRecord, Stages, calls
  <1>7. CASE ~(run.next < Len(calls))
    <2>1. Proceed(run) = [run EXCEPT !.at = "ended"]
      BY <1>7 DEF Proceed, calls
    <2> QED BY <2>1 DEF RunRecord, Stages
  <1> QED BY <1>6, <1>7

\* The parts of the invariant.
LEMMA InvParts ==
    ASSUME TalkInv
    PROVE  /\ TalkTypes /\ MessagesOK /\ BranchOK /\ GivenOK /\ RunsOK /\ CallersOK
           /\ LossesPaid /\ ForgottenPaid
  BY DEF TalkInv

\* A run that has sent a message goes on, its caller or client waiting.
LEMMA SetStep ==
    ASSUME TalkInv, NEW r \in DOMAIN runs, NEW run \in RunRecord, Set(r, run),
           run.by = runs[r].by, runs[r].at \notin {"delegating", "done"}, run.at # "dispatched",
           run.given = <<>> \/ run.given = runs[r].given,
           run.at = "waiting" => run.head = Len(sent) + 1,
           NEW m, NEW found, NEW kept, Records(m, found, kept), StandsOn(m), m.run = r,
           m.type = "response" => Answers(m, found), RunOne(r)', bases' = bases
    PROVE  TalkInv'
  <1>1. TalkTypes /\ RunsOK /\ CallersOK
    BY InvParts
  <1>2. /\ runs' \in Seq(RunRecord) /\ Len(runs') = Len(runs) /\ DOMAIN runs' = DOMAIN runs
        /\ runs'[r] = run /\ \A x \in DOMAIN runs : x # r => runs'[x] = runs[x]
    BY <1>1, SetIs
  <1>3. /\ Extends /\ sent'[Len(sent) + 1] = m /\ DOMAIN sent' = DOMAIN sent \cup {Len(sent) + 1}
    BY <1>1, RecordsExtend
  <1>4. ASSUME NEW x \in DOMAIN runs' PROVE RunOne(x)'
    <2>1. CASE x = r
      BY <2>1
    <2>2. CASE x # r
      <3>1. RunOne(x) /\ runs'[x] = runs[x]
        BY <1>1, <1>2, <1>4, <2>2 DEF RunsOK
      <3>2. \A i \in DOMAIN sent' \ DOMAIN sent : sent'[i].run # x
        BY <1>3, <2>2
      <3> QED BY <1>1, <1>3, <3>1, <3>2, RunUnmoved
    <2> QED BY <2>1, <2>2
  <1>5. CallersOK'
    <2>1. /\ \A x \in DOMAIN runs : runs'[x].by = runs[x].by
          /\ \A x \in DOMAIN runs : x # r => runs'[x].at = runs[x].at
      BY <1>2
    <2> QED BY <1>1, <1>2, <2>1, CallersSet
  <1>6. GivenStays
    <2> SUFFICES ASSUME NEW x \in DOMAIN runs'
                 PROVE  /\ \/ runs'[x].given = <<>>
                           \/ x \in DOMAIN runs /\ runs'[x].given = runs[x].given
                        /\ runs'[x].at = "dispatched" =>
                              /\ x \in DOMAIN runs /\ runs[x].at = "dispatched"
                              /\ runs'[x].given = runs[x].given /\ runs'[x].upto = runs[x].upto
      BY DEF GivenStays
    <2>1. CASE x = r
      BY <1>2, <2>1
    <2>2. CASE x # r
      BY <1>2, <2>2
    <2> QED BY <2>1, <2>2
  <1>7. WaitsKept
    BY <1>2 DEF WaitsKept
  <1>8. RunsOK'
    BY <1>4 DEF RunsOK
  <1>9. Len(runs') <= Len(sent) + 1
    BY <1>1, <1>2, <1>3 DEF TalkTypes, Extends
  <1>10. bases' \in [Clients -> [parent : Nodes, state : Nodes]]
    BY <1>1 DEF TalkTypes
  <1> QED BY <1>2, <1>5, <1>6, <1>7, <1>8, <1>9, <1>10, Written

\* The root is a node, and calling nothing a list of calls.
LEMMA ConstantsIn ==
    ASSUME TalkTypes PROVE None \in Nodes /\ NoCalls \in Lists \cup {NoCalls} /\ Root \in Nodes
  BY ConversationConstants DEF Nodes, None, Root

\* A request is sent for the next call.
LEMMA CallToolStep == ASSUME TalkInv, NEW r \in DOMAIN runs, CallTool(r) PROVE TalkInv'
  <1>1. TalkTypes /\ MessagesOK /\ BranchOK /\ RunsOK
    BY InvParts
  <1> PICK run : run = [runs[r] EXCEPT !.at = "waiting", !.head = NewId]
    OBVIOUS
  <1>2. /\ runs[r].at = "calling" /\ Len(sent) < MaxSent /\ Set(r, run) /\ bases' = bases
        /\ RecordRequest(r, runs[r].head, <<runs[r].answer, runs[r].next>>)
    BY DEF CallTool, Asks
  <1>3. runs[r] \in RunRecord /\ r \in Nodes
    BY <1>1, RunTypes
  <1>4. NewId \in Nodes
    BY <1>1, <1>2, NewIdIs
  <1>5. /\ run \in RunRecord /\ run.by = runs[r].by /\ run.at = "waiting" /\ run.head = NewId
        /\ run.given = runs[r].given /\ run.answer = runs[r].answer /\ run.next = runs[r].next
    BY <1>3, <1>4 DEF RunRecord, Stages
  <1>6. PICK call \in Nodes \X Nat : call = <<runs[r].answer, runs[r].next>>
    BY <1>3 DEF RunRecord
  <1>7. PICK m, found, kept :
              /\ Records(m, found, kept) /\ m.type = "request" /\ m.run = r /\ m.of = call
              /\ ~m.error /\ m.id = Len(sent) + 1
    BY <1>1, <1>2, <1>3, <1>6, ConstantsIn, RequestGives
  <1>8. RunOne(r) /\ runs[r].at \in Calling
    BY <1>1, <1>2 DEF RunsOK, Calling
  <1>9. StandsOn(m)
    BY <1>6, <1>7, <1>8 DEF StandsOn, RunOne, CallingOK
  <1>10. /\ Extends /\ sent'[Len(sent) + 1] = m /\ DOMAIN sent' = DOMAIN sent \cup {Len(sent) + 1}
    BY <1>1, <1>7, RecordsExtend
  <1>11. runs'[r] = run
    BY <1>1, <1>2, <1>5, SetIs
  <1>12. RunOne(r)'
    <2>1. \A i \in DOMAIN sent' \ DOMAIN sent : sent'[i].type \in {"request", "response"}
      BY <1>7, <1>10
    <2>2. /\ runs'[r].answer = runs[r].answer
          /\ runs'[r].next \in DOMAIN sent[runs[r].answer].calls
      BY <1>5, <1>8, <1>11 DEF RunOne, CallingOK
    <2>3. CallingOK(r)'
      BY <1>1, <1>8, <1>10, <2>1, <2>2, CallingKept
    <2>4. WaitingOK(r)'
      BY <1>5, <1>6, <1>7, <1>10, <1>11 DEF WaitingOK, NewId
    <2> QED BY <2>3, <2>4 DEF RunOne
  <1>13. run.head = Len(sent) + 1 /\ m.type # "response"
    BY <1>5, <1>7 DEF NewId
  <1> QED BY <1>2, <1>5, <1>7, <1>9, <1>12, <1>13, SetStep

\* The response of the request that the run waits for is recorded.
LEMMA ReceiveStep == ASSUME TalkInv, NEW r \in DOMAIN runs, Receive(r) PROVE TalkInv'
  <1>1. TalkTypes /\ MessagesOK /\ BranchOK /\ RunsOK
    BY InvParts
  <1> PICK old : old = [runs[r] EXCEPT !.head = NewId]
    OBVIOUS
  <1> PICK run : run = Proceed(old)
    OBVIOUS
  <1> PICK q : q = runs[r].head
    OBVIOUS
  <1>2. /\ runs[r].at = "waiting" /\ Len(sent) < MaxSent /\ Set(r, run) /\ bases' = bases
        /\ RecordResponse(r, q, q)
    BY DEF Receive
  <1>3. runs[r] \in RunRecord /\ r \in Nodes /\ q \in Nodes
    BY <1>1, RunTypes DEF RunRecord
  <1>4. NewId \in Nodes
    BY <1>1, <1>2, NewIdIs
  <1>5. RunOne(r) /\ runs[r].at \in Calling
    BY <1>1, <1>2 DEF RunsOK, Calling
  <1>6. /\ old \in RunRecord /\ old.by = runs[r].by /\ old.answer = runs[r].answer
        /\ old.given = runs[r].given /\ old.next = runs[r].next
    BY <1>3, <1>4 DEF RunRecord
  <1>7. old.answer \in DOMAIN sent /\ old.next \in DOMAIN sent[old.answer].calls
    BY <1>5, <1>6 DEF RunOne, CallingOK
  <1>8. /\ run \in RunRecord /\ run.at \in {"calling", "ended"} /\ run.by = runs[r].by
        /\ run.answer = runs[r].answer /\ run.given = runs[r].given
        /\ run.next \in DOMAIN sent[runs[r].answer].calls
    BY <1>1, <1>6, <1>7, ProceedIs
  <1> PICK of : of = <<q, 0>>
    OBVIOUS
  <1>9. PICK m, found, kept :
              /\ Records(m, found, kept) /\ m.parent = Parent("response", q, found)
              /\ m.type = "response" /\ m.run = r /\ m.of = of /\ ~m.error
    BY <1>1, <1>2, <1>3, ConstantsIn, ResponseGives
  <1>10. /\ m.of[1] = q /\ m.parent = IF found /\ Recorded(q) THEN q ELSE Root
    BY <1>9 DEF Parent, Wanted
  <1>11. /\ q \in DOMAIN sent /\ sent[q].type = "request" /\ sent[q].run = r
         /\ sent[q].of[1] = runs[r].answer /\ OnlyCalls(runs[r].answer, Len(sent) + 1, r)
    BY <1>2, <1>5 DEF RunOne, CallingOK, WaitingOK
  <1>12. StandsOn(m)
    BY <1>9, <1>10, <1>11 DEF StandsOn
  <1>13. /\ Extends /\ sent'[Len(sent) + 1] = m /\ DOMAIN sent' = DOMAIN sent \cup {Len(sent) + 1}
    BY <1>1, <1>9, RecordsExtend
  <1>14. runs'[r] = run
    BY <1>1, <1>2, <1>8, SetIs
  <1>15. RunOne(r)'
    <2>1. \A i \in DOMAIN sent' \ DOMAIN sent : sent'[i].type \in {"request", "response"}
      BY <1>9, <1>13
    <2>2. /\ runs'[r].answer = runs[r].answer /\ runs'[r].at # "waiting"
          /\ runs'[r].next \in DOMAIN sent[runs[r].answer].calls
      BY <1>8, <1>14
    <2> QED BY <1>1, <1>5, <1>13, <2>1, <2>2, RunGoesOn
  <1>16. Answers(m, found)
    BY <1>2, <1>8, <1>10, <1>11, <1>14 DEF Answers
  <1>17. runs[r].at \notin {"delegating", "done"} /\ run.at # "dispatched" /\ run.at # "waiting"
    BY <1>2, <1>8
  <1> QED BY <1>2, <1>8, <1>9, <1>12, <1>15, <1>16, <1>17, SetStep

\* The agent is invoked again, all its calls answered.
LEMMA ReinvokeStep == ASSUME TalkInv, NEW r \in DOMAIN runs, Reinvoke(r) PROVE TalkInv'
  <1>1. TalkTypes /\ MessagesOK /\ BranchOK /\ RunsOK
    BY InvParts
  <1> PICK run : run = [runs[r] EXCEPT !.at = "invoked", !.invoke = NewId, !.head = NewId]
    OBVIOUS
  <1>2. /\ runs[r].at = "ended" /\ Len(sent) < MaxSent /\ Set(r, run) /\ bases' = bases
        /\ RecordInvoke(r, runs[r].head, <<runs[r].answer, 0>>, sent[runs[r].answer].state)
    BY DEF Reinvoke
  <1>3. runs[r] \in RunRecord /\ r \in Nodes
    BY <1>1, RunTypes
  <1>4. NewId \in Nodes
    BY <1>1, <1>2, NewIdIs
  <1>5. /\ run \in RunRecord /\ run.by = runs[r].by /\ run.at = "invoked"
        /\ run.given = runs[r].given
    BY <1>3, <1>4 DEF RunRecord, Stages
  <1>6. runs[r].answer \in DOMAIN sent
    BY <1>1, <1>2 DEF RunsOK, RunOne, CallingOK, Calling
  <1>7. PICK state \in Nodes : state = sent[runs[r].answer].state
    <2>1. sent[runs[r].answer] \in Sent
      BY <1>1, <1>6, MessageTypes
    <2> QED BY <2>1 DEF Sent
  <1>8. PICK of \in Nodes \X Nat : of = <<runs[r].answer, 0>>
    BY <1>3 DEF RunRecord
  <1>9. RecordInvoke(r, runs[r].head, of, state)
    BY <1>2, <1>7, <1>8
  <1>10. PICK m, found, kept :
              Records(m, found, kept) /\ m.type = "invoke" /\ m.run = r /\ ~m.error
    BY <1>1, <1>2, <1>3, <1>9, ConstantsIn, InvokeGives
  <1>11. StandsOn(m)
    BY <1>10 DEF StandsOn
  <1>12. runs'[r] = run
    BY <1>1, <1>2, <1>5, SetIs
  <1>13. RunOne(r)'
    BY <1>5, <1>12 DEF RunOne, CallingOK, WaitingOK, Calling
  <1> QED BY <1>2, <1>5, <1>10, <1>11, <1>13, SetStep

\* A run ends with a completion; a delegated one sets its caller going.
LEMMA FinishRuns ==
    ASSUME TalkInv, NEW r \in DOMAIN runs, runs[r].at \in {"invoked", "dispatched"}, Finish(r)
    PROVE  /\ runs' \in Seq(RunRecord) /\ Len(runs') = Len(runs) /\ DOMAIN runs' = DOMAIN runs
           /\ runs'[r].at = "done" /\ runs'[r].given = <<>>
           /\ \A x \in DOMAIN runs :
                 /\ runs'[x].by = runs[x].by
                 /\ x # r => \/ runs'[x] = runs[x] /\ ~(runs[r].by \notin Clients /\ x = runs[r].by)
                             \/ /\ runs[r].by \notin Clients /\ x = runs[r].by
                                /\ runs[x].at = "delegating" /\ runs'[x].at \in {"calling", "ended"}
                                /\ runs'[x].answer = runs[x].answer
                                /\ runs'[x].given = runs[x].given
                                /\ runs'[x].next \in DOMAIN sent[runs[x].answer].calls
           /\ CallersOK'
  <1>1. TalkTypes /\ RunsOK /\ CallersOK
    BY InvParts
  <1>2. /\ runs[r] \in RunRecord /\ DOMAIN runs = 1..Len(runs) /\ Len(runs) \in Nat
        /\ runs \in [1..Len(runs) -> RunRecord]
    BY <1>1, RunTypes, LenProperties DEF TalkTypes
  <1> PICK done : done = [runs EXCEPT ![r].at = "done", ![r].given = <<>>]
    OBVIOUS
  <1>3. [[runs[r] EXCEPT !.at = "done"] EXCEPT !.given = <<>>] \in RunRecord
    BY <1>2, EmptySeq DEF RunRecord, Stages
  <1>4. /\ done \in [1..Len(runs) -> RunRecord]
        /\ done[r].at = "done" /\ done[r].given = <<>> /\ done[r].by = runs[r].by
        /\ \A x \in DOMAIN runs : x # r => done[x] = runs[x]
    BY <1>2, <1>3 DEF RunRecord
  <1>5. CASE runs[r].by \in Clients
    <2>1. runs' = done
      BY <1>5 DEF Finish
    <2>2. runs' \in Seq(RunRecord) /\ Len(runs') = Len(runs) /\ DOMAIN runs' = DOMAIN runs
      <3>1. runs' \in [1..Len(runs) -> RunRecord]
        BY <1>4, <2>1
      <3> QED BY <1>2, <3>1
    <2>3. CallersOK'
      <3>1. /\ \A x \in DOMAIN runs : runs'[x].by = runs[x].by
            /\ \A x \in DOMAIN runs : x # r => runs'[x].at = runs[x].at
        BY <1>4, <2>1
      <3> QED BY <1>1, <2>2, <3>1, CallersSet
    <2> QED BY <1>4, <1>5, <2>1, <2>2, <2>3
  <1>6. CASE runs[r].by \notin Clients
    <2> PICK y : y = runs[r].by
      OBVIOUS
    <2>1. /\ y \in DOMAIN runs /\ Delegated(r) /\ runs[y].at = "delegating" /\ y # r
          /\ y \notin Clients
      BY <1>1, <1>6 DEF CallersOK, Delegated
    <2>2. runs' = [done EXCEPT ![y] = Proceed(@)]
      BY <1>6 DEF Finish
    <2>3. /\ runs[y] \in RunRecord /\ done[y] = runs[y] /\ RunOne(y)
          /\ runs[y].answer \in DOMAIN sent
          /\ runs[y].next \in DOMAIN sent[runs[y].answer].calls
      BY <1>1, <1>2, <1>4, <2>1 DEF RunsOK, RunOne, CallingOK, Calling
    <2> PICK run : run = Proceed(runs[y])
      OBVIOUS
    <2>4. /\ run \in RunRecord /\ run.at \in {"calling", "ended"} /\ run.by = runs[y].by
          /\ run.answer = runs[y].answer /\ run.given = runs[y].given
          /\ run.next \in DOMAIN sent[runs[y].answer].calls
      BY <1>1, <2>3, ProceedIs
    <2>5. /\ runs' \in [1..Len(runs) -> RunRecord] /\ runs'[y] = run
          /\ \A x \in DOMAIN runs : x # y => runs'[x] = done[x]
      BY <1>2, <1>4, <2>1, <2>2, <2>3, <2>4
    <2>6. runs' \in Seq(RunRecord) /\ Len(runs') = Len(runs) /\ DOMAIN runs' = DOMAIN runs
      BY <1>2, <2>5
    <2>7. \A x \in DOMAIN runs : runs'[x].by = runs[x].by
      BY <1>4, <2>4, <2>5
    <2>8. runs'[r].at = "done" /\ runs'[r].given = <<>>
      BY <1>4, <2>1, <2>5
    <2>9. \A x \in DOMAIN runs : x # r /\ x # y => runs'[x] = runs[x]
      BY <1>4, <2>5
    <2>10. CallersOK'
      <3>1. \A x \in DOMAIN runs' : runs'[x].by \in Clients \cup DOMAIN runs'
        BY <1>1, <2>6, <2>7 DEF CallersOK
      <3>2. ASSUME NEW x \in DOMAIN runs', Delegated(x)'
            PROVE  /\ Delegated(x) /\ x # r /\ runs[x].by # y
                   /\ runs'[runs'[x].by].at = "delegating"
        <4>1. x # r
          BY <2>8, <3>2 DEF Delegated
        <4>2. Delegated(x)
          <5>1. CASE x = y
            BY <2>1, <2>6, <2>7, <3>2, <5>1 DEF Delegated
          <5>2. CASE x # y
            BY <2>6, <2>9, <3>2, <4>1, <5>2 DEF Delegated
          <5> QED BY <5>1, <5>2
        <4>3. runs[x].by # y
          BY <1>1, <2>1, <2>6, <4>1, <4>2 DEF CallersOK
        <4>4. runs[x].by \in DOMAIN runs /\ runs[runs[x].by].at = "delegating"
          BY <1>1, <2>6, <4>2 DEF CallersOK, Delegated
        <4>5. runs[x].by # r
          BY <4>4
        <4>6. runs'[runs[x].by] = runs[runs[x].by]
          BY <2>9, <4>3, <4>4, <4>5
        <4> QED BY <2>6, <2>7, <4>1, <4>2, <4>3, <4>4, <4>6
      <3>3. \A x, q \in DOMAIN runs' : Delegated(x)' /\ Delegated(q)' /\ runs'[x].by = runs'[q].by
                => x = q
        BY <1>1, <2>6, <2>7, <3>2 DEF CallersOK
      <3> QED BY <3>1, <3>2, <3>3 DEF CallersOK
    <2>11. ASSUME NEW x \in DOMAIN runs, x # r
           PROVE  \/ runs'[x] = runs[x] /\ ~(runs[r].by \notin Clients /\ x = runs[r].by)
                  \/ /\ runs[r].by \notin Clients /\ x = runs[r].by
                     /\ runs[x].at = "delegating" /\ runs'[x].at \in {"calling", "ended"}
                     /\ runs'[x].answer = runs[x].answer /\ runs'[x].given = runs[x].given
                     /\ runs'[x].next \in DOMAIN sent[runs[x].answer].calls
      <3>1. CASE x = y
        BY <2>1, <2>4, <2>5, <3>1
      <3>2. CASE x # y
        BY <2>1, <2>9, <2>11, <3>2
      <3> QED BY <3>1, <3>2
    <2> QED BY <2>6, <2>7, <2>8, <2>10, <2>11
  <1> QED BY <1>5, <1>6

\* The completion of a run is recorded.
LEMMA FinishStep ==
    ASSUME TalkInv, NEW r \in DOMAIN runs, runs[r].at \in {"invoked", "dispatched"}, Finish(r),
           NEW m, NEW found, NEW kept, Records(m, found, kept), m.type = "complete", m.run = r,
           m.error => m.calls = NoCalls, bases' = bases
    PROVE  TalkInv'
  <1>1. TalkTypes /\ RunsOK
    BY InvParts
  <1>2. /\ runs' \in Seq(RunRecord) /\ Len(runs') = Len(runs) /\ DOMAIN runs' = DOMAIN runs
        /\ runs'[r].at = "done" /\ runs'[r].given = <<>> /\ CallersOK'
    BY FinishRuns
  <1>3. ASSUME NEW x \in DOMAIN runs, x # r
        PROVE  \/ runs'[x] = runs[x]
               \/ /\ runs[x].at = "delegating" /\ runs'[x].at \in {"calling", "ended"}
                  /\ runs'[x].answer = runs[x].answer /\ runs'[x].given = runs[x].given
                  /\ runs'[x].next \in DOMAIN sent[runs[x].answer].calls
    BY <1>3, FinishRuns
  <1>4. /\ Extends /\ sent'[Len(sent) + 1] = m /\ DOMAIN sent' = DOMAIN sent \cup {Len(sent) + 1}
    BY <1>1, RecordsExtend
  <1>5. StandsOn(m)
    BY DEF StandsOn
  <1>6. ASSUME NEW x \in DOMAIN runs'
        PROVE  /\ RunOne(x)'
               /\ runs'[x].given = <<>> \/ (x \in DOMAIN runs /\ runs'[x].given = runs[x].given)
               /\ runs'[x].at = "dispatched" =>
                     /\ x \in DOMAIN runs /\ runs[x].at = "dispatched"
                     /\ runs'[x].given = runs[x].given /\ runs'[x].upto = runs[x].upto
               /\ runs'[x].at = "waiting" =>
                     /\ x \in DOMAIN runs /\ runs[x].at = "waiting" /\ runs'[x].head = runs[x].head
    <2>1. CASE x = r
      BY <1>2, <2>1 DEF RunOne, CallingOK, WaitingOK, Calling
    <2>2. CASE x # r
      <3>1. RunOne(x) /\ x \in DOMAIN runs
        BY <1>1, <1>2, <1>6 DEF RunsOK
      <3>2. \A i \in DOMAIN sent' \ DOMAIN sent : sent'[i].run # x
        BY <1>4, <2>2
      <3>3. CASE runs'[x] = runs[x]
        BY <1>1, <1>4, <3>1, <3>2, <3>3, RunUnmoved
      <3>4. CASE /\ runs[x].at = "delegating" /\ runs'[x].at \in {"calling", "ended"}
                 /\ runs'[x].answer = runs[x].answer /\ runs'[x].given = runs[x].given
                 /\ runs'[x].next \in DOMAIN sent[runs[x].answer].calls
        <4>1. runs[x].at \in Calling /\ runs'[x].at # "waiting" /\ runs'[x].at # "dispatched"
          BY <3>4 DEF Calling
        <4>2. RunOne(x)'
          BY <1>1, <1>4, <3>1, <3>2, <3>4, <4>1, RunGoesOn
        <4> QED BY <3>1, <3>4, <4>1, <4>2
      <3> QED BY <1>3, <2>2, <3>1, <3>3, <3>4
    <2> QED BY <2>1, <2>2
  <1>7. GivenStays /\ WaitsKept /\ RunsOK'
    BY <1>6 DEF GivenStays, WaitsKept, RunsOK
  <1>8. Len(runs') <= Len(sent) + 1
    BY <1>1, <1>2, <1>4, SeqElement DEF TalkTypes, Extends
  <1>9. bases' \in [Clients -> [parent : Nodes, state : Nodes]]
    BY <1>1 DEF TalkTypes
  <1> QED BY <1>2, <1>5, <1>7, <1>8, <1>9, Written

\* The agent cannot be told: an error takes the place of its answer.
LEMMA DispatchFailsStep == ASSUME TalkInv, NEW r \in DOMAIN runs, DispatchFails(r) PROVE TalkInv'
  <1>1. TalkTypes /\ MessagesOK /\ BranchOK
    BY InvParts
  <1>2. PICK error \in BOOLEAN : error = TRUE
    OBVIOUS
  <1>3. /\ runs[r].at = "invoked" /\ Len(sent) < MaxSent /\ Finish(r) /\ bases' = bases
        /\ RecordComplete(r, Root, NoCalls, None, error)
    BY <1>2 DEF DispatchFails
  <1>4. runs[r].invoke \in Nodes /\ r \in Nodes
    BY <1>1, RunTypes DEF RunRecord
  <1>5. PICK m, found, kept :
              /\ Records(m, found, kept) /\ m.type = "complete" /\ m.run = r /\ m.calls = NoCalls
    BY <1>1, <1>3, <1>4, ConstantsIn, CompleteGives
  <1> QED BY <1>3, <1>5, FinishStep

\* The agent answers, with calls that the run then goes through, or with none.
LEMMA AnswerStep == ASSUME TalkInv, NEW r \in DOMAIN runs, Answer(r) PROVE TalkInv'
  <1>1. TalkTypes /\ MessagesOK /\ BranchOK
    BY InvParts
  <1>2. PICK error \in BOOLEAN : error = FALSE
    OBVIOUS
  <1>3. /\ runs[r].at = "dispatched" /\ Len(sent) < MaxSent /\ bases' = bases
        /\ \/ /\ RecordComplete(r, runs[r].invoke, NoCalls, NewId, error)
              /\ Finish(r)
           \/ \E calls \in Lists :
                /\ RecordComplete(r, runs[r].invoke, calls, NewId, error)
                /\ Set(r, [runs[r] EXCEPT !.at = "calling", !.answer = NewId, !.head = NewId,
                                          !.next = 1, !.given = <<>>])
    BY <1>2 DEF Answer
  <1>4. runs[r].invoke \in Nodes /\ r \in Nodes /\ runs[r] \in RunRecord
    BY <1>1, RunTypes DEF RunRecord
  <1>5. PICK state \in Nodes : state = NewId
    BY <1>1, <1>3, NewIdIs
  <1>6. CASE RecordComplete(r, runs[r].invoke, NoCalls, NewId, error) /\ Finish(r)
    <2>1. RecordComplete(r, runs[r].invoke, NoCalls, state, error)
      BY <1>5, <1>6
    <2>2. PICK m, found, kept :
              /\ Records(m, found, kept) /\ m.type = "complete" /\ m.run = r /\ m.calls = NoCalls
      BY <1>1, <1>3, <1>4, <2>1, ConstantsIn, CompleteGives
    <2> QED BY <1>3, <1>6, <2>2, FinishStep
  <1>7. ASSUME NEW calls \in Lists, RecordComplete(r, runs[r].invoke, calls, NewId, error),
               Set(r, [runs[r] EXCEPT !.at = "calling", !.answer = NewId, !.head = NewId,
                                      !.next = 1, !.given = <<>>])
        PROVE  TalkInv'
    <2> PICK run : run = [runs[r] EXCEPT !.at = "calling", !.answer = NewId, !.head = NewId,
                                          !.next = 1, !.given = <<>>]
      OBVIOUS
    <2>1. /\ run \in RunRecord /\ run.by = runs[r].by /\ run.at = "calling" /\ run.given = <<>>
          /\ run.answer = state /\ run.next = 1 /\ Set(r, run)
      <3>1. 1 \in Nat /\ <<>> \in Seq(Said)
        BY EmptySeq
      <3> QED BY <1>4, <1>5, <1>7, <3>1 DEF RunRecord, Stages
    <2>2. RecordComplete(r, runs[r].invoke, calls, state, error)
      BY <1>5, <1>7
    <2>3. PICK m, found, kept :
              /\ Records(m, found, kept) /\ m.type = "complete" /\ m.run = r /\ m.calls = calls
              /\ m.error = error /\ m.id = Len(sent) + 1
      BY <1>1, <1>2, <1>3, <1>4, <2>2, CompleteGives
    <2>4. StandsOn(m)
      BY <1>2, <2>3 DEF StandsOn
    <2>5. /\ Extends /\ sent'[Len(sent) + 1] = m /\ DOMAIN sent' = DOMAIN sent \cup {Len(sent) + 1}
          /\ Len(sent') = Len(sent) + 1
      BY <1>1, <2>3, RecordsExtend
    <2>6. runs'[r] = run
      BY <1>1, <2>1, SetIs
    <2>7. 1 \in DOMAIN calls
      <3>1. calls \in Seq({"tool", "delegate"}) /\ calls # <<>>
        BY ConversationConstants
      <3> QED BY <3>1, SeqElement, EmptySeq
    <2>8. state = Len(sent) + 1 /\ state \in Nat
      BY <1>5, <2>5 DEF NewId, Extends
    <2>9. OnlyCalls(runs[r].answer, Len(sent) + 1, r)'
      BY <2>1, <2>5, <2>6, <2>8 DEF OnlyCalls
    <2>10. RunOne(r)'
      BY <1>2, <2>1, <2>3, <2>5, <2>6, <2>7, <2>8, <2>9 DEF RunOne, CallingOK, WaitingOK
    <2> QED BY <1>3, <2>1, <2>3, <2>4, <2>10, SetStep
  <1> QED BY <1>3, <1>6, <1>7

\* Nothing is recorded and the runs go on.
LEMMA Unwritten ==
    ASSUME TalkInv, sent' = sent, dag' = dag, typed' = typed, bases' = bases,
           failures' \in 0..MaxFailures, failures <= failures', runs' \in Seq(RunRecord),
           Len(runs') = Len(runs), WaitsKept, RunsOK', CallersOK',
           GivenOK', ForgottenPaid'
    PROVE  TalkInv'
  <1>1. TalkTypes /\ MessagesOK /\ BranchOK /\ LossesPaid
    BY InvParts
  <1>2. TalkTypes'
    BY <1>1 DEF TalkTypes
  <1>3. MessagesOK'
    BY <1>1 DEF MessagesOK, MessageOK, IdOK, CallOK, ReplyOK, OnlyCalls
  <1>4. BranchOK'
    BY <1>1 DEF BranchOK
  <1>5. Lost' = Lost
    BY DEF Lost, Says, Repeats, Answered
  <1>6. Waiting' \subseteq Waiting
    <2>1. \A i \in DOMAIN sent : i # Len(sent) + 1
      BY <1>1, MessageTypes
    <2> QED BY <2>1 DEF Waiting, WaitsKept
  <1>7. LossesPaid'
    <2>1. /\ IsFiniteSet(Lost \cup Waiting) /\ Cardinality(Lost \cup Waiting) \in Nat
          /\ Lost' \cup Waiting' \subseteq Lost \cup Waiting
      BY <1>1, <1>5, <1>6, DueFinite
    <2>2. /\ Cardinality(Lost' \cup Waiting') \in Nat
          /\ Cardinality(Lost' \cup Waiting') <= Cardinality(Lost \cup Waiting)
      BY <2>1, FS_Subset, FS_CardinalityType
    <2>3. failures \in Nat /\ failures' \in Nat
      BY <1>1, ConversationConstants DEF TalkTypes
    <2> QED BY <1>1, <2>1, <2>2, <2>3 DEF LossesPaid
  <1> QED BY <1>2, <1>3, <1>4, <1>7 DEF TalkInv

\* A step that sends nothing keeps the messages of before.
LEMMA SameExtends == ASSUME TalkTypes, sent' = sent PROVE Extends
  BY SeqElement DEF TalkTypes, Extends

\* The runs after one of them was set, when nothing is recorded.
LEMMA SetRuns ==
    ASSUME TalkInv, sent' = sent, NEW r \in DOMAIN runs, NEW run \in RunRecord, Set(r, run),
           run.by = runs[r].by, runs[r].at \notin {"delegating", "done"}, run.at # "waiting",
           run.at \in Calling => /\ runs[r].at \in Calling /\ run.answer = runs[r].answer
                                 /\ run.next \in DOMAIN sent[runs[r].answer].calls
    PROVE  /\ runs' \in Seq(RunRecord) /\ Len(runs') = Len(runs) /\ DOMAIN runs' = DOMAIN runs
           /\ runs'[r] = run /\ \A x \in DOMAIN runs : x # r => runs'[x] = runs[x]
           /\ RunsOK' /\ CallersOK' /\ WaitsKept
  <1>1. TalkTypes /\ RunsOK /\ CallersOK
    BY InvParts
  <1>2. /\ runs' \in Seq(RunRecord) /\ Len(runs') = Len(runs) /\ DOMAIN runs' = DOMAIN runs
        /\ runs'[r] = run /\ \A x \in DOMAIN runs : x # r => runs'[x] = runs[x]
    BY <1>1, SetIs
  <1>3. Extends
    BY <1>1, SameExtends
  <1>4. ASSUME NEW x \in DOMAIN runs' PROVE RunOne(x)'
    <2>1. RunOne(x)
      BY <1>1, <1>2 DEF RunsOK
    <2>2. CASE x = r
      BY <1>1, <1>2, <1>3, <2>1, <2>2, RunGoesOn
    <2>3. CASE x # r
      BY <1>1, <1>2, <1>3, <2>1, <2>3, RunUnmoved
    <2> QED BY <2>2, <2>3
  <1>5. CallersOK'
    <2>1. /\ \A x \in DOMAIN runs : runs'[x].by = runs[x].by
          /\ \A x \in DOMAIN runs : x # r => runs'[x].at = runs[x].at
      BY <1>2
    <2> QED BY <1>1, <1>2, <2>1, CallersSet
  <1>6. WaitsKept
    BY <1>2 DEF WaitsKept
  <1>7. RunsOK'
    BY <1>4 DEF RunsOK
  <1> QED BY <1>2, <1>5, <1>6, <1>7

\* A call that fails is passed over.
LEMMA CallFailsStep == ASSUME TalkInv, NEW r \in DOMAIN runs, CallFails(r) PROVE TalkInv'
  <1>1. TalkTypes /\ MessagesOK /\ GivenOK /\ RunsOK /\ ForgottenPaid
    BY InvParts
  <1> PICK run : run = Proceed(runs[r])
    OBVIOUS
  <1>2. /\ runs[r].at = "waiting" /\ failures < MaxFailures /\ failures' = failures + 1
        /\ Set(r, run) /\ sent' = sent /\ dag' = dag /\ typed' = typed /\ bases' = bases
    BY DEF CallFails
  <1>3. runs[r] \in RunRecord
    BY <1>1, RunTypes
  <1>4. RunOne(r) /\ runs[r].at \in Calling
    BY <1>1, <1>2 DEF RunsOK, Calling
  <1>5. /\ run \in RunRecord /\ run.at \in {"calling", "ended"} /\ run.by = runs[r].by
        /\ run.answer = runs[r].answer /\ run.given = runs[r].given
        /\ run.next \in DOMAIN sent[runs[r].answer].calls
    BY <1>1, <1>3, <1>4, ProceedIs DEF RunOne, CallingOK
  <1>6. runs[r].at \notin {"delegating", "done"} /\ run.at # "waiting"
    BY <1>2, <1>5
  <1>7. /\ runs' \in Seq(RunRecord) /\ Len(runs') = Len(runs) /\ DOMAIN runs' = DOMAIN runs
        /\ runs'[r] = run /\ \A x \in DOMAIN runs : x # r => runs'[x] = runs[x]
        /\ RunsOK' /\ CallersOK' /\ WaitsKept
    BY <1>2, <1>4, <1>5, <1>6, SetRuns
  <1>8. Extends
    BY <1>1, <1>2, SameExtends
  <1>9. GivenStays
    BY <1>5, <1>7 DEF GivenStays
  <1>10. failures' \in 0..MaxFailures /\ failures <= failures' /\ failures' \in Nat
    BY <1>1, <1>2, ConversationConstants DEF TalkTypes
  <1>11. GivenOK' /\ ForgottenPaid'
    BY <1>1, <1>8, <1>9, <1>10, GivenOKKept, ForgottenOKKept
  <1> QED BY <1>2, <1>7, <1>10, <1>11, Unwritten

-----------------------------------------------------------------------------
(* The conversation that is read *)

\* A node becomes at most one thing said, and exactly one if its rows are there.
LEMMA ProjectIs ==
    ASSUME TalkTypes, MessagesOK, NEW id \in DOMAIN sent
    PROVE  /\ \/ Project(id) = <<>>
              \/ \E x \in Said : /\ Project(id) = <<x>> /\ x.from = id
                                 /\ x.by = "tool" => /\ sent[id].type = "response"
                                                     /\ x.call = sent[sent[id].of[1]].of
           /\ /\ id \in typed /\ Says(id)
              /\ sent[id].type = "response" => Answered(id)
              => Project(id) # <<>>
  <1>1. sent[id] \in Sent /\ id \in Nodes /\ NoOf \in Nodes \X Nat
    <2>1. sent[id] \in Sent /\ id \in Nat /\ id <= Len(sent) /\ Len(sent) \in Nat
      BY MessageTypes
    <2>2. id \in Nodes
      BY <2>1, ConversationConstants DEF TalkTypes, Nodes
    <2> QED BY <2>1, <2>2, NoOfIs
  <1>2. sent[id].type \in {"invoke", "complete", "request", "response"}
    BY <1>1 DEF Sent
  <1>3. CASE id \notin typed
    BY <1>3 DEF Project
  <1>4. CASE id \in typed /\ sent[id].type = "invoke"
    <2>1. Project(id) = Input(id)
      BY <1>4 DEF Project
    <2>2. User(id) \in Said /\ User(id).from = id /\ User(id).by # "tool"
      BY <1>1 DEF User, Said
    <2>3. Says(id) => sent[id].of = NoOf
      BY <1>4 DEF Says
    <2> QED BY <2>1, <2>2, <2>3 DEF Input
  <1>5. CASE id \in typed /\ sent[id].type = "complete"
    <2>1. Project(id) = <<Agent(id)>>
      BY <1>5 DEF Project
    <2>2. Agent(id) \in Said /\ Agent(id).from = id /\ Agent(id).by # "tool"
      BY <1>1 DEF Agent, Said
    <2> QED BY <2>1, <2>2
  <1>6. CASE id \in typed /\ sent[id].type = "request"
    <2>1. Project(id) = <<>> /\ ~Says(id)
      BY <1>6 DEF Project, Says
    <2> QED BY <2>1
  <1>7. CASE id \in typed /\ sent[id].type = "response" /\ Answered(id)
    <2> DEFINE q == sent[id].parent
    <2>1. Project(id) = <<Tool(id, sent[q].of)>>
      BY <1>7 DEF Project
    <2>2. q = sent[id].of[1] /\ q \in DOMAIN sent
      <3>1. q \in {Root, sent[id].of[1]} /\ q \in {Root} \cup DOMAIN sent
        BY <1>7 DEF MessagesOK, MessageOK, ReplyOK
      <3> QED BY <1>7, <3>1 DEF Answered
    <2>3. sent[q].of \in Nodes \X Nat
      <3>1. sent[q] \in Sent
        BY <2>2, MessageTypes
      <3> QED BY <3>1 DEF Sent
    <2>4. /\ Tool(id, sent[q].of) \in Said /\ Tool(id, sent[q].of).from = id
          /\ Tool(id, sent[q].of).call = sent[sent[id].of[1]].of
      BY <1>1, <2>2, <2>3 DEF Tool, Said
    <2> QED BY <1>7, <2>1, <2>4
  <1>8. CASE id \in typed /\ sent[id].type = "response" /\ ~Answered(id)
    <2>1. Project(id) = <<>>
      BY <1>8 DEF Project
    <2> QED BY <1>8, <2>1
  <1> QED BY <1>2, <1>3, <1>4, <1>5, <1>6, <1>7, <1>8

\* The conversation is what its nodes say, in their order, but for the one that was not read.
LEMMA ConversationIs ==
    ASSUME TalkTypes, MessagesOK, BranchOK, NEW unread, NEW given, given = Conversation(unread)
    PROVE  /\ given \in Seq(Said)
           /\ \A j, k \in DOMAIN given : j < k => \E a, b \in DOMAIN dag :
                 a < b /\ Project(dag[a]) = <<given[j]>> /\ Project(dag[b]) = <<given[k]>>
           /\ \A k \in DOMAIN given : \E a \in DOMAIN dag : Project(dag[a]) = <<given[k]>>
           /\ \A a \in DOMAIN dag : dag[a] # unread /\ Project(dag[a]) # <<>>
                 => \E k \in DOMAIN given : Project(dag[a]) = <<given[k]>>
  <1> PICK s : s = [k \in DOMAIN dag |-> IF dag[k] = unread THEN <<>> ELSE Project(dag[k])]
    OBVIOUS
  <1>1. DOMAIN dag = 1..Len(dag) /\ Len(dag) \in Nat /\ \A k \in DOMAIN dag : dag[k] \in DOMAIN sent
    BY SeqElement DEF TalkTypes, BranchOK
  <1>2. \A k \in DOMAIN dag : s[k] = <<>> \/ \E x \in Said : s[k] = <<x>>
    <2> TAKE k \in DOMAIN dag
    <2>1. Project(dag[k]) = <<>> \/ \E x \in Said : Project(dag[k]) = <<x>>
      BY <1>1, ProjectIs
    <2> QED BY <2>1
  <1>3. \A x \in Said : <<x>> \in Seq(Said)
    OBVIOUS
  <1>4. \A k \in DOMAIN dag : s[k] \in Seq(Said)
    BY <1>2, <1>3, EmptySeq
  <1>5. s \in Seq(Seq(Said)) /\ Len(s) = Len(dag) /\ DOMAIN s = DOMAIN dag
    <2>1. s \in [1..Len(dag) -> Seq(Said)]
      BY <1>1, <1>4
    <2> QED BY <1>1, <2>1
  <1>6. given = FlattenSeq(s)
    BY DEF Conversation
  <1>7. given \in Seq(Said) /\ Spread(given, s, Len(dag))
    BY <1>2, <1>5, <1>6, FlattenShort
  <1>8. /\ \A a \in DOMAIN dag : s[a] # <<>> => Project(dag[a]) = s[a]
        /\ \A x : <<x>> # <<>>
    OBVIOUS
  <1>9. \A a \in DOMAIN dag : dag[a] # unread => s[a] = Project(dag[a])
    OBVIOUS
  <1>10. \A j, k \in DOMAIN given : j < k => \E a, b \in DOMAIN dag :
                 a < b /\ Project(dag[a]) = <<given[j]>> /\ Project(dag[b]) = <<given[k]>>
    <2> TAKE j, k \in DOMAIN given
    <2> HAVE j < k
    <2>1. PICK a, b \in 1..Len(dag) : a < b /\ s[a] = <<given[j]>> /\ s[b] = <<given[k]>>
      BY <1>7 DEF Spread
    <2>2. Project(dag[a]) = s[a] /\ Project(dag[b]) = s[b]
      BY <1>1, <1>8, <2>1
    <2> QED BY <1>1, <2>1, <2>2
  <1>11. \A k \in DOMAIN given : \E a \in DOMAIN dag : Project(dag[a]) = <<given[k]>>
    <2> TAKE k \in DOMAIN given
    <2>1. PICK a \in 1..Len(dag) : s[a] = <<given[k]>>
      BY <1>7 DEF Spread
    <2>2. Project(dag[a]) = s[a]
      BY <1>1, <1>8, <2>1
    <2> QED BY <1>1, <2>1, <2>2
  <1>12. \A a \in DOMAIN dag : dag[a] # unread /\ Project(dag[a]) # <<>>
                 => \E k \in DOMAIN given : Project(dag[a]) = <<given[k]>>
    BY <1>1, <1>7, <1>9 DEF Spread
  <1> QED BY <1>7, <1>10, <1>11, <1>12

\* Sequences of one element are equal if the elements are.
LEMMA SameOne == ASSUME NEW x, NEW y, <<x>> = <<y>> PROVE x = y
  <1>1. <<x>>[1] = x /\ <<y>>[1] = y
    OBVIOUS
  <1> QED BY <1>1

\* What was read stands on messages, in their order.
LEMMA GivenRead ==
    ASSUME TalkTypes, MessagesOK, BranchOK, NEW unread, NEW r,
           sent' = sent, runs'[r].given = Conversation(unread)
    PROVE  GivenOne(r)'
  <1> PICK given : given = Conversation(unread)
    OBVIOUS
  <1>1. /\ \A j, k \in DOMAIN given : j < k => \E a, b \in DOMAIN dag :
              a < b /\ Project(dag[a]) = <<given[j]>> /\ Project(dag[b]) = <<given[k]>>
        /\ \A k \in DOMAIN given : \E a \in DOMAIN dag : Project(dag[a]) = <<given[k]>>
    BY ConversationIs
  <1>2. ASSUME NEW k \in DOMAIN given, NEW a \in DOMAIN dag, Project(dag[a]) = <<given[k]>>
        PROVE  /\ given[k].from = dag[a] /\ dag[a] \in DOMAIN sent
               /\ given[k].by = "tool" => /\ sent[dag[a]].type = "response"
                                          /\ given[k].call = sent[sent[dag[a]].of[1]].of
    <2>1. dag[a] \in DOMAIN sent
      BY DEF BranchOK
    <2>2. Project(dag[a]) # <<>>
      BY <1>2
    <2>3. PICK x \in Said : /\ Project(dag[a]) = <<x>> /\ x.from = dag[a]
                            /\ x.by = "tool" => /\ sent[dag[a]].type = "response"
                                                /\ x.call = sent[sent[dag[a]].of[1]].of
      BY <2>1, <2>2, ProjectIs
    <2>4. x = given[k]
      BY <1>2, <2>3, SameOne
    <2> QED BY <2>1, <2>3, <2>4
  <1>3. \A k \in DOMAIN given : given[k].from \in DOMAIN sent
    BY <1>1, <1>2
  <1>4. ASSUME NEW j \in DOMAIN given, NEW k \in DOMAIN given, j < k
        PROVE  \/ given[j].from < given[k].from
               \/ given[j].from > given[k].from /\ sent[given[k].from].error
    <2>1. PICK a, b \in DOMAIN dag :
              a < b /\ Project(dag[a]) = <<given[j]>> /\ Project(dag[b]) = <<given[k]>>
      BY <1>1, <1>4
    <2>2. given[j].from = dag[a] /\ given[k].from = dag[b]
      BY <1>2, <2>1
    <2> QED BY <2>1, <2>2 DEF BranchOK
  <1>5. \A k \in DOMAIN given : given[k].by = "tool" =>
          /\ sent[given[k].from].type = "response"
          /\ given[k].call = sent[sent[given[k].from].of[1]].of
    BY <1>1, <1>2
  <1> QED BY <1>3, <1>4, <1>5 DEF GivenOne

\* What was not read was lost before, or is the node whose read failed.
LEMMA ForgottenRead ==
    ASSUME TalkTypes, MessagesOK, BranchOK, NEW unread, NEW r, sent' = sent,
           runs'[r].given = Conversation(unread), runs'[r].upto = Len(sent)
    PROVE  Forgotten(r)' \subseteq Lost \cup ({unread} \ {Root})
  <1> PICK given : given = Conversation(unread)
    OBVIOUS
  <1>1. \A a \in DOMAIN dag : dag[a] # unread /\ Project(dag[a]) # <<>>
                 => \E k \in DOMAIN given : Project(dag[a]) = <<given[k]>>
    BY ConversationIs
  <1> SUFFICES ASSUME NEW i \in Forgotten(r)', i \notin Lost, i \notin {unread} \ {Root}
               PROVE  FALSE
    OBVIOUS
  <1>2. /\ i \in 1..Len(sent) /\ Says(i) /\ i \notin Repeats
        /\ \A k \in DOMAIN given : given[k].from # i
    BY DEF Forgotten, Says, Repeats
  <1>3. i \in DOMAIN sent /\ i # Root /\ i # unread
    BY <1>2, SeqElement DEF TalkTypes, Root
  <1>4. i \in typed /\ (sent[i].type = "response" => Answered(i))
    BY <1>2, <1>3 DEF Lost
  <1>5. PICK a \in DOMAIN dag : dag[a] = i
    BY <1>4 DEF TalkTypes, ToSet
  <1>6. Project(i) # <<>>
    BY <1>2, <1>3, <1>4, ProjectIs
  <1>7. PICK k \in DOMAIN given : Project(i) = <<given[k]>>
    BY <1>1, <1>3, <1>5, <1>6
  <1>8. PICK x \in Said : Project(i) = <<x>> /\ x.from = i
    BY <1>3, <1>6, ProjectIs
  <1>9. x = given[k]
    BY <1>7, <1>8, SameOne
  <1> QED BY <1>2, <1>8, <1>9

\* The sidecar reads the branch and tells the agent.
LEMMA DispatchStep == ASSUME TalkInv, NEW r \in DOMAIN runs, Dispatch(r) PROVE TalkInv'
  <1>1. /\ TalkTypes /\ MessagesOK /\ BranchOK /\ GivenOK /\ RunsOK /\ LossesPaid /\ ForgottenPaid
    BY InvParts
  <1>2. PICK unread \in Reads :
          /\ failures + (IF unread = Root THEN 0 ELSE 1) <= MaxFailures
          /\ failures' = failures + (IF unread = Root THEN 0 ELSE 1)
          /\ Set(r, [runs[r] EXCEPT !.at = "dispatched", !.given = Conversation(unread),
                                    !.upto = Len(sent)])
    BY DEF Dispatch
  <1> PICK run : run = [runs[r] EXCEPT !.at = "dispatched", !.given = Conversation(unread),
                                       !.upto = Len(sent)]
    OBVIOUS
  <1>3. /\ runs[r].at = "invoked" /\ Set(r, run)
        /\ sent' = sent /\ dag' = dag /\ typed' = typed /\ bases' = bases
    BY <1>2 DEF Dispatch
  <1>4. runs[r] \in RunRecord
    BY <1>1, RunTypes
  <1>5. /\ run \in RunRecord /\ run.at = "dispatched" /\ run.by = runs[r].by
        /\ run.given = Conversation(unread) /\ run.upto = Len(sent)
    <2>1. Conversation(unread) \in Seq(Said)
      BY <1>1, ConversationIs
    <2>2. Len(sent) \in Nodes
      BY <1>1, SeqElement, ConversationConstants DEF TalkTypes, Nodes
    <2> QED BY <1>4, <2>1, <2>2 DEF RunRecord, Stages
  <1>6. run.at \notin Calling /\ run.at # "waiting" /\ runs[r].at \notin {"delegating", "done"}
    BY <1>3, <1>5 DEF Calling
  <1>7. /\ runs' \in Seq(RunRecord) /\ Len(runs') = Len(runs) /\ DOMAIN runs' = DOMAIN runs
        /\ runs'[r] = run /\ \A x \in DOMAIN runs : x # r => runs'[x] = runs[x]
        /\ RunsOK' /\ CallersOK' /\ WaitsKept
    BY <1>3, <1>5, <1>6, SetRuns
  <1>8. Extends
    BY <1>1, <1>3, SameExtends
  <1>9. /\ failures' \in 0..MaxFailures /\ failures <= failures' /\ failures' \in Nat
        /\ failures \in Nat /\ (unread # Root => failures' = failures + 1)
    BY <1>1, <1>2, ConversationConstants DEF TalkTypes
  <1>10. GivenOK'
    <2> SUFFICES ASSUME NEW x \in DOMAIN runs' PROVE GivenOne(x)'
      BY DEF GivenOK
    <2>1. CASE x = r
      BY <1>1, <1>3, <1>5, <1>7, <2>1, GivenRead
    <2>2. CASE x # r
      BY <1>1, <1>7, <1>8, <2>2, GivenKept DEF GivenOK
    <2> QED BY <2>1, <2>2
  <1>11. ForgottenPaid'
    <2> SUFFICES ASSUME NEW x \in DOMAIN runs', runs'[x].at = "dispatched"
                 PROVE  runs'[x].upto <= Len(sent') /\ Cardinality(Forgotten(x)') <= failures'
      BY DEF ForgottenPaid
    <2>1. CASE x = r
      <3> DEFINE D == Lost \cup Waiting
      <3>1. Forgotten(r)' \subseteq Lost \cup ({unread} \ {Root})
        BY <1>1, <1>3, <1>5, <1>7, ForgottenRead
      <3>2. IsFiniteSet(D) /\ Cardinality(D) \in Nat /\ Cardinality(D) <= failures
        BY <1>1, DueFinite DEF LossesPaid
      <3>3. /\ Forgotten(r)' \subseteq D \cup {unread}
            /\ unread = Root => Forgotten(r)' \subseteq D
        BY <3>1
      <3> HIDE DEF D
      <3>4. /\ Cardinality(Forgotten(r)') \in Nat
            /\ Cardinality(Forgotten(r)') <= Cardinality(D) + 1
            /\ Forgotten(r)' \subseteq D => Cardinality(Forgotten(r)') <= Cardinality(D)
        BY <3>2, <3>3, OneMore
      <3>5. runs'[r].upto <= Len(sent')
        BY <1>3, <1>5, <1>7, <1>8 DEF Extends
      <3>6. Cardinality(Forgotten(r)') <= failures'
        BY <1>9, <3>2, <3>3, <3>4
      <3> QED BY <2>1, <3>5, <3>6
    <2>2. CASE x # r
      BY <1>1, <1>7, <1>8, <1>9, <2>2, ForgottenKept
    <2> QED BY <2>1, <2>2
  <1> QED BY <1>3, <1>7, <1>9, <1>10, <1>11, Unwritten

-----------------------------------------------------------------------------

\* The invariant holds before anything is said.
LEMMA TalkInitially == ConversationInit => TalkInv
  <1> SUFFICES ASSUME ConversationInit PROVE TalkInv
    OBVIOUS
  <1>1. /\ sent = <<>> /\ dag = <<>> /\ typed = {} /\ runs = <<>> /\ failures = 0
        /\ bases = [c \in Clients |-> [parent |-> Root, state |-> None]]
        /\ DOMAIN sent = {} /\ DOMAIN dag = {} /\ DOMAIN runs = {} /\ Len(sent) = 0 /\ Len(runs) = 0
    BY DEF ConversationInit
  <1>2. TalkTypes
    <2>1. sent \in Seq(Sent) /\ dag \in Seq(Nodes) /\ runs \in Seq(RunRecord)
      BY <1>1, EmptySeq
    <2>2. Root \in Nodes /\ None \in Nodes /\ failures \in 0..MaxFailures /\ 0 <= MaxSent
      BY <1>1, ConversationConstants DEF Nodes, Root, None
    <2> QED BY <1>1, <2>1, <2>2 DEF TalkTypes
  <1>3. MessagesOK /\ BranchOK /\ GivenOK /\ RunsOK /\ CallersOK /\ ForgottenPaid
    BY <1>1 DEF MessagesOK, BranchOK, GivenOK, RunsOK, CallersOK, ForgottenPaid
  <1>4. LossesPaid
    <2>1. Lost \cup Waiting = {}
      BY <1>1 DEF Lost, Waiting
    <2> QED BY <1>1, <2>1, FS_EmptySet DEF LossesPaid
  <1> QED BY <1>2, <1>3, <1>4 DEF TalkInv

\* The invariant is one of the variables.
LEMMA TalkStutters == TalkInv /\ UNCHANGED conversationVars => TalkInv'
  <1> SUFFICES ASSUME TalkInv, UNCHANGED conversationVars PROVE TalkInv'
    OBVIOUS
  <1>1. TalkTypes /\ RunsOK /\ CallersOK /\ MessagesOK /\ GivenOK /\ ForgottenPaid
    BY InvParts
  <1>2. /\ sent' = sent /\ dag' = dag /\ typed' = typed /\ runs' = runs /\ bases' = bases
        /\ failures' = failures
    BY DEF conversationVars
  <1>3. Extends
    BY <1>1, <1>2, SameExtends
  <1>4. RunsOK' /\ CallersOK'
    BY <1>1, <1>2 DEF RunsOK, RunOne, CallingOK, WaitingOK, OnlyCalls, CallersOK, Delegated
  <1>5. GivenStays /\ WaitsKept
    BY <1>2 DEF GivenStays, WaitsKept
  <1>6. failures' \in 0..MaxFailures /\ failures <= failures' /\ failures' \in Nat
    BY <1>1, <1>2, ConversationConstants DEF TalkTypes
  <1>7. GivenOK' /\ ForgottenPaid'
    BY <1>1, <1>3, <1>5, <1>6, GivenOKKept, ForgottenOKKept
  <1>8. runs' \in Seq(RunRecord) /\ Len(runs') = Len(runs)
    BY <1>1, <1>2 DEF TalkTypes
  <1> QED BY <1>2, <1>4, <1>5, <1>6, <1>7, <1>8, Unwritten

\* Every step keeps the invariant, one lemma for each action.
LEMMA TalkPreserved == TalkInv /\ [ConversationNext]_conversationVars => TalkInv'
  <1> SUFFICES ASSUME TalkInv, ConversationNext PROVE TalkInv'
    BY TalkStutters
  <1>1. ASSUME NEW c \in Clients, Open(c) \/ Ask(c) PROVE TalkInv'
    BY <1>1, OpenStep, AskStep
  <1>2. ASSUME NEW r \in DOMAIN runs,
               Dispatch(r) \/ DispatchFails(r) \/ Answer(r) \/ CallTool(r) \/ Receive(r)
                  \/ CallFails(r) \/ Delegate(r) \/ Reinvoke(r)
        PROVE  TalkInv'
    BY <1>2, DispatchStep, DispatchFailsStep, AnswerStep, CallToolStep, ReceiveStep,
       CallFailsStep, DelegateStep, ReinvokeStep
  <1> QED BY <1>1, <1>2 DEF ConversationNext

\* The invariant holds in every reachable state.
THEOREM TalkInvariant == ConversationSpec => []TalkInv
  BY TalkInitially, TalkPreserved, PTL DEF ConversationSpec

\* The messages, the branch, the runs and what each client found are of their types in every
\* reachable state, whatever the store refuses when RecordingQueue records (recording.rs).
THEOREM ConversationTypeCorrect == ConversationSpec => []ConversationTypeOK
  <1>1. TalkInv => ConversationTypeOK
    <2> SUFFICES ASSUME TalkInv PROVE ConversationTypeOK
      OBVIOUS
    <2>1. TalkTypes /\ CallersOK
      BY InvParts
    <2>2. \A r \in DOMAIN runs : runs[r] \in RunRecord
      BY <2>1, RunTypes
    <2>3. \A r \in DOMAIN runs : runs[r].at \in Stages /\ runs[r].given \in Seq(Said)
      BY <2>2 DEF RunRecord
    <2> QED BY <2>1, <2>3 DEF TalkTypes, CallersOK, ConversationTypeOK, Stages
  <1> QED BY <1>1, TalkInvariant, PTL

\* The history that walk_chain_to_messages gives an agent is in the order in which it was said,
\* nothing of it twice, each result under its call; and what is missing of it is never more than
\* one message for each insert, parent or read that failed.
THEOREM GivenCorrect == ConversationSpec => []GivenAsSaid
  <1>1. TalkInv => GivenAsSaid
    <2> SUFFICES ASSUME TalkInv PROVE GivenAsSaid
      OBVIOUS
    <2>1. GivenOK /\ ForgottenPaid
      BY InvParts
    <2>2. GivenInOrder
      BY <2>1 DEF GivenOK, GivenOne, GivenInOrder
    <2>3. OneFaultOneMessage
      BY <2>1 DEF ForgottenPaid, OneFaultOneMessage
    <2> QED BY <2>2, <2>3 DEF GivenAsSaid
  <1> QED BY <1>1, TalkInvariant, PTL

-----------------------------------------------------------------------------
(* The transcript *)

Nothing == [entries |-> <<>>, pending |-> {}, fails |-> FALSE]

\* What was shown after each node.
ShownAt(g) == /\ DOMAIN g = 0..Len(dag) /\ g[0] = Nothing
              /\ \A n \in 1..Len(dag) : g[n] = Show(g[n - 1], dag[n])

\* The greatest of some positions up to n + 1 is n + 1 if it is one of them.
LEMMA GreatestIs ==
    ASSUME NEW n \in Nat, NEW t \in SUBSET (1..(n + 1)), n + 1 \in t
    PROVE  Max(t) = n + 1
  <1>1. \A y \in t : n + 1 >= y
    OBVIOUS
  <1>2. \A x \in t : (\A y \in t : x >= y) => x = n + 1
    <2> TAKE x \in t
    <2> HAVE \A y \in t : x >= y
    <2>1. x >= n + 1 /\ x \in Int /\ n + 1 >= x
      BY <1>1
    <2> QED BY <2>1
  <1> QED BY <1>1, <1>2 DEF Max

\* The fold goes over the sets of the positions, the greatest of each last.
FoldsTo(f, n) == f = [t \in SUBSET (1..n) |-> IF t = {} THEN Nothing
                                            ELSE Show(f[t \ {Max(t)}], dag[Max(t)])]

\* A fold over the sets of the first n positions goes on to those of the first n + 1.
LEMMA FoldsOn ==
    ASSUME NEW n \in Nat, NEW f, FoldsTo(f, n)
    PROVE  \E g : FoldsTo(g, n + 1)
  <1> DEFINE g == [t \in SUBSET (1..(n + 1)) |->
                      IF n + 1 \in t THEN Show(f[t \ {n + 1}], dag[n + 1]) ELSE f[t]]
  <1>1. ASSUME NEW t \in SUBSET (1..(n + 1))
        PROVE  g[t] = IF t = {} THEN Nothing ELSE Show(g[t \ {Max(t)}], dag[Max(t)])
    <2>1. CASE n + 1 \in t
      <3>1. Max(t) = n + 1
        BY <2>1, GreatestIs
      <3>2. t \ {n + 1} \in SUBSET (1..(n + 1)) /\ n + 1 \notin t \ {n + 1}
        OBVIOUS
      <3>3. g[t \ {n + 1}] = f[t \ {n + 1}]
        BY <3>2
      <3>4. g[t] = Show(f[t \ {n + 1}], dag[n + 1])
        BY <2>1
      <3> QED BY <2>1, <3>1, <3>3, <3>4
    <2>2. CASE n + 1 \notin t
      <3>1. t \in SUBSET (1..n) /\ g[t] = f[t]
        BY <2>2
      <3>2. f[t] = IF t = {} THEN Nothing ELSE Show(f[t \ {Max(t)}], dag[Max(t)])
        BY <3>1 DEF FoldsTo
      <3>3. t \ {Max(t)} \in SUBSET (1..(n + 1)) /\ n + 1 \notin t \ {Max(t)}
        BY <2>2
      <3>4. g[t \ {Max(t)}] = f[t \ {Max(t)}]
        BY <3>3
      <3> QED BY <3>1, <3>2, <3>4
    <2> QED BY <2>1, <2>2
  <1>2. g = [t \in SUBSET (1..(n + 1)) |-> g[t]]
    OBVIOUS
  <1> HIDE DEF g
  <1>3. FoldsTo(g, n + 1)
    BY <1>1, <1>2 DEF FoldsTo
  <1> QED BY <1>3

\* So there is one for every n: CHOOSE in the definition of the fold finds it.
LEMMA FoldExists == ASSUME NEW n \in Nat PROVE \E f : FoldsTo(f, n)
  <1> DEFINE T == {k \in Nat : \E f : FoldsTo(f, k)}
  <1>1. 0 \in T
    <2> DEFINE f == [t \in SUBSET (1..0) |-> Nothing]
    <2>1. SUBSET (1..0) = {{}}
      OBVIOUS
    <2>2. FoldsTo(f, 0)
      BY <2>1 DEF FoldsTo
    <2> QED BY <2>2
  <1>2. \A k \in Nat : k \in T => k + 1 \in T
    BY FoldsOn
  <1>3. T \in SUBSET Nat
    OBVIOUS
  <1> HIDE DEF T
  <1>4. n \in T
    BY <1>1, <1>2, <1>3, Induction
  <1> QED BY <1>4 DEF T

\* The transcript shows the nodes of the branch one after the other.
LEMMA TranscriptIs ==
    ASSUME dag \in Seq(Nodes)
    PROVE  \E g : ShownAt(g) /\ Transcript = g[Len(dag)]
  <1> PICK N \in Nat : N = Len(dag) /\ DOMAIN dag = 1..N
    BY SeqElement
  <1> DEFINE F0 == CHOOSE f : FoldsTo(f, N)
  <1>1. Transcript = F0[1..N]
    BY DEF Transcript, FoldLeft, MapThenFoldSet, Nothing, FoldsTo
  <1>2. FoldsTo(F0, N)
    BY FoldExists
  <1> HIDE DEF F0
  <1> DEFINE g == [n \in 0..N |-> F0[1..n]]
  <1>3. g[0] = Nothing
    <2>1. 1..0 = {} /\ {} \in SUBSET (1..N) /\ g[0] = F0[1..0]
      OBVIOUS
    <2> QED BY <1>2, <2>1 DEF FoldsTo
  <1>4. ASSUME NEW n \in 1..N PROVE g[n] = Show(g[n - 1], dag[n])
    <2> PICK k \in Nat : k = n - 1 /\ n = k + 1
      OBVIOUS
    <2>1. 1..n \in SUBSET (1..N) /\ 1..n # {} /\ 1..n \in SUBSET (1..(k + 1)) /\ k + 1 \in 1..n
      <3>1. n \in 1..n /\ n \in Nat /\ n <= N
        OBVIOUS
      <3>2. \A x \in 1..n : x \in 1..N
        BY <3>1
      <3> QED BY <3>1, <3>2
    <2>2. Max(1..n) = n
      BY <2>1, GreatestIs
    <2>3. (1..n) \ {n} = 1..(n - 1)
      OBVIOUS
    <2>4. g[n] = F0[1..n] /\ g[n - 1] = F0[1..(n - 1)]
      OBVIOUS
    <2>5. F0[1..n] = Show(F0[(1..n) \ {Max(1..n)}], dag[Max(1..n)])
      BY <1>2, <2>1 DEF FoldsTo
    <2> QED BY <2>2, <2>3, <2>4, <2>5
  <1>5. DOMAIN g = 0..N /\ g[N] = F0[1..N]
    OBVIOUS
  <1> HIDE DEF g
  <1>6. ShownAt(g)
    BY <1>3, <1>4, <1>5 DEF ShownAt
  <1> QED BY <1>1, <1>5, <1>6

Shown == [entries : Seq(Said), pending : SUBSET (Nodes \X Nat), fails : BOOLEAN]

\* What leaves the pending calls as they are.
Quiet(id) == sent[id].type \in {"request", "response"} \/ sent[id].error

\* An answer that is shown without the name of its call.
Unnamed(e) == e.by = "tool" /\ e.call = NoOf

\* Concatenation of at most one element.
LEMMA AppendedIs ==
    ASSUME NEW q \in Seq(Said), NEW x \in Said
    PROVE  q \o <<x>> = Append(q, x) /\ q \o <<>> = q
  BY AppendIsConcat, ConcatEmptySeq

\* What is shown of one node, by the type of its message.
LEMMA ShowIs ==
    ASSUME TalkTypes, MessagesOK, NEW shown \in Shown, NEW id \in DOMAIN sent, NEW after,
           after = Show(shown, id)
    PROVE  /\ after \in Shown /\ (shown.fails => after.fails)
           /\ Quiet(id) => after.pending = shown.pending
           /\ sent[id].type = "complete" /\ id \in typed /\ sent[id].calls # NoCalls
                 => after.pending = CallsOf(id)
           /\ \/ after.entries = shown.entries
              \/ \E e \in Said :
                    /\ after.entries = Append(shown.entries, e)
                    /\ Unnamed(e) =>
                          /\ e.from = id /\ sent[id].type = "response"
                          /\ ~after.fails =>
                                /\ Answered(id)
                                /\ \/ sent[sent[id].parent].of \notin shown.pending
                                   \/ sent[sent[id].parent].of = NoOf
  <1>1. sent[id] \in Sent /\ id \in Nodes /\ NoOf \in Nodes \X Nat
    <2>1. sent[id] \in Sent /\ id \in Nat /\ id <= Len(sent) /\ Len(sent) \in Nat
      BY MessageTypes
    <2>2. id \in Nodes
      BY <2>1, ConversationConstants DEF TalkTypes, Nodes
    <2> QED BY <2>1, <2>2, NoOfIs
  <1>2. /\ sent[id].type \in {"invoke", "complete", "request", "response"}
        /\ sent[id].error => sent[id].type = "complete" /\ sent[id].calls = NoCalls
    BY <1>1 DEF Sent, MessagesOK, MessageOK
  <1>3. /\ shown.entries \in Seq(Said) /\ shown.pending \in SUBSET (Nodes \X Nat)
        /\ shown.fails \in BOOLEAN
    BY DEF Shown
  <1>4. CASE sent[id].type = "invoke"
    <2>1. after = [shown EXCEPT !.entries = IF id \in typed THEN @ \o Input(id) ELSE @,
                                !.pending = {}]
      BY <1>4 DEF Show
    <2>2. User(id) \in Said /\ ~Unnamed(User(id))
      BY <1>1 DEF User, Said, Unnamed
    <2>3. /\ after.entries = IF id \in typed THEN shown.entries \o Input(id) ELSE shown.entries
          /\ after.pending = {} /\ after.fails = shown.fails
      BY <2>1 DEF Shown
    <2>4. after.entries = shown.entries \/ after.entries = Append(shown.entries, User(id))
      <3>1. /\ shown.entries \o <<User(id)>> = Append(shown.entries, User(id))
            /\ shown.entries \o <<>> = shown.entries
        BY <1>3, <2>2, AppendedIs
      <3>2. Input(id) = <<User(id)>> \/ Input(id) = <<>>
        BY DEF Input
      <3> QED BY <2>3, <3>1, <3>2
    <2>5. after.entries \in Seq(Said)
      <3>1. shown.entries \in Seq(Said)
        BY <1>3
      <3>2. Append(shown.entries, User(id)) \in Seq(Said)
        BY <2>2, <3>1, AppendProperties
      <3> QED BY <2>4, <3>1, <3>2
    <2>6. after \in Shown
      BY <2>1, <2>3, <2>5 DEF Shown
    <2>7. ~Quiet(id)
      BY <1>2, <1>4 DEF Quiet
    <2> QED BY <1>4, <2>2, <2>3, <2>4, <2>6, <2>7
  <1>5. CASE sent[id].type = "complete" /\ id \in typed
    <2>1. after = [shown EXCEPT !.entries = IF sent[id].error THEN @ ELSE Append(@, Agent(id)),
                                !.pending = IF sent[id].calls = NoCalls THEN @ ELSE CallsOf(id)]
      BY <1>5 DEF Show
    <2>2. Agent(id) \in Said /\ ~Unnamed(Agent(id))
      BY <1>1 DEF Agent, Said, Unnamed
    <2>3. CallsOf(id) \in SUBSET (Nodes \X Nat)
      <3>1. sent[id].calls \in Seq({"tool", "delegate"})
        BY <1>1, ConversationConstants, EmptySeq DEF Sent, NoCalls
      <3>2. DOMAIN sent[id].calls \subseteq Nat
        BY <3>1, SeqElement
      <3> QED BY <1>1, <3>2 DEF CallsOf
    <2>4. /\ after.entries = IF sent[id].error THEN shown.entries
                             ELSE Append(shown.entries, Agent(id))
          /\ after.pending = IF sent[id].calls = NoCalls THEN shown.pending ELSE CallsOf(id)
          /\ after.fails = shown.fails
      BY <2>1 DEF Shown
    <2>5. after.entries \in Seq(Said)
      BY <1>3, <2>2, <2>4, SeqAppend
    <2>6. after \in Shown
      BY <1>3, <2>1, <2>3, <2>4, <2>5 DEF Shown
    <2>7. Quiet(id) => after.pending = shown.pending
      BY <1>2, <1>5, <2>4 DEF Quiet
    <2> QED BY <1>5, <2>2, <2>4, <2>6, <2>7
  <1>6. CASE sent[id].type = "response"
    <2> DEFINE of == sent[sent[id].parent].of
    <2> PICK e : e = IF Answered(id) /\ of \in shown.pending THEN Tool(id, of) ELSE Tool(id, NoOf)
      OBVIOUS
    <2>1. after = [shown EXCEPT !.fails = @ \/ id \notin typed \/ ~Answered(id),
                                !.entries = IF Answered(id) /\ of \in shown.pending
                                            THEN Append(@, Tool(id, of))
                                            ELSE Append(@, Tool(id, NoOf))]
      BY <1>6 DEF Show
    <2>2. e \in Said /\ e.from = id
      BY <1>1, <1>3 DEF Tool, Said
    <2>3. /\ after.entries = Append(shown.entries, e) /\ after.pending = shown.pending
          /\ after.fails = (shown.fails \/ id \notin typed \/ ~Answered(id))
      BY <2>1 DEF Shown
    <2>4. after.entries \in Seq(Said)
      BY <1>3, <2>2, <2>3, SeqAppend
    <2>5. after \in Shown
      BY <1>3, <2>1, <2>3, <2>4 DEF Shown
    <2>6. Answered(id) /\ of \in shown.pending => e.call = of
      BY DEF Tool
    <2>7. Unnamed(e) /\ ~after.fails => Answered(id) /\ (of \notin shown.pending \/ of = NoOf)
      BY <2>3, <2>6 DEF Unnamed
    <2> QED BY <1>6, <2>2, <2>3, <2>5, <2>7
  <1>7. CASE sent[id].type = "request" \/ (sent[id].type = "complete" /\ id \notin typed)
    <2>1. after = shown
      BY <1>7 DEF Show
    <2> QED BY <1>7, <2>1
  <1> QED BY <1>2, <1>4, <1>5, <1>6, <1>7

\* Why an answer may be without the name of its call.
Excused(e) ==
    LET request == sent[e.from].of[1]
    IN \/ sent[request].of[1] \notin typed
       \/ \E i \in sent[request].of[1]..e.from : sent[i].run # sent[e.from].run

\* The calls of a completion are pending as long as only quiet nodes come after it.
PendingKept(shown, n) ==
    \A p \in 1..n : LET c == dag[p] IN
        /\ sent[c].type = "complete" /\ c \in typed /\ sent[c].calls # NoCalls
        /\ \A x \in (p + 1)..n : Quiet(dag[x])
        => shown.pending = CallsOf(c)

NamedSoFar(shown) == shown.fails \/ \A k \in DOMAIN shown.entries :
    Unnamed(shown.entries[k]) => Excused(shown.entries[k])

\* The calls of the answer that comes next are pending, or it is excused.
LEMMA PendingThen ==
    ASSUME TalkTypes, MessagesOK, BranchOK, NEW n \in Nat, n + 1 \in DOMAIN dag,
           NEW shown, PendingKept(shown, n), NEW id, id = dag[n + 1],
           sent[id].type = "response", Answered(id), NEW e, e.from = id, ~Excused(e)
    PROVE  /\ sent[sent[id].parent].of \in shown.pending
           /\ sent[sent[id].parent].of # NoOf
  <1>1. id \in DOMAIN sent /\ DOMAIN sent = 1..Len(sent) /\ Len(sent) \in Nat
    BY SeqElement DEF BranchOK, TalkTypes
  <1> PICK q : q = sent[id].of[1]
    OBVIOUS
  <1> PICK c : c = sent[q].of[1]
    OBVIOUS
  <1>2. /\ q \in 1..(id - 1) /\ q \in DOMAIN sent /\ sent[q].type = "request"
        /\ sent[id].parent = q /\ OnlyCalls(c, id, sent[id].run)
    <2>1. ReplyOK(id)
      BY <1>1 DEF MessagesOK, MessageOK
    <2> QED BY <1>1, <2>1 DEF ReplyOK, Answered
  <1>3. /\ c \in 1..(q - 1) /\ c \in DOMAIN sent /\ sent[c].type = "complete" /\ ~sent[c].error
        /\ sent[q].of[2] \in DOMAIN sent[c].calls
    <2>1. CallOK(q)
      BY <1>2 DEF MessagesOK, MessageOK
    <2>2. q \in Nat /\ q <= Len(sent)
      BY <1>1, <1>2
    <2>3. \A i \in 1..(q - 1) : i \in DOMAIN sent
      BY <1>1, <2>2
    <2> QED BY <1>2, <2>1, <2>3 DEF CallOK
  <1>4. sent[q].of = <<c, sent[q].of[2]>>
    <2>1. sent[q] \in Sent
      BY <1>2, MessageTypes
    <2>2. sent[q].of \in Nodes \X Nat
      BY <2>1 DEF Sent
    <2> QED BY <2>2
  <1>5. sent[q].of \in CallsOf(c) /\ sent[q].of # NoOf /\ sent[c].calls # NoCalls
    <2>1. sent[q].of \in CallsOf(c)
      BY <1>3, <1>4 DEF CallsOf
    <2>2. c # 0
      <3>1. \A i \in DOMAIN sent : i # 0
        BY <1>1
      <3> QED BY <1>3, <3>1
    <2>3. sent[q].of # NoOf
      <3>1. NoOf[1] = 0
        BY DEF NoOf
      <3> QED BY <2>2, <3>1
    <2>4. sent[c].calls # NoCalls
      <3>1. DOMAIN sent[c].calls # {}
        BY <1>3
      <3>2. DOMAIN <<>> = {}
        BY EmptySeq
      <3> QED BY <3>1, <3>2 DEF NoCalls
    <2> QED BY <2>1, <2>3, <2>4
  <1>6. c \in typed /\ \A i \in c..id : sent[i].run = sent[id].run
    BY DEF Excused
  <1>7. PICK p \in DOMAIN dag : dag[p] = c
    BY <1>6 DEF TalkTypes, ToSet
  <1>8. DOMAIN dag = 1..Len(dag) /\ Len(dag) \in Nat
    BY SeqElement DEF TalkTypes
  <1>9. ~sent[id].error
    BY <1>1 DEF MessagesOK, MessageOK
  <1>10. p \in 1..n
    <2>1. c < id /\ c \in Nat /\ id \in Nat
      <3>1. id \in Nat /\ q \in Nat /\ q < id
        BY <1>1, <1>2
      <3>2. c \in 1..(q - 1)
        BY <1>3
      <3> QED BY ONLY <3>1, <3>2
    <2>2. p # n + 1
      <3>1. c # id
        BY ONLY <2>1
      <3> QED BY <1>7, <3>1
    <2>3. ~(n + 1 < p)
      <3>1. n + 1 < p => dag[n + 1] < dag[p] \/ sent[dag[p]].error
        BY DEF BranchOK
      <3>2. ~(id < c)
        BY ONLY <2>1
      <3>3. ~sent[c].error
        BY <1>3
      <3> QED BY <1>7, <3>1, <3>2, <3>3
    <2>4. p \in 1..Len(dag) /\ Len(dag) \in Nat /\ n \in Nat
      BY <1>8
    <2> QED BY ONLY <2>2, <2>3, <2>4
  <1>11. ASSUME NEW x \in (p + 1)..n PROVE Quiet(dag[x])
    <2> PICK y : y = dag[x]
      OBVIOUS
    <2>1. x \in DOMAIN dag /\ p < x /\ x < n + 1 /\ y \in DOMAIN sent
      <3>1. x \in DOMAIN dag /\ p < x /\ x < n + 1
        BY <1>8, <1>10
      <3> QED BY <3>1 DEF BranchOK
    <2>2. c < y \/ sent[y].error
      BY <1>7, <2>1 DEF BranchOK
    <2>3. y < id
      BY <1>9, <2>1 DEF BranchOK
    <2>4. CASE c < y
      <3>1. y \in c..id /\ y \in (c + 1)..(id - 1)
        <4>1. \A i \in DOMAIN sent : i \in Nat
          BY <1>1
        <4>2. id \in Nat /\ y \in Nat /\ c \in Nat
          BY <1>1, <1>3, <2>1, <4>1
        <4> QED BY <2>3, <2>4, <4>2
      <3>2. sent[y].run = sent[id].run
        BY <1>6, <3>1
      <3> QED BY <1>2, <3>1, <3>2 DEF OnlyCalls, Quiet
    <2> QED BY <2>2, <2>4 DEF Quiet
  <1>12. shown.pending = CallsOf(c)
    BY <1>3, <1>5, <1>6, <1>7, <1>10, <1>11 DEF PendingKept
  <1> QED BY <1>2, <1>5, <1>12

\* The calls that are pending, and the names of the answers, after one node more.
LEMMA ShownStep ==
    ASSUME TalkTypes, MessagesOK, BranchOK, NEW n \in Nat, n + 1 \in DOMAIN dag,
           NEW shown \in Shown, NamedSoFar(shown), PendingKept(shown, n),
           NEW after, after = Show(shown, dag[n + 1])
    PROVE  after \in Shown /\ NamedSoFar(after) /\ PendingKept(after, n + 1)
  <1> PICK id : id = dag[n + 1]
    OBVIOUS
  <1>1. id \in DOMAIN sent
    BY DEF BranchOK
  <1>2. /\ after \in Shown /\ (shown.fails => after.fails)
        /\ Quiet(id) => after.pending = shown.pending
        /\ sent[id].type = "complete" /\ id \in typed /\ sent[id].calls # NoCalls
              => after.pending = CallsOf(id)
    BY <1>1, ShowIs
  <1>3. \/ after.entries = shown.entries
        \/ \E e \in Said :
              /\ after.entries = Append(shown.entries, e)
              /\ Unnamed(e) =>
                    /\ e.from = id /\ sent[id].type = "response"
                    /\ ~after.fails =>
                          /\ Answered(id)
                          /\ \/ sent[sent[id].parent].of \notin shown.pending
                             \/ sent[sent[id].parent].of = NoOf
    BY <1>1, ShowIs
  <1>4. PendingKept(after, n + 1)
    <2> SUFFICES ASSUME NEW p \in 1..(n + 1), sent[dag[p]].type = "complete", dag[p] \in typed,
                        sent[dag[p]].calls # NoCalls,
                        \A x \in (p + 1)..(n + 1) : Quiet(dag[x])
                 PROVE  after.pending = CallsOf(dag[p])
      BY DEF PendingKept
    <2>1. CASE p = n + 1
      BY <1>2, <2>1
    <2>2. CASE p # n + 1
      <3>1. p \in 1..n /\ n + 1 \in (p + 1)..(n + 1) /\ \A x \in (p + 1)..n : x \in (p + 1)..(n + 1)
        BY <2>2
      <3>2. Quiet(id) /\ \A x \in (p + 1)..n : Quiet(dag[x])
        BY <3>1
      <3>3. shown.pending = CallsOf(dag[p])
        BY <3>1, <3>2 DEF PendingKept
      <3> QED BY <1>2, <3>2, <3>3
    <2> QED BY <2>1, <2>2
  <1>5. NamedSoFar(after)
    <2> SUFFICES ASSUME ~after.fails, NEW k \in DOMAIN after.entries, Unnamed(after.entries[k])
                 PROVE  Excused(after.entries[k])
      BY DEF NamedSoFar
    <2>1. \A j \in DOMAIN shown.entries : Unnamed(shown.entries[j]) => Excused(shown.entries[j])
      BY <1>2 DEF NamedSoFar
    <2>2. CASE after.entries = shown.entries
      BY <2>1, <2>2
    <2>3. ASSUME NEW e \in Said, after.entries = Append(shown.entries, e),
                 Unnamed(e) => /\ e.from = id /\ sent[id].type = "response"
                               /\ ~after.fails =>
                                     /\ Answered(id)
                                     /\ \/ sent[sent[id].parent].of \notin shown.pending
                                        \/ sent[sent[id].parent].of = NoOf
          PROVE  Excused(after.entries[k])
      <3>1. shown.entries \in Seq(Said)
        BY DEF Shown
      <3>2. \/ k \in DOMAIN shown.entries /\ after.entries[k] = shown.entries[k]
            \/ after.entries[k] = e
        BY <2>3, <3>1, SeqAppend
      <3>3. Unnamed(e) => Excused(e)
        BY <2>3, PendingThen
      <3> QED BY <2>1, <3>2, <3>3
    <2> QED BY <1>3, <2>2, <2>3
  <1> QED BY <1>2, <1>4, <1>5

\* Induction over the nodes of the branch: every answer has its name or an excuse.
LEMMA NamedFromInv == ASSUME TalkInv PROVE AnswersNamed
  <1>1. TalkTypes /\ MessagesOK /\ BranchOK
    BY InvParts
  <1>2. DOMAIN dag = 1..Len(dag) /\ Len(dag) \in Nat
    BY <1>1, SeqElement DEF TalkTypes
  <1>3. PICK g : ShownAt(g) /\ Transcript = g[Len(dag)]
    BY <1>1, TranscriptIs DEF TalkTypes
  <1> DEFINE T == {n \in Nat : n \in 0..Len(dag) =>
                        g[n] \in Shown /\ NamedSoFar(g[n]) /\ PendingKept(g[n], n)}
  <1>4. 0 \in T
    <2>1. g[0] = Nothing
      BY <1>3 DEF ShownAt
    <2>2. Nothing \in Shown /\ NamedSoFar(Nothing) /\ PendingKept(Nothing, 0)
      BY EmptySeq DEF Nothing, Shown, NamedSoFar, PendingKept
    <2> QED BY <2>1, <2>2
  <1>5. ASSUME NEW n \in Nat, n \in T PROVE n + 1 \in T
    <2> SUFFICES ASSUME n + 1 \in 0..Len(dag)
                 PROVE  g[n + 1] \in Shown /\ NamedSoFar(g[n + 1]) /\ PendingKept(g[n + 1], n + 1)
      OBVIOUS
    <2>1. n \in 0..Len(dag) /\ n + 1 \in 1..Len(dag) /\ (n + 1) - 1 = n
      BY <1>2
    <2>2. g[n] \in Shown /\ NamedSoFar(g[n]) /\ PendingKept(g[n], n)
      BY <1>5, <2>1
    <2>3. g[n + 1] = Show(g[n], dag[n + 1])
      BY <1>3, <2>1 DEF ShownAt
    <2> QED BY <1>1, <1>2, <2>1, <2>2, <2>3, ShownStep
  <1>6. T \in SUBSET Nat
    OBVIOUS
  <1> HIDE DEF T
  <1>7. Len(dag) \in T
    BY <1>2, <1>4, <1>5, <1>6, Induction
  <1>8. NamedSoFar(Transcript)
    BY <1>2, <1>3, <1>7 DEF T
  <1> QED BY <1>8 DEF NamedSoFar, Excused, Unnamed, AnswersNamed

\* The transcript that the terminal makes of the branch shows every answer of a tool under the
\* name of its call, unless the row of the completion that called was refused, or another run
\* sent something in between, or the transcript cannot be made: whatever the runs and failures.
THEOREM AnswersNamedAlways == ConversationSpec => []AnswersNamed
  BY TalkInvariant, NamedFromInv, PTL
===============================================================================
