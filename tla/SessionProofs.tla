---------------------------- MODULE SessionProofs ----------------------------
(***************************************************************************)
(* Theorems about the two sides of a session, for every value of the       *)
(* constants: its timeline, what clients, branches and forks make of the   *)
(* DAG (SessionTimeline), and the queues that carry its messages between   *)
(* the platform's processes (Queues), with the promise they keep           *)
(* (MessageQueue).                                                         *)
(***************************************************************************)
EXTENDS SessionTimeline, Queues, SequenceTheorems, FiniteSetTheorems, WellFoundedInduction, TLAPS
-----------------------------------------------------------------------------
(* Sequences *)

\* Elements of a sequence of S are in S.
LEMMA SeqElement ==
    ASSUME NEW S, NEW q \in Seq(S)
    PROVE  /\ \A i \in DOMAIN q : q[i] \in S
           /\ DOMAIN q = 1..Len(q)
           /\ Len(q) \in Nat
  BY LenProperties

\* Appending keeps every element where it is and adds one at the end.
LEMMA SeqAppend ==
    ASSUME NEW S, NEW q \in Seq(S), NEW x \in S
    PROVE  /\ Append(q, x) \in Seq(S)
           /\ Len(Append(q, x)) = Len(q) + 1
           /\ DOMAIN Append(q, x) = DOMAIN q \cup {Len(q) + 1}
           /\ \A i \in DOMAIN q : Append(q, x)[i] = q[i]
           /\ Append(q, x)[Len(q) + 1] = x
  BY AppendProperties, LenProperties

\* Changing one element to a value of the same set keeps a sequence of that set.
LEMMA SeqExcept ==
    ASSUME NEW S, NEW q \in Seq(S), NEW i, NEW x, i \in DOMAIN q => x \in S
    PROVE  /\ [q EXCEPT ![i] = x] \in Seq(S)
           /\ Len([q EXCEPT ![i] = x]) = Len(q)
           /\ DOMAIN [q EXCEPT ![i] = x] = DOMAIN q
           /\ \A j \in DOMAIN q : [q EXCEPT ![i] = x][j] = IF j = i THEN x ELSE q[j]
  <1>1. DOMAIN q = 1..Len(q) /\ q \in [1..Len(q) -> S] /\ Len(q) \in Nat
    BY LenProperties
  <1>2. CASE i \in DOMAIN q
    BY <1>1, <1>2, ExceptSeq
  <1>3. CASE i \notin DOMAIN q
    <2>1. [q EXCEPT ![i] = x] = q
      BY <1>1, <1>3
    <2> QED BY <1>1, <1>3, <2>1
  <1> QED BY <1>2, <1>3

-----------------------------------------------------------------------------
(* Types *)

LEMMA DagElement ==
    TypeOK => /\ \A n \in DOMAIN dag : dag[n] \in Node
              /\ DOMAIN dag = 1..Len(dag)
              /\ Len(dag) \in Nat
  <1>1. TypeOK => dag \in Seq(Node)
    BY DEF TypeOK
  <1> QED BY <1>1, SeqElement

LEMMA BranchElement ==
    TypeOK => /\ \A b \in BranchIds : branches[b] \in Branch
              /\ BranchIds = 1..Len(branches)
              /\ Len(branches) \in Nat
  <1>1. TypeOK => branches \in Seq(Branch)
    BY DEF TypeOK
  <1> QED BY <1>1, SeqElement DEF BranchIds

LEMMA ContextType ==
    TypeOK => \A c \in Clients : /\ ctx[c] \in Context
                                 /\ pc[c] \in PC
  BY DEF TypeOK

LEMMA NewNodeType ==
    ASSUME TypeOK, NEW t \in NodeType, NEW s \in Sessions, NEW b \in Nat, NEW p,
           p \in Nat, NEW body \in Nat, NEW st \in MaybeState
    PROVE  NewNode(t, s, b, p, body, st) \in Node
  BY DEF NewNode, Node

LEMMA MessageStateType == TypeOK => \A p : MessageState(p) \in MaybeState
  BY DagElement DEF MessageState, Node, MaybeState

LEMMA NewNodeFields ==
    ASSUME NEW t, NEW s, NEW b, NEW p, NEW body, NEW st
    PROVE  LET n == NewNode(t, s, b, p, body, st) IN
           /\ n.type = t /\ n.session = s /\ n.branch = b /\ n.parent = p /\ n.body = body
           /\ n.state = st
  BY DEF NewNode

\* Recording a node leaves the DAG alone or appends that node.
LEMMA RecordEffect ==
    ASSUME TypeOK, NEW n \in Node, Record(n)
    PROVE  /\ dag' \in Seq(Node)
           /\ \/ ~Inserted(n) /\ dag' = dag
              \/ /\ Inserted(n)
                 /\ dag' = Append(dag, n)
                 /\ Len(dag') = Len(dag) + 1
                 /\ DOMAIN dag' = DOMAIN dag \cup {Len(dag) + 1}
                 /\ \A m \in DOMAIN dag : dag'[m] = dag[m]
                 /\ dag'[Len(dag) + 1] = n
  <1>1. dag \in Seq(Node)
    BY DEF TypeOK
  <1>2. CASE Inserted(n)
    BY <1>1, <1>2, SeqAppend DEF Record
  <1>3. CASE ~Inserted(n)
    BY <1>1, <1>3 DEF Record
  <1> QED BY <1>2, <1>3

\* Renaming a branch changes nothing but its name.
LEMMA RenameEffect ==
    ASSUME TypeOK, NEW b, NEW name \in Names, Rename(b, name)
    PROVE  /\ branches' \in Seq(Branch)
           /\ Len(branches') = Len(branches)
           /\ DOMAIN branches' = DOMAIN branches
           /\ \A d \in DOMAIN branches :
                /\ branches'[d].session = branches[d].session
                /\ branches'[d].fork_point = branches[d].fork_point
                /\ branches'[d].sealed = branches[d].sealed
                /\ \/ branches'[d].name = branches[d].name
                   \/ d = b /\ branches'[d].name = name
  <1>1. branches \in Seq(Branch)
    BY DEF TypeOK
  <1>2. CASE branches' = [branches EXCEPT ![b].name = name]
    <2> DEFINE renamed == [branches[b] EXCEPT !.name = name]
    <2>1. b \in DOMAIN branches => renamed \in Branch
      BY BranchElement DEF Branch, BranchIds
    <2>2. branches' = [branches EXCEPT ![b] = renamed]
      BY <1>2
    <2>3. \A d \in DOMAIN branches : branches'[d] = IF d = b THEN renamed ELSE branches[d]
      <3> HIDE DEF renamed
      <3> QED BY <1>1, <2>1, <2>2, SeqExcept
    <2>4. /\ branches' \in Seq(Branch)
          /\ Len(branches') = Len(branches)
          /\ DOMAIN branches' = DOMAIN branches
      <3> HIDE DEF renamed
      <3> QED BY <1>1, <2>1, <2>2, SeqExcept
    <2>5. b \in DOMAIN branches => /\ renamed.session = branches[b].session
                                   /\ renamed.fork_point = branches[b].fork_point
                                   /\ renamed.sealed = branches[b].sealed
                                   /\ renamed.name = name
      BY BranchElement DEF Branch, BranchIds
    <2> HIDE DEF renamed
    <2> QED BY <2>3, <2>4, <2>5
  <1>3. CASE branches' = branches
    BY <1>1, <1>3
  <1> QED BY <1>2, <1>3 DEF Rename

\* Sealing a branch changes nothing but its seal.
LEMMA SealEffect ==
    ASSUME TypeOK, NEW b, Seal(b)
    PROVE  /\ branches' \in Seq(Branch)
           /\ Len(branches') = Len(branches)
           /\ DOMAIN branches' = DOMAIN branches
           /\ \A d \in DOMAIN branches :
                branches'[d] = IF d = b THEN [branches[d] EXCEPT !.sealed = TRUE]
                               ELSE branches[d]
  <1> DEFINE closed == [branches[b] EXCEPT !.sealed = TRUE]
  <1>1. branches \in Seq(Branch)
    BY DEF TypeOK
  <1>2. b \in DOMAIN branches => closed \in Branch
    BY BranchElement DEF Branch, BranchIds
  <1>3. branches' = [branches EXCEPT ![b] = closed]
    BY DEF Seal
  <1>4. /\ branches' \in Seq(Branch)
        /\ Len(branches') = Len(branches)
        /\ DOMAIN branches' = DOMAIN branches
        /\ \A d \in DOMAIN branches : branches'[d] = IF d = b THEN closed ELSE branches[d]
    <2> HIDE DEF closed
    <2> QED BY <1>1, <1>2, <1>3, SeqExcept
  <1> QED BY <1>4

LEMMA NoContextType == NoContext \in Context
  BY DEF NoContext, Context, root, MaybeState, Names

LEMMA GotoType ==
    ASSUME TypeOK, NEW c \in Clients, NEW label \in PC, NEW x \in Context, Goto(c, label, x)
    PROVE  /\ pc' \in [Clients -> PC]
           /\ ctx' \in [Clients -> Context]
  BY DEF Goto, TypeOK

LEMMA FinishType ==
    ASSUME TypeOK, NEW c \in Clients, Finish(c)
    PROVE  /\ pc' \in [Clients -> PC]
           /\ ctx' \in [Clients -> Context]
  BY NoContextType, GotoType DEF Finish, PC

LEMMA LatestType ==
    TypeOK => \A b, d : d \in Nat => OrElse(LatestOn(b), d) \subseteq Nat
  BY DagElement DEF OrElse, LatestOn, NodesOn

\* A recorded node keeps the type of the DAG.
LEMMA RecordType ==
    ASSUME TypeOK, NEW t \in NodeType, NEW s \in Sessions, NEW b \in Nat, NEW p \in Nat,
           NEW body \in Nat, NEW st \in MaybeState,
           Record(NewNode(t, s, b, p, body, st))
    PROVE  dag' \in Seq(Node)
  BY NewNodeType, RecordEffect

LEMMA NewBranchType ==
    ASSUME TypeOK, NEW name \in Names, NEW s \in Sessions, NEW fork \in Nat
    PROVE  /\ NewBranch(name, s, fork) \in Branch
           /\ Append(branches, NewBranch(name, s, fork)) \in Seq(Branch)
  <1>1. NewBranch(name, s, fork) \in Branch
    BY DEF NewBranch, Branch
  <1> QED BY <1>1, SeqAppend DEF TypeOK

-----------------------------------------------------------------------------
(* TypeOK is inductive *)

LEMMA TypeStartSession ==
    ASSUME TypeOK, ClientsOK, NEW c \in Clients, StartSession(c)
    PROVE  TypeOK'
  <1> USE DEF TypeOK
  <1>1. ASSUME NEW e \in ExternalIds, EnsureSession(c, e) PROVE TypeOK'
    <2>1. [NoContext EXCEPT !.name = e] \in Context
      BY NoContextType DEF Context
    <2> QED BY <1>1, <2>1, GotoType DEF EnsureSession, PC
  <1>2. ASSUME NEW s \in Sessions, CreateSession(c, s) PROVE TypeOK'
    <2>1. [NoContext EXCEPT !.session = s] \in Context
      BY NoContextType DEF Context
    <2>2. pc' \in [Clients -> PC] /\ ctx' \in [Clients -> Context]
      <3>1. Goto(c, "registered", [NoContext EXCEPT !.session = s])
        BY <1>2 DEF CreateSession
      <3> QED BY <2>1, <3>1, GotoType DEF PC
    <2>3. /\ external' \in [ExternalIds -> Sessions \cup {NoSession}]
          /\ default' \in [Sessions -> Nat]
      <3>1. \/ /\ external' = [external EXCEPT ![ctx[c].name] = s]
               /\ default' = [default EXCEPT ![s] = 1]
            \/ external' = external /\ default' = default
        BY <1>2 DEF CreateSession
      <3>2. external' \in [ExternalIds -> Sessions \cup {NoSession}]
        BY <3>1
      <3>3. default' \in [Sessions -> Nat]
        BY <3>1
      <3> QED BY <3>2, <3>3
    <2> QED BY <1>2, <2>2, <2>3 DEF CreateSession
  <1>3. CASE CreateMain(c)
    <2>1. ctx[c].session \in Sessions
      BY <1>3 DEF CreateMain, ClientsOK, Consistent
    <2>2. /\ [ctx[c] EXCEPT !.branch = Len(branches) + 1] \in Context
          /\ [ctx[c] EXCEPT !.branch = 1] \in Context
      <3>1. ctx[c] \in Context /\ Len(branches) + 1 \in Nat
        BY ContextType, BranchElement
      <3> QED BY <3>1 DEF Context
    <2>3. branches' \in Seq(Branch)
      BY <1>3, <2>1, NewBranchType DEF CreateMain, Names, root
    <2> QED BY <1>3, <2>2, <2>3, GotoType DEF CreateMain, PC
  <1>4. ASSUME NEW repl \in BOOLEAN, UpdateDefault(c, repl) PROVE TypeOK'
    <2>1. [ctx[c] EXCEPT !.repl = repl] \in Context /\ ctx[c].branch \in Nat
      BY ContextType DEF Context
    <2> QED BY <1>4, <2>1, GotoType DEF UpdateDefault, PC
  <1> QED BY <1>1, <1>2, <1>3, <1>4 DEF StartSession

LEMMA TypeRunAgent ==
    ASSUME TypeOK, ClientsOK, References, NEW c \in Clients, RunAgent(c)
    PROVE  TypeOK'
  <1> USE DEF TypeOK
  <1>a. ctx[c] \in Context
    BY ContextType
  <1>b. pc[c] \notin {"idle", "starting"} => ctx[c].session \in Sessions
    BY DEF ClientsOK, Consistent
  <1>1. ASSUME NEW s \in Sessions, NEW label \in {"tip", "harnessTip"},
               ResolveDefault(c, s, label)
        PROVE  TypeOK'
    <2>1. [NoContext EXCEPT !.session = s, !.branch = default[s]] \in Context
      BY NoContextType DEF Context
    <2>2. label \in PC
      BY DEF PC
    <2> QED BY <1>1, <2>1, <2>2, GotoType DEF ResolveDefault
  <1>2. ASSUME NEW b \in BranchIds, ResolveBranch(c, b) PROVE TypeOK'
    <2>1. b \in Nat /\ branches[b].session \in Sessions
      BY BranchElement DEF Branch
    <2>2. [NoContext EXCEPT !.session = branches[b].session, !.branch = b] \in Context
      BY <2>1, NoContextType DEF Context
    <2> QED BY <1>2, <2>2, GotoType DEF ResolveBranch, PC
  <1>3. ASSUME NEW repl \in BOOLEAN, ReadTip(c, repl) PROVE TypeOK'
    <2>1. PICK p \in OrElse(LatestOn(ctx[c].branch), branches[ctx[c].branch].fork_point) :
            Goto(c, "ready", [ctx[c] EXCEPT !.parent = p, !.state = MessageState(p),
                                            !.repl = repl])
      BY <1>3 DEF ReadTip
    <2>2. branches[ctx[c].branch].fork_point \in Nat
      BY <1>3, BranchElement DEF ReadTip, ClientsOK, Consistent, Branch
    <2>3. p \in Nat /\ MessageState(p) \in MaybeState
      BY <2>2, LatestType, MessageStateType
    <2>4. [ctx[c] EXCEPT !.parent = p, !.state = MessageState(p), !.repl = repl] \in Context
      BY <1>a, <2>3 DEF Context
    <2> QED BY <1>3, <2>1, <2>4, GotoType DEF ReadTip, PC
  <1>4. CASE ReadTipInHarness(c)
    <2> DEFINE st(p) == IF LatestOn(ctx[c].branch) = {} THEN NoState ELSE MessageState(p)
    <2>1. PICK p \in OrElse(LatestOn(ctx[c].branch), branches[ctx[c].branch].fork_point) :
            Goto(c, "ready", [ctx[c] EXCEPT !.parent = p, !.state = st(p)])
      BY <1>4 DEF ReadTipInHarness
    <2>2. branches[ctx[c].branch].fork_point \in Nat
      BY <1>4, BranchElement DEF ReadTipInHarness, ClientsOK, Consistent, Branch
    <2>3. p \in Nat /\ st(p) \in MaybeState
      BY <2>2, LatestType, MessageStateType DEF MaybeState
    <2>4. [ctx[c] EXCEPT !.parent = p, !.state = st(p)] \in Context
      BY <1>a, <2>3 DEF Context
    <2> QED BY <1>4, <2>1, <2>4, GotoType DEF ReadTipInHarness, PC
  <1>5. CASE SendInvoke(c)
    <2> DEFINE x == ctx[c]
               n(p) == NewNode("invoke", x.session, x.branch, p, FreshBody, x.state)
    <2>1. PICK p \in IF x.parent = root THEN OrElse(LatestOn(x.branch), root) ELSE {x.parent} :
            /\ Record(n(p))
            /\ Goto(c, "waiting", [x EXCEPT !.sent = IF Inserted(n(p)) THEN Len(dag) + 1 ELSE root])
      BY <1>5 DEF SendInvoke
    <2>2. p \in Nat
      BY <1>a, LatestType DEF Context, root
    <2>3. x.session \in Sessions
      BY <1>5, <1>b DEF SendInvoke
    <2>4. dag' \in Seq(Node)
      <3>1. FreshBody \in Nat /\ "invoke" \in NodeType
        BY DagElement DEF FreshBody, NodeType
      <3> QED BY <1>a, <2>1, <2>2, <2>3, <3>1, RecordType DEF Context
    <2>5. [x EXCEPT !.sent = IF Inserted(n(p)) THEN Len(dag) + 1 ELSE root] \in Context
      <3>1. \A k \in Nat : [x EXCEPT !.sent = k] \in Context
        BY <1>a DEF Context
      <3>2. Len(dag) + 1 \in Nat /\ root \in Nat
        BY DagElement DEF root
      <3> HIDE DEF n, x
      <3> QED BY <3>1, <3>2
    <2> QED BY <1>5, <2>1, <2>4, <2>5, GotoType DEF SendInvoke, PC
  <1>6. ASSUME Return(c) PROVE pc' \in [Clients -> PC] /\ ctx' \in [Clients -> Context]
    <2>1. [ctx[c] EXCEPT !.sent = root] \in Context
      BY <1>a DEF Context, root
    <2> QED BY <1>6, <2>1, GotoType, FinishType DEF Return, PC
  <1>7. ASSUME NEW st \in MaybeState, CompleteTurn(c, st) PROVE TypeOK'
    <2>1. ctx[c].session \in Sessions
      BY <1>7, <1>b DEF CompleteTurn
    <2>2. dag' \in Seq(Node)
      BY <1>7, <1>a, <2>1, RecordType DEF CompleteTurn, Context, NodeType, OutputBody
    <2> QED BY <1>6, <1>7, <2>2 DEF CompleteTurn
  <1>8. CASE FailTurn(c)
    <2>1. ctx[c].session \in Sessions
      BY <1>8, <1>b DEF FailTurn
    <2>2. dag' \in Seq(Node)
      BY <1>8, <1>a, <2>1, RecordType
      DEF FailTurn, Context, NodeType, ErrorBody, MaybeState, root
    <2> QED BY <1>6, <1>8, <2>2 DEF FailTurn
  <1>9. CASE Leave(c)
    BY <1>9, FinishType DEF Leave
  <1> QED BY <1>1, <1>2, <1>3, <1>4, <1>5, <1>7, <1>8, <1>9 DEF RunAgent

LEMMA TypeForkTimeline ==
    ASSUME TypeOK, ClientsOK, NEW c \in Clients, ForkTimeline(c)
    PROVE  TypeOK'
  <1> USE DEF TypeOK
  <1>a. ctx[c] \in Context
    BY ContextType
  <1>b. pc[c] \notin {"idle", "starting"} => ctx[c].session \in Sessions
    BY DEF ClientsOK, Consistent
  <1>1. ASSUME NEW s \in Sessions, NEW n \in DOMAIN dag, NEW name \in ForkNames,
               Fork(c, s, n, name)
        PROVE  TypeOK'
    <2>1. [NoContext EXCEPT !.session = s, !.parent = n, !.name = name] \in Context
      <3>1. n \in Nat
        BY DagElement
      <3> QED BY <3>1, NoContextType DEF Context, Names
    <2> QED BY <1>1, <2>1, GotoType DEF Fork, PC
  <1>2. CASE RecordFork(c)
    <2>1. PICK b \in OrElse(BranchesNamed(ctx[c].name), 1) :
            Record(NewNode("fork", ctx[c].session, b, ctx[c].parent, EmptyBody, NoState))
      BY <1>2 DEF RecordFork
    <2>2. b \in Nat
      BY BranchElement DEF OrElse, BranchesNamed
    <2>3. ctx[c].session \in Sessions
      BY <1>2, <1>b DEF RecordFork
    <2>4. dag' \in Seq(Node)
      BY <1>a, <2>1, <2>2, <2>3, RecordType DEF Context, NodeType, EmptyBody, MaybeState
    <2> QED BY <1>2, <1>a, <2>4, GotoType DEF RecordFork, PC
  <1>3. CASE CreateForkBranch(c)
    <2>1. branches' \in Seq(Branch)
      <3>1. ctx[c].session \in Sessions /\ ctx[c].parent \in Nat
        BY <1>3, <1>a, <1>b DEF CreateForkBranch, Context
      <3>2. CASE branches' = branches
        BY <3>2
      <3>3. CASE branches' = Append(branches, NewBranch(ctx[c].name, ctx[c].session, ctx[c].parent))
        <4>1. ctx[c].name \in Names
          BY <1>3 DEF CreateForkBranch, ClientsOK, Consistent, Names
        <4> QED BY <3>1, <3>3, <4>1, NewBranchType
      <3> QED BY <1>3, <3>2, <3>3 DEF CreateForkBranch
    <2> QED BY <1>3, <2>1, FinishType DEF CreateForkBranch
  <1> QED BY <1>1, <1>2, <1>3 DEF ForkTimeline

LEMMA TypePromoteTimeline ==
    ASSUME TypeOK, ClientsOK, NEW c \in Clients, PromoteTimeline(c)
    PROVE  TypeOK'
  <1> USE DEF TypeOK
  <1>a. ctx[c] \in Context
    BY ContextType
  <1>b. pc[c] \notin {"idle", "starting"} => ctx[c].session \in Sessions
    BY DEF ClientsOK, Consistent
  <1>1. ASSUME NEW s \in Sessions, NEW b \in BranchIds, Promote(c, s, b) PROVE TypeOK'
    <2>1. [NoContext EXCEPT !.session = s, !.branch = b] \in Context
      <3>1. b \in Nat
        BY BranchElement
      <3> QED BY <3>1, NoContextType DEF Context
    <2> QED BY <1>1, <2>1, GotoType DEF Promote, PC
  <1>2. CASE RecordPromote(c)
    <2>1. PICK p \in OrElse(LatestOn(ctx[c].branch), root) :
            Record(NewNode("promote", ctx[c].session, ctx[c].branch, p, EmptyBody, NoState))
      BY <1>2 DEF RecordPromote
    <2>2. p \in Nat
      BY LatestType DEF root
    <2>3. ctx[c].session \in Sessions
      BY <1>2, <1>b DEF RecordPromote
    <2>4. dag' \in Seq(Node)
      BY <1>a, <2>1, <2>2, <2>3, RecordType DEF Context, NodeType, EmptyBody, MaybeState
    <2> QED BY <1>2, <1>a, <2>4, GotoType DEF RecordPromote, PC
  <1>3. CASE LookupMain(c)
    <2>1. PICK m \in OrElse(BranchesNamed(MainName), 0) :
            \/ m # 0 /\ Goto(c, "seal", [ctx[c] EXCEPT !.old = m])
            \/ Goto(c, "renameNew", ctx[c])
      BY <1>3 DEF LookupMain
    <2>2. m \in Nat
      BY BranchElement DEF OrElse, BranchesNamed
    <2>3. [ctx[c] EXCEPT !.old = m] \in Context
      BY <1>a, <2>2 DEF Context
    <2> QED BY <1>3, <1>a, <2>1, <2>3, GotoType DEF LookupMain, PC
  <1>4. CASE SealMain(c)
    <2>1. branches' \in Seq(Branch)
      BY <1>4, SealEffect DEF SealMain
    <2> QED BY <1>4, <1>a, <2>1, GotoType DEF SealMain, PC
  <1>5. ASSUME NEW name \in SealedNames, RenameMain(c, name) PROVE TypeOK'
    <2>1. branches' \in Seq(Branch)
      BY <1>5, RenameEffect DEF RenameMain, Names
    <2> QED BY <1>5, <1>a, <2>1, GotoType DEF RenameMain, PC
  <1>6. CASE RenamePromoted(c)
    <2>1. branches' \in Seq(Branch)
      BY <1>6, RenameEffect DEF RenamePromoted, Names
    <2> QED BY <1>6, <1>a, <2>1, GotoType DEF RenamePromoted, PC
  <1>7. CASE SetDefault(c)
    BY <1>7, <1>a, FinishType DEF SetDefault, Context
  <1> QED BY <1>1, <1>2, <1>3, <1>4, <1>5, <1>6, <1>7 DEF PromoteTimeline

-----------------------------------------------------------------------------
(* The inductive invariant *)

\* A complete that names its invoke carries an output and is of its session.
AnswerOK ==
    \A n \in DOMAIN dag :
        dag[n].type = "complete" /\ dag[n].parent # root =>
            dag[n].body = OutputBody /\ dag[dag[n].parent].session = dag[n].session

\* What holds of the tables; ClientsOK is what holds of the clients besides.
StoreOK == /\ References
           /\ LeakConfined
           /\ SessionChange
           /\ ForkPointOfSession
           /\ DefaultOfSession
           /\ StateFromParent
           /\ AnswerOK
           /\ OneCompletePerInvoke

Inv == TypeOK /\ StoreOK /\ ClientsOK /\ MainNameKept

\* A node that may be appended.
Fits(n) ==
    /\ n.parent \in 0..Len(dag)
    /\ n.type # "fork" => n.branch = 1 \/ branches[n.branch].session = n.session
    /\ n.parent # root =>
         \/ dag[n.parent].session = n.session
         \/ branches[n.branch].session # n.session
         \/ Foreign(n.parent)
    /\ n.type = "invoke" /\ n.state # NoState =>
         n.parent # root /\ MessageState(n.parent) = n.state
    /\ n.type = "complete" /\ n.parent # root =>
         n.body = OutputBody /\ dag[n.parent].session = n.session

\* Appending a node that fits keeps the tables consistent.
LEMMA AppendKeepsStore ==
    ASSUME TypeOK, StoreOK, NEW n \in Node, Inserted(n), Fits(n), dag' = Append(dag, n),
           UNCHANGED <<branches, default>>
    PROVE  StoreOK'
  <1>1. /\ DOMAIN dag = 1..Len(dag)
        /\ Len(dag) \in Nat
        /\ Len(dag') = Len(dag) + 1
        /\ DOMAIN dag' = DOMAIN dag \cup {Len(dag) + 1}
        /\ \A m \in DOMAIN dag : dag'[m] = dag[m] /\ dag[m] \in Node
        /\ dag'[Len(dag) + 1] = n
    BY DagElement, SeqAppend DEF TypeOK
  <1>2. /\ \A m \in DOMAIN dag : m < Len(dag) + 1 /\ m # Len(dag) + 1
        /\ Len(dag) + 1 \notin DOMAIN dag
    BY <1>1
  <1>3. BranchIds' = BranchIds /\ \A s : Registered(s)' = Registered(s)
    BY DEF BranchIds, Registered
  <1>4. /\ Registered(n.session) /\ n.branch \in BranchIds /\ n.session \in Sessions
        /\ \A m \in DOMAIN dag : ~SameHash(dag[m], n)
    BY DEF Inserted, Node
  <1>5. \A m \in DOMAIN dag : /\ dag[m].parent \in 0..(m - 1)
                              /\ dag[m].branch \in BranchIds
                              /\ Registered(dag[m].session)
    BY DEF StoreOK, References
  <1>6. \A m \in DOMAIN dag : dag[m].parent # root => dag[m].parent \in DOMAIN dag
    BY <1>1, <1>5 DEF root
  <1>7. n.parent # root => n.parent \in DOMAIN dag
    BY <1>1 DEF Fits, root
  <1>8. References'
    <2>1. \A m \in DOMAIN dag' : /\ dag'[m].parent \in 0..(m - 1)
                                 /\ dag'[m].branch \in BranchIds'
                                 /\ default'[dag'[m].session] # 0
      BY <1>1, <1>3, <1>4, <1>5 DEF Fits, Registered
    <2>2. \A b \in BranchIds : /\ branches[b].fork_point \in 0..Len(dag)
                               /\ Registered(branches[b].session)
      BY DEF StoreOK, References
    <2>3. \A b \in BranchIds' : /\ branches'[b].fork_point \in 0..Len(dag')
                                /\ default'[branches'[b].session] # 0
      BY <1>1, <1>3, <2>2 DEF Registered
    <2> QED BY <2>1, <2>3 DEF References, Registered
  <1>9. LeakConfined'
    BY <1>1, <1>2 DEF StoreOK, LeakConfined, Foreign, Fits
  <1>10. SessionChange'
    BY <1>1, <1>2, <1>6, <1>7 DEF StoreOK, SessionChange, Foreign, Fits
  <1>11. ForkPointOfSession'
    <2>1. \A b \in BranchIds : branches[b].fork_point # root => branches[b].fork_point \in DOMAIN dag
      BY <1>1 DEF StoreOK, References, root
    <2> QED BY <1>1, <1>3, <2>1 DEF StoreOK, ForkPointOfSession
  <1>12. DefaultOfSession'
    BY <1>3 DEF StoreOK, DefaultOfSession
  <1>13. \A m : m # Len(dag) + 1 => MessageState(m)' = MessageState(m)
    BY <1>1 DEF MessageState
  <1>14. \A m \in DOMAIN dag' : dag'[m].parent # Len(dag) + 1
    BY <1>1, <1>5, <1>2, <1>6, <1>7 DEF root
  <1>15. StateFromParent'
    <2>1. \A m \in DOMAIN dag' :
            dag'[m].type = "invoke" /\ dag'[m].state # NoState =>
                dag'[m].parent # root /\ MessageState(dag'[m].parent) = dag'[m].state
      BY <1>1 DEF StoreOK, StateFromParent, Fits
    <2> QED BY <2>1, <1>13, <1>14 DEF StateFromParent
  <1>17. AnswerOK'
    BY <1>1, <1>2, <1>6, <1>7 DEF StoreOK, AnswerOK, Fits
  <1>18. OneCompletePerInvoke'
    <2>1. \A m \in DOMAIN dag :
            dag[m].type = "complete" /\ n.type = "complete" /\ dag[m].parent = n.parent
              => n.parent = root
      BY <1>1, <1>4 DEF StoreOK, AnswerOK, Fits, SameHash
    <2> QED BY <1>1, <2>1 DEF StoreOK, OneCompletePerInvoke
  <1> QED BY <1>8, <1>9, <1>10, <1>11, <1>12, <1>15, <1>17, <1>18 DEF StoreOK

LEMMA UnchangedStore ==
    ASSUME StoreOK, UNCHANGED <<dag, branches, default>>
    PROVE  StoreOK'
  BY DEF StoreOK, References, LeakConfined, SessionChange, ForkPointOfSession,
         DefaultOfSession, StateFromParent, AnswerOK,
         OneCompletePerInvoke, Foreign, MessageState, BranchIds, Registered

\* A recording step keeps the tables consistent if its node fits, whether the
\* node is inserted or ignored.
LEMMA RecordKeepsStore ==
    ASSUME TypeOK, StoreOK, NEW n \in Node, Fits(n), Record(n), UNCHANGED <<branches, default>>
    PROVE  StoreOK'
  <1>1. CASE Inserted(n)
    BY <1>1, AppendKeepsStore DEF Record
  <1>2. CASE ~Inserted(n)
    <2>1. dag' = dag
      BY <1>2 DEF Record
    <2> QED BY <2>1, UnchangedStore
  <1> QED BY <1>1, <1>2

\* Each branch keeps its session and its fork point; a new one is forked from a
\* node of its session, which is registered.
BranchesGrow ==
    /\ \A b \in BranchIds : /\ b \in DOMAIN branches'
                            /\ branches'[b].session = branches[b].session
                            /\ branches'[b].fork_point = branches[b].fork_point
    /\ \A b \in DOMAIN branches' \ BranchIds :
         /\ branches'[b].fork_point \in 0..Len(dag)
         /\ Registered(branches'[b].session)
         /\ branches'[b].fork_point # root =>
              dag[branches'[b].fork_point].session = branches'[b].session

LEMMA BranchesKeepStore ==
    ASSUME TypeOK, StoreOK, BranchesGrow, UNCHANGED <<dag, default>>
    PROVE  StoreOK'
  <1>1. /\ \A n \in DOMAIN dag : dag[n].branch \in BranchIds
        /\ \A n \in DOMAIN dag : dag[n].parent # root => dag[n].parent \in DOMAIN dag
    BY DagElement DEF StoreOK, References, root
  <1>2. References'
    <2>1. \A b \in BranchIds : /\ branches[b].fork_point \in 0..Len(dag)
                               /\ default[branches[b].session] # 0
      BY DEF StoreOK, References, Registered
    <2>2. \A b \in DOMAIN branches' : /\ branches'[b].fork_point \in 0..Len(dag)
                                      /\ default[branches'[b].session] # 0
      BY <2>1 DEF BranchesGrow, Registered
    <2>3. \A n \in DOMAIN dag : /\ dag[n].parent \in 0..(n - 1)
                                /\ dag[n].branch \in DOMAIN branches'
                                /\ default[dag[n].session] # 0
      BY DEF StoreOK, References, Registered, BranchesGrow
    <2> QED BY <2>2, <2>3 DEF References, Registered, BranchIds
  <1>3. \A n \in DOMAIN dag :
          (branches'[dag[n].branch].session # dag[n].session) <=> Foreign(n)
    BY <1>1 DEF Foreign, BranchesGrow
  <1>4. LeakConfined'
    BY <1>3 DEF StoreOK, LeakConfined, Foreign
  <1>5. SessionChange'
    BY <1>1, <1>3 DEF StoreOK, SessionChange, Foreign
  <1>6. ForkPointOfSession'
    BY DEF StoreOK, ForkPointOfSession, BranchesGrow, BranchIds
  <1>7. DefaultOfSession'
    BY DEF StoreOK, DefaultOfSession, BranchesGrow, BranchIds
  <1>8. /\ StateFromParent' /\ AnswerOK' /\ OneCompletePerInvoke'
    BY DEF StoreOK, StateFromParent, AnswerOK, OneCompletePerInvoke,
           MessageState
  <1> QED BY <1>2, <1>4, <1>5, <1>6, <1>7, <1>8 DEF StoreOK

\* A session row changes its default to a branch of the session or the placeholder.
DefaultsMove ==
    \A s \in Sessions :
        \/ default'[s] = default[s]
        \/ default'[s] = 1
        \/ /\ default'[s] # 0
           /\ default'[s] \in BranchIds
           /\ branches[default'[s]].session = s

LEMMA DefaultsKeepStore ==
    ASSUME TypeOK, StoreOK, DefaultsMove, UNCHANGED <<dag, branches>>
    PROVE  StoreOK'
  <1>1. \A s \in Sessions : default[s] # 0 => default'[s] # 0
    BY DEF DefaultsMove
  <1>2. References'
    <2>1. \A n \in DOMAIN dag : dag[n].session \in Sessions
      BY DagElement DEF Node
    <2>2. \A b \in BranchIds : branches[b].session \in Sessions
      BY BranchElement DEF Branch
    <2> QED BY <1>1, <2>1, <2>2 DEF StoreOK, References, Registered, BranchIds
  <1>3. DefaultOfSession'
    BY DEF StoreOK, DefaultOfSession, DefaultsMove, BranchIds
  <1>4. /\ LeakConfined' /\ SessionChange' /\ ForkPointOfSession' /\ StateFromParent'
        /\ AnswerOK' /\ OneCompletePerInvoke'
    BY DEF StoreOK, LeakConfined, SessionChange, ForkPointOfSession, StateFromParent,
           AnswerOK, OneCompletePerInvoke, Foreign, MessageState,
           BranchIds
  <1> QED BY <1>2, <1>3, <1>4 DEF StoreOK

-----------------------------------------------------------------------------
(* What a client remembers *)

\* Nothing a client may have read is taken back.
Grows ==
    /\ \A n \in DOMAIN dag : n \in DOMAIN dag' /\ dag'[n] = dag[n]
    /\ \A b \in BranchIds : b \in DOMAIN branches' /\ branches'[b].session = branches[b].session

LEMMA GotoEffect ==
    ASSUME TypeOK, NEW c \in Clients, NEW label, NEW x, Goto(c, label, x)
    PROVE  /\ pc'[c] = label
           /\ ctx'[c] = x
           /\ \A d \in Clients : d # c => pc'[d] = pc[d] /\ ctx'[d] = ctx[d]
  BY DEF Goto, TypeOK

\* What is consistent with the tables stays so while they grow.
LEMMA ConsistentKept ==
    ASSUME TypeOK, References, Grows, NEW label, NEW x, Consistent(label, x)
    PROVE  Consistent(label, x)'
  <1>1. \A n \in DOMAIN dag : dag[n].branch \in BranchIds
    BY DEF References
  <1>2. \A n \in DOMAIN dag : Foreign(n) =>
            n \in DOMAIN dag' /\ branches'[dag'[n].branch].session # dag'[n].session
    BY <1>1 DEF Foreign, Grows
  <1>3. \A n \in DOMAIN dag : MessageState(n)' = MessageState(n)
    BY DEF MessageState, Grows
  <1> QED BY <1>2, <1>3 DEF Consistent, Grows, BranchIds, Foreign

LEMMA OthersKept ==
    ASSUME TypeOK, References, ClientsOK, Grows, NEW c \in Clients,
           \A d \in Clients : d # c => pc'[d] = pc[d] /\ ctx'[d] = ctx[d],
           Consistent(pc[c], ctx[c])'
    PROVE  ClientsOK'
  <1>1. ASSUME NEW d \in Clients, d # c PROVE Consistent(pc[d], ctx[d])'
    <2>1. \A label, x : Consistent(label, x) => Consistent(label, x)'
      BY ConsistentKept
    <2>2. Consistent(pc[d], ctx[d])
      BY DEF ClientsOK
    <2>3. pc'[d] = pc[d] /\ ctx'[d] = ctx[d]
      BY <1>1
    <2> QED BY <2>1, <2>2, <2>3 DEF Consistent
  <1> QED BY <1>1 DEF ClientsOK

\* A step that leaves its client with a context consistent with the old tables.
LEMMA ClientsKept ==
    ASSUME TypeOK, References, ClientsOK, Grows, NEW c \in Clients, NEW label, NEW x,
           Goto(c, label, x), Consistent(label, x)
    PROVE  ClientsOK'
  <1>1. Consistent(label, x)'
    BY ConsistentKept
  <1>2. /\ pc'[c] = label
        /\ ctx'[c] = x
        /\ \A d \in Clients : d # c => pc'[d] = pc[d] /\ ctx'[d] = ctx[d]
    BY GotoEffect
  <1>3. Consistent(pc[c], ctx[c])'
    BY <1>1, <1>2 DEF Consistent
  <1> QED BY <1>2, <1>3, OthersKept

LEMMA NoContextConsistent == Consistent("idle", NoContext)
  BY DEF Consistent, NoContext, root

\* A step that ends its command.
LEMMA FinishKept ==
    ASSUME TypeOK, References, ClientsOK, Grows, NEW c \in Clients, Finish(c)
    PROVE  ClientsOK'
  BY ClientsKept, NoContextConsistent DEF Finish

-----------------------------------------------------------------------------
(* The name "main" *)

LEMMA MainKept ==
    ASSUME MainNameKept,
           \A b \in DOMAIN branches' : branches'[b].fork_point = root =>
               \/ branches'[b].name = MainName
               \/ /\ b \in BranchIds
                  /\ branches'[b].session = branches[b].session
                  /\ branches[b].fork_point = root,
           \A b \in BranchIds : branches[b].name = MainName =>
               /\ b \in DOMAIN branches'
               /\ branches'[b].session = branches[b].session
               /\ \/ branches'[b].name = MainName
                  \/ \E d \in Clients : pc'[d] = "renameNew" /\ ctx'[d].session = branches[b].session,
           \A d \in Clients : pc[d] = "renameNew" =>
               \/ pc'[d] = "renameNew" /\ ctx'[d].session = ctx[d].session
               \/ \E b \in DOMAIN branches' :
                     branches'[b].name = MainName /\ branches'[b].session = ctx[d].session
    PROVE  MainNameKept'
  <1> SUFFICES ASSUME NEW b \in DOMAIN branches', branches'[b].fork_point = root
               PROVE  \/ \E m \in DOMAIN branches' : branches'[m].name = MainName
                                                  /\ branches'[m].session = branches'[b].session
                      \/ \E d \in Clients : pc'[d] = "renameNew"
                                         /\ ctx'[d].session = branches'[b].session
    BY DEF MainNameKept, NameFree, BranchIds
  <1>1. CASE branches'[b].name = MainName
    BY <1>1
  <1>2. CASE /\ b \in BranchIds
             /\ branches'[b].session = branches[b].session
             /\ branches[b].fork_point = root
    <2>1. CASE ~NameFree(MainName, branches[b].session)
      <3>1. PICK m \in BranchIds : branches[m].name = MainName
                                /\ branches[m].session = branches[b].session
        BY <2>1 DEF NameFree
      <3> QED BY <1>2, <3>1
    <2>2. CASE \E d \in Clients : pc[d] = "renameNew" /\ ctx[d].session = branches[b].session
      BY <1>2, <2>2
    <2> QED BY <1>2, <2>1, <2>2 DEF MainNameKept
  <1> QED BY <1>1, <1>2

LEMMA MainUntouched ==
    ASSUME TypeOK, MainNameKept, NEW c \in Clients, NEW label, NEW x,
           UNCHANGED branches, Goto(c, label, x), pc[c] # "renameNew"
    PROVE  MainNameKept'
  <1>1. \A d \in Clients : d # c => pc'[d] = pc[d] /\ ctx'[d] = ctx[d]
    BY GotoEffect
  <1> QED BY <1>1, MainKept DEF BranchIds

-----------------------------------------------------------------------------
(* Each action preserves the invariant *)

\* A step that only moves its client on, with a context consistent with the tables.
LEMMA MoveKeepsInv ==
    ASSUME Inv, TypeOK', NEW c \in Clients, NEW label, NEW x, Goto(c, label, x),
           Consistent(label, x), pc[c] # "renameNew", UNCHANGED <<dag, branches, default>>
    PROVE  Inv'
  <1>1. TypeOK /\ StoreOK /\ References /\ ClientsOK /\ MainNameKept
    BY DEF Inv, StoreOK
  <1>2. StoreOK'
    BY <1>1, UnchangedStore
  <1>3. Grows
    BY DEF Grows, BranchIds
  <1>4. ClientsOK'
    BY <1>1, <1>3, ClientsKept
  <1>5. MainNameKept'
    BY <1>1, MainUntouched
  <1> QED BY <1>2, <1>4, <1>5 DEF Inv

\* A step that records a node that fits, and moves its client on.
LEMMA RecordKeepsInv ==
    ASSUME Inv, TypeOK', NEW c \in Clients, NEW label, NEW x, Goto(c, label, x),
           Consistent(label, x), pc[c] # "renameNew",
           NEW n \in Node, Fits(n), Record(n), UNCHANGED <<branches, default>>
    PROVE  Inv'
  <1>1. TypeOK /\ StoreOK /\ References /\ ClientsOK /\ MainNameKept
    BY DEF Inv, StoreOK
  <1>2. StoreOK'
    BY <1>1, RecordKeepsStore
  <1>3. Grows
    BY <1>1, RecordEffect DEF Grows, BranchIds
  <1>4. ClientsOK'
    BY <1>1, <1>3, ClientsKept
  <1>5. MainNameKept'
    BY <1>1, MainUntouched
  <1> QED BY <1>2, <1>4, <1>5 DEF Inv

LEMMA InvStartSession ==
    ASSUME Inv, NEW c \in Clients, StartSession(c)
    PROVE  Inv'
  <1>a. TypeOK /\ StoreOK /\ References /\ ClientsOK /\ MainNameKept
    BY DEF Inv, StoreOK
  <1>b. TypeOK'
    BY <1>a, TypeStartSession
  <1>c. Consistent(pc[c], ctx[c])
    BY <1>a DEF ClientsOK
  <1>1. ASSUME NEW e \in ExternalIds, EnsureSession(c, e) PROVE Inv'
    <2>1. Consistent("starting", [NoContext EXCEPT !.name = e])
      BY DEF Consistent, NoContext, root
    <2> QED BY <1>1, <1>b, <2>1, MoveKeepsInv DEF EnsureSession
  <1>2. ASSUME NEW s \in Sessions, CreateSession(c, s) PROVE Inv'
    <2> DEFINE x == [NoContext EXCEPT !.session = s]
    <2>1. Consistent("registered", x)
      BY DEF Consistent, NoContext, root
    <2>2. /\ Goto(c, "registered", x)
          /\ UNCHANGED <<dag, branches>>
          /\ pc[c] = "starting"
          /\ \/ default' = [default EXCEPT ![s] = 1]
             \/ default' = default
      BY <1>2 DEF CreateSession
    <2>3. DefaultsMove
      BY <1>a, <2>2 DEF DefaultsMove, TypeOK
    <2>4. StoreOK'
      BY <1>a, <2>2, <2>3, DefaultsKeepStore
    <2>5. Grows
      BY <2>2 DEF Grows, BranchIds
    <2>6. ClientsOK'
      BY <1>a, <2>1, <2>2, <2>5, ClientsKept
    <2>7. MainNameKept'
      BY <1>a, <2>2, MainUntouched
    <2> QED BY <1>b, <2>4, <2>6, <2>7 DEF Inv
  <1>3. CASE CreateMain(c)
    <2> DEFINE s == ctx[c].session
               new == NewBranch(MainName, s, root)
    <2>1. CASE ~(Registered(s) /\ NameFree(MainName, s))
      <3>1. Goto(c, "branched", [ctx[c] EXCEPT !.branch = 1]) /\ UNCHANGED <<dag, branches, default>>
        BY <1>3, <2>1 DEF CreateMain
      <3>2. ctx[c] \in Context /\ ctx[c].session \in Sessions
        BY <1>3, <1>a, <1>c, ContextType DEF Consistent, CreateMain
      <3>3. Consistent("branched", [ctx[c] EXCEPT !.branch = 1])
        BY <1>3, <1>c, <3>2 DEF Consistent, Context, CreateMain
      <3> QED BY <1>3, <1>b, <3>1, <3>3, MoveKeepsInv DEF CreateMain
    <2>2. CASE Registered(s) /\ NameFree(MainName, s)
      <3>1. /\ branches' = Append(branches, new)
            /\ Goto(c, "branched", [ctx[c] EXCEPT !.branch = Len(branches) + 1])
            /\ UNCHANGED <<dag, default>>
            /\ pc[c] = "registered"
        BY <1>3, <2>2 DEF CreateMain
      <3>2. ctx[c] \in Context /\ s \in Sessions
        BY <1>a, <1>c, <3>1, ContextType DEF Consistent
      <3>3. new \in Branch
        BY <1>a, <3>2, NewBranchType DEF Names, root
      <3>4. /\ DOMAIN branches' = BranchIds \cup {Len(branches) + 1}
            /\ Len(branches) + 1 \notin BranchIds
            /\ \A b \in BranchIds : branches'[b] = branches[b]
            /\ branches'[Len(branches) + 1] = new
        <4> HIDE DEF new
        <4> QED BY <1>a, <3>1, <3>3, SeqAppend, BranchElement DEF TypeOK, BranchIds
      <3>5. new.name = MainName /\ new.session = s /\ new.fork_point = root
        BY DEF NewBranch
      <3> HIDE DEF new
      <3>6. BranchesGrow
        BY <1>a, <2>2, <3>4, <3>5, DagElement DEF BranchesGrow, root
      <3>7. StoreOK'
        BY <1>a, <3>1, <3>6, BranchesKeepStore
      <3>8. Grows
        BY <3>1, <3>4 DEF Grows
      <3>9. /\ pc'[c] = "branched"
            /\ ctx'[c] = [ctx[c] EXCEPT !.branch = Len(branches) + 1]
            /\ \A d \in Clients : d # c => pc'[d] = pc[d] /\ ctx'[d] = ctx[d]
        BY <1>a, <3>1, GotoEffect
      <3>10. Consistent(pc[c], ctx[c])'
        <4>1. /\ ctx'[c].session = s
              /\ ctx'[c].branch = Len(branches) + 1
              /\ ctx'[c].parent = ctx[c].parent /\ ctx'[c].parent = root
              /\ ctx'[c].state = ctx[c].state
              /\ ctx'[c].sent = ctx[c].sent
          BY <1>c, <3>1, <3>2, <3>9 DEF Context, Consistent
        <4>2. ctx[c].state = NoState
          BY <1>c, <4>1 DEF Consistent
        <4> QED BY <1>c, <3>1, <3>2, <3>4, <3>5, <3>9, <4>1, <4>2 DEF Consistent, BranchIds, root
      <3>11. ClientsOK'
        BY <1>a, <3>8, <3>9, <3>10, OthersKept
      <3>12. MainNameKept'
        BY <1>a, <3>1, <3>4, <3>5, <3>9, MainKept
      <3> QED BY <1>b, <3>7, <3>11, <3>12 DEF Inv
    <2> QED BY <2>1, <2>2
  <1>4. ASSUME NEW repl \in BOOLEAN, UpdateDefault(c, repl) PROVE Inv'
    <2> DEFINE s == ctx[c].session
               x == [ctx[c] EXCEPT !.repl = repl]
    <2>1. /\ Goto(c, "ready", x)
          /\ UNCHANGED <<dag, branches>>
          /\ pc[c] = "branched"
          /\ \/ default' = [default EXCEPT ![s] = ctx[c].branch]
             \/ default' = default
      BY <1>4 DEF UpdateDefault
    <2>2. Consistent("ready", x)
      BY <1>a, <1>c, <2>1, ContextType DEF Consistent, Context
    <2>3. DefaultsMove
      BY <1>a, <1>c, <2>1 DEF DefaultsMove, TypeOK, Consistent
    <2>4. StoreOK'
      BY <1>a, <2>1, <2>3, DefaultsKeepStore
    <2>5. Grows
      BY <2>1 DEF Grows, BranchIds
    <2>6. ClientsOK'
      BY <1>a, <2>1, <2>2, <2>5, ClientsKept
    <2>7. MainNameKept'
      BY <1>a, <2>1, MainUntouched
    <2> QED BY <1>b, <2>4, <2>6, <2>7 DEF Inv
  <1> QED BY <1>1, <1>2, <1>3, <1>4 DEF StartSession

\* The tip of a branch is a node filed on it.
LEMMA LatestOnBranch ==
    ASSUME TypeOK, NEW b, NEW d, NEW p \in OrElse(LatestOn(b), d)
    PROVE  \/ p \in DOMAIN dag /\ dag[p].branch = b /\ LatestOn(b) # {}
           \/ p = d /\ LatestOn(b) = {}
  BY DEF OrElse, LatestOn, NodesOn

\* A client that read the tip of its branch is consistent with the tables.
LEMMA TipConsistent ==
    ASSUME Inv, NEW c \in Clients, pc[c] \in {"tip", "harnessTip"}, NEW st \in MaybeState,
           NEW repl \in BOOLEAN,
           NEW p \in OrElse(LatestOn(ctx[c].branch), branches[ctx[c].branch].fork_point),
           st # NoState => MessageState(p) = st
    PROVE  /\ Consistent("ready", [ctx[c] EXCEPT !.parent = p, !.state = st, !.repl = repl])
           /\ Consistent("ready", [ctx[c] EXCEPT !.parent = p, !.state = st])
  <1> DEFINE x == ctx[c]
  <1>1. TypeOK /\ References /\ ForkPointOfSession /\ Consistent(pc[c], x)
    BY DEF Inv, StoreOK, ClientsOK
  <1>2. /\ x \in Context /\ x.branch \in BranchIds /\ x.session \in Sessions
        /\ x.sent # root => x.sent \in DOMAIN dag /\ dag[x.sent].session = x.session
        /\ \/ x.branch \in {0, 1}
           \/ x.branch \in BranchIds /\ branches[x.branch].session = x.session
    BY <1>1, ContextType DEF Consistent
  <1>0. x.branch # 0
    BY <1>1, <1>2, BranchElement
  <1>3. p # root => /\ p \in DOMAIN dag
                    /\ \/ dag[p].branch = x.branch
                       \/ dag[p].session = branches[x.branch].session
    <2>1. CASE p \in DOMAIN dag /\ dag[p].branch = x.branch
      BY <2>1
    <2>2. CASE p = branches[x.branch].fork_point
      <3>1. p \in 0..Len(dag)
        BY <1>1, <1>2, <2>2 DEF References
      <3>2. p # root => p \in DOMAIN dag
        BY <1>1, <3>1, DagElement DEF root
      <3> QED BY <1>1, <1>2, <2>2, <3>2 DEF ForkPointOfSession
    <2> QED BY <1>1, <2>1, <2>2, LatestOnBranch
  <1>4. p # root => /\ p \in DOMAIN dag
                    /\ \/ dag[p].session = x.session
                       \/ Foreign(p)
                       \/ x.branch \in BranchIds /\ branches[x.branch].session # x.session
    BY <1>2, <1>3 DEF Foreign
  <1>5. st # NoState => p # root
    BY <1>1, DagElement DEF MessageState, root
  <1>6. ASSUME NEW y, y.session = x.session, y.branch = x.branch, y.parent = p, y.state = st,
               y.sent = x.sent
        PROVE  Consistent("ready", y)
    <2> HIDE DEF x
    <2> QED BY <1>0, <1>2, <1>4, <1>5, <1>6 DEF Consistent
  <1>7. ASSUME NEW y, \/ y = [x EXCEPT !.parent = p, !.state = st, !.repl = repl]
                      \/ y = [x EXCEPT !.parent = p, !.state = st]
        PROVE  Consistent("ready", y)
    <2>1. /\ y.session = x.session /\ y.branch = x.branch /\ y.parent = p
          /\ y.state = st /\ y.sent = x.sent
      <3> HIDE DEF x
      <3> QED BY <1>2, <1>7 DEF Context
    <2> QED BY <1>6, <2>1
  <1> QED BY <1>7

LEMMA ReturnKeepsInv ==
    ASSUME Inv, TypeOK', NEW c \in Clients, pc[c] = "waiting", Return(c),
           NEW n \in Node, Fits(n), Record(n), UNCHANGED <<branches, default>>
    PROVE  Inv'
  <1>1. CASE Finish(c)
    BY <1>1, NoContextConsistent, RecordKeepsInv DEF Finish
  <1>2. CASE Goto(c, "ready", [ctx[c] EXCEPT !.sent = root])
    <2>1. Consistent(pc[c], ctx[c]) /\ ctx[c] \in Context
      BY ContextType DEF Inv, ClientsOK
    <2>2. Consistent("ready", [ctx[c] EXCEPT !.sent = root])
      BY <2>1 DEF Consistent, Context
    <2> QED BY <1>2, <2>2, RecordKeepsInv
  <1> QED BY <1>1, <1>2 DEF Return

LEMMA SendInvokeKeepsInv ==
    ASSUME Inv, TypeOK', NEW c \in Clients, SendInvoke(c)
    PROVE  Inv'
  <1> DEFINE x == ctx[c]
             n(q) == NewNode("invoke", x.session, x.branch, q, FreshBody, x.state)
             NodeOf(q) == IF Inserted(n(q)) THEN Len(dag) + 1 ELSE root
  <1>a. TypeOK /\ StoreOK /\ References /\ ClientsOK /\ MainNameKept
    BY DEF Inv, StoreOK
  <1>b. Consistent(pc[c], x) /\ x \in Context
    BY <1>a, ContextType DEF ClientsOK
  <1>1. PICK p \in IF x.parent = root THEN OrElse(LatestOn(x.branch), root) ELSE {x.parent} :
          Record(n(p)) /\ Goto(c, "waiting", [x EXCEPT !.sent = NodeOf(p)])
    BY DEF SendInvoke
  <1>2. pc[c] = "ready" /\ UNCHANGED <<branches, default>>
    BY DEF SendInvoke
  <1>3. x.session \in Sessions
    BY <1>b, <1>2 DEF Consistent
  <1>4. p # root => \/ p = x.parent
                    \/ p \in DOMAIN dag /\ dag[p].branch = x.branch
    BY <1>a, LatestOnBranch
  <1>5. /\ p \in 0..Len(dag)
        /\ p # root => \/ dag[p].session = x.session
                       \/ Foreign(p)
                       \/ branches[x.branch].session # x.session
    BY <1>a, <1>b, <1>4, DagElement DEF Consistent, Foreign, root
  <1>6. x.state # NoState => p # root /\ MessageState(p) = x.state
    BY <1>b, <1>1 DEF Consistent
  <1>7. n(p) \in Node
    <2>1. "invoke" \in NodeType /\ FreshBody \in Nat /\ p \in Nat
      BY <1>a, <1>5, DagElement DEF NodeType, FreshBody
    <2>2. x.branch \in Nat /\ x.state \in MaybeState
      BY <1>b DEF Context
    <2> QED BY <1>a, <1>3, <2>1, <2>2, NewNodeType
  <1>8. Fits(n(p)) /\ n(p).session = x.session
    <2>1. /\ n(p).type = "invoke" /\ n(p).session = x.session /\ n(p).branch = x.branch
          /\ n(p).parent = p /\ n(p).state = x.state
      BY NewNodeFields
    <2>2. x.branch = 1 \/ branches[x.branch].session = x.session
      BY <1>b, <1>2 DEF Consistent
    <2> HIDE DEF n, x
    <2> QED BY <1>5, <1>6, <2>1, <2>2 DEF Fits
  <1> HIDE DEF n
  <1>9. StoreOK'
    BY <1>a, <1>1, <1>2, <1>7, <1>8, RecordKeepsStore
  <1>10. Grows
    BY <1>a, <1>1, <1>2, <1>7, RecordEffect DEF Grows, BranchIds
  <1>11. /\ pc'[c] = "waiting"
         /\ ctx'[c] = [x EXCEPT !.sent = NodeOf(p)]
         /\ \A d \in Clients : d # c => pc'[d] = pc[d] /\ ctx'[d] = ctx[d]
    BY <1>a, <1>1, GotoEffect
  <1>12. NodeOf(p) # root => NodeOf(p) \in DOMAIN dag' /\ dag'[NodeOf(p)].session = x.session
    BY <1>a, <1>1, <1>7, <1>8, RecordEffect
  <1> HIDE DEF NodeOf
  <1>13. ASSUME NEW y, y = x PROVE Consistent(pc[c], ctx[c])'
    <2>1. Consistent("waiting", y)
      BY <1>b, <1>2, <1>13 DEF Consistent
    <2>2. Consistent("waiting", y)'
      BY <1>a, <1>10, <2>1, ConsistentKept
    <2>3. /\ ctx'[c].session = y.session /\ ctx'[c].branch = y.branch
          /\ ctx'[c].parent = y.parent /\ ctx'[c].state = y.state /\ ctx'[c].sent = NodeOf(p)
      BY <1>b, <1>11, <1>13 DEF Context
    <2> QED BY <1>11, <1>12, <1>13, <2>2, <2>3 DEF Consistent
  <1>14. ClientsOK'
    BY <1>a, <1>10, <1>11, <1>13, OthersKept
  <1>15. MainNameKept'
    BY <1>a, <1>1, <1>2, MainUntouched
  <1> QED BY <1>9, <1>14, <1>15 DEF Inv

LEMMA InvRunAgent ==
    ASSUME Inv, NEW c \in Clients, RunAgent(c)
    PROVE  Inv'
  <1>a. TypeOK /\ StoreOK /\ References /\ ClientsOK /\ MainNameKept
    BY DEF Inv, StoreOK
  <1>b. TypeOK'
    BY <1>a, TypeRunAgent
  <1>c. Consistent(pc[c], ctx[c]) /\ ctx[c] \in Context
    BY <1>a, ContextType DEF ClientsOK
  <1>1. ASSUME NEW s \in Sessions, NEW label \in {"tip", "harnessTip"},
               ResolveDefault(c, s, label)
        PROVE  Inv'
    <2>1. default[s] \in BranchIds /\ (default[s] = 1 \/ branches[default[s]].session = s)
      BY <1>1, <1>a, BranchElement DEF ResolveDefault, StoreOK, DefaultOfSession
    <2>2. Consistent(label, [NoContext EXCEPT !.session = s, !.branch = default[s]])
      BY <2>1 DEF Consistent, NoContext, root
    <2> QED BY <1>1, <1>b, <2>2, MoveKeepsInv DEF ResolveDefault
  <1>2. ASSUME NEW b \in BranchIds, ResolveBranch(c, b) PROVE Inv'
    <2>1. branches[b].session \in Sessions
      BY <1>a, BranchElement DEF Branch
    <2>2. Consistent("tip", [NoContext EXCEPT !.session = branches[b].session, !.branch = b])
      BY <2>1 DEF Consistent, NoContext, root
    <2> QED BY <1>2, <1>b, <2>2, MoveKeepsInv DEF ResolveBranch
  <1>3. ASSUME NEW repl \in BOOLEAN, ReadTip(c, repl) PROVE Inv'
    <2>1. PICK p \in OrElse(LatestOn(ctx[c].branch), branches[ctx[c].branch].fork_point) :
            Goto(c, "ready", [ctx[c] EXCEPT !.parent = p, !.state = MessageState(p),
                                            !.repl = repl])
      BY <1>3 DEF ReadTip
    <2>2. pc[c] = "tip" /\ MessageState(p) \in MaybeState
      BY <1>3, <1>a, MessageStateType DEF ReadTip
    <2>3. Consistent("ready", [ctx[c] EXCEPT !.parent = p, !.state = MessageState(p), !.repl = repl])
      BY <2>2, TipConsistent
    <2> QED BY <1>3, <1>b, <2>1, <2>2, <2>3, MoveKeepsInv DEF ReadTip
  <1>4. CASE ReadTipInHarness(c)
    <2> DEFINE st(p) == IF LatestOn(ctx[c].branch) = {} THEN NoState ELSE MessageState(p)
    <2>1. PICK p \in OrElse(LatestOn(ctx[c].branch), branches[ctx[c].branch].fork_point) :
            Goto(c, "ready", [ctx[c] EXCEPT !.parent = p, !.state = st(p)])
      BY <1>4 DEF ReadTipInHarness
    <2>2. /\ pc[c] = "harnessTip"
          /\ st(p) \in MaybeState
          /\ st(p) # NoState => MessageState(p) = st(p)
      BY <1>4, <1>a, MessageStateType DEF ReadTipInHarness, MaybeState
    <2> HIDE DEF st
    <2>3. Consistent("ready", [ctx[c] EXCEPT !.parent = p, !.state = st(p)])
      BY <2>2, TipConsistent
    <2> QED BY <1>4, <1>b, <2>1, <2>2, <2>3, MoveKeepsInv DEF ReadTipInHarness
  <1>5. CASE SendInvoke(c)
    BY <1>5, <1>b, SendInvokeKeepsInv
  <1>6. ASSUME NEW st \in MaybeState, CompleteTurn(c, st) PROVE Inv'
    <2> DEFINE n == NewNode("complete", ctx[c].session, ctx[c].branch, ctx[c].sent, OutputBody, st)
    <2>1. ctx[c].session \in Sessions /\ ctx[c].sent \in 0..Len(dag)
      BY <1>6, <1>a, <1>c, DagElement DEF CompleteTurn, Consistent, Context, root
    <2>2. n \in Node
      BY <1>a, <1>c, <2>1, NewNodeType DEF NodeType, OutputBody, Context
    <2>3. Fits(n)
      <3>1. /\ n.type = "complete" /\ n.session = ctx[c].session /\ n.branch = ctx[c].branch
            /\ n.parent = ctx[c].sent /\ n.body = OutputBody /\ n.state = st
        BY NewNodeFields
      <3>2. /\ ctx[c].branch = 1 \/ branches[ctx[c].branch].session = ctx[c].session
            /\ ctx[c].sent # root => dag[ctx[c].sent].session = ctx[c].session
        BY <1>6, <1>c DEF CompleteTurn, Consistent
      <3> HIDE DEF n
      <3> QED BY <2>1, <3>1, <3>2 DEF Fits
    <2> QED BY <1>6, <1>b, <2>2, <2>3, ReturnKeepsInv DEF CompleteTurn
  <1>7. CASE FailTurn(c)
    <2> DEFINE n == NewNode("complete", ctx[c].session, ctx[c].branch, root, ErrorBody, NoState)
    <2>1. ctx[c].session \in Sessions
      BY <1>7, <1>a, <1>c DEF FailTurn, Consistent
    <2>2. n \in Node
      BY <1>a, <1>c, <2>1, NewNodeType DEF NodeType, ErrorBody, Context, MaybeState, root
    <2>3. Fits(n)
      <3>1. /\ n.type = "complete" /\ n.session = ctx[c].session /\ n.branch = ctx[c].branch
            /\ n.parent = root /\ n.state = NoState
        BY NewNodeFields
      <3>2. ctx[c].branch = 1 \/ branches[ctx[c].branch].session = ctx[c].session
        BY <1>7, <1>c DEF FailTurn, Consistent
      <3> HIDE DEF n
      <3> QED BY <1>a, <3>1, <3>2, DagElement DEF Fits, root
    <2> QED BY <1>7, <1>b, <2>2, <2>3, ReturnKeepsInv DEF FailTurn
  <1>8. CASE Leave(c)
    BY <1>8, <1>b, NoContextConsistent, MoveKeepsInv DEF Leave, Finish
  <1> QED BY <1>1, <1>2, <1>3, <1>4, <1>5, <1>6, <1>7, <1>8 DEF RunAgent

LEMMA InvForkTimeline ==
    ASSUME Inv, NEW c \in Clients, ForkTimeline(c)
    PROVE  Inv'
  <1>a. TypeOK /\ StoreOK /\ References /\ ClientsOK /\ MainNameKept
    BY DEF Inv, StoreOK
  <1>b. TypeOK'
    BY <1>a, TypeForkTimeline
  <1>c. Consistent(pc[c], ctx[c]) /\ ctx[c] \in Context
    BY <1>a, ContextType DEF ClientsOK
  <1>1. ASSUME NEW s \in Sessions, NEW n \in DOMAIN dag, NEW name \in ForkNames,
               Fork(c, s, n, name)
        PROVE  Inv'
    <2>1. dag[n].session = s
      BY <1>1 DEF Fork
    <2>2. Consistent("forking", [NoContext EXCEPT !.session = s, !.parent = n, !.name = name])
      BY <2>1 DEF Consistent, NoContext, root
    <2> QED BY <1>1, <1>b, <2>2, MoveKeepsInv DEF Fork
  <1>2. CASE RecordFork(c)
    <2> DEFINE x == ctx[c]
               n(b) == NewNode("fork", x.session, b, x.parent, EmptyBody, NoState)
    <2>1. PICK b \in OrElse(BranchesNamed(x.name), 1) : Record(n(b))
      BY <1>2 DEF RecordFork
    <2>2. /\ x.session \in Sessions /\ x.parent \in DOMAIN dag
          /\ dag[x.parent].session = x.session
      BY <1>2, <1>c DEF RecordFork, Consistent
    <2>3. n(b) \in Node
      <3>1. b \in Nat /\ x.parent \in Nat
        BY <1>a, <2>2, BranchElement, DagElement DEF OrElse, BranchesNamed
      <3> QED BY <1>a, <2>2, <3>1, NewNodeType DEF NodeType, EmptyBody, MaybeState
    <2>4. Fits(n(b))
      <3>1. /\ n(b).type = "fork" /\ n(b).session = x.session
            /\ n(b).parent = x.parent /\ n(b).state = NoState
        BY NewNodeFields
      <3> HIDE DEF n, x
      <3> QED BY <1>a, <2>2, <3>1, DagElement DEF Fits
    <2>5. Consistent("forked", x)
      BY <1>2, <1>c DEF RecordFork, Consistent
    <2> QED BY <1>2, <1>b, <2>1, <2>3, <2>4, <2>5, RecordKeepsInv DEF RecordFork
  <1>3. CASE CreateForkBranch(c)
    <2> DEFINE x == ctx[c]
               new == NewBranch(x.name, x.session, x.parent)
    <2>1. /\ x.session \in Sessions /\ x.parent \in DOMAIN dag /\ x.name \in Names
          /\ dag[x.parent].session = x.session
      BY <1>3, <1>c DEF CreateForkBranch, Consistent, Names
    <2>2. CASE ~NameFree(x.name, x.session)
      <3>1. UNCHANGED <<dag, branches, default>>
        BY <1>3, <2>2 DEF CreateForkBranch
      <3> QED BY <1>3, <1>b, <3>1, NoContextConsistent, MoveKeepsInv DEF CreateForkBranch, Finish
    <2>3. CASE NameFree(x.name, x.session)
      <3>1. branches' = Append(branches, new) /\ Finish(c) /\ UNCHANGED <<dag, default>>
        BY <1>3, <2>3 DEF CreateForkBranch
      <3>2. new \in Branch
        BY <1>a, <2>1, NewBranchType, DagElement
      <3>3. /\ DOMAIN branches' = BranchIds \cup {Len(branches) + 1}
            /\ \A b \in BranchIds : branches'[b] = branches[b]
            /\ branches'[Len(branches) + 1] = new
        <4> HIDE DEF new
        <4> QED BY <1>a, <3>1, <3>2, SeqAppend, BranchElement DEF TypeOK, BranchIds
      <3>4. new.session = x.session /\ new.fork_point = x.parent
        BY DEF NewBranch
      <3> HIDE DEF new, x
      <3>5. Registered(x.session)
        BY <1>a, <2>1 DEF References
      <3>6. BranchesGrow
        BY <1>a, <2>1, <3>3, <3>4, <3>5, DagElement DEF BranchesGrow
      <3>7. StoreOK'
        BY <1>a, <3>1, <3>6, BranchesKeepStore
      <3>8. Grows
        BY <3>1, <3>3 DEF Grows
      <3>9. ClientsOK'
        BY <1>a, <3>1, <3>8, FinishKept
      <3>10. \A d \in Clients : d # c => pc'[d] = pc[d] /\ ctx'[d] = ctx[d]
        BY <1>a, <3>1, GotoEffect DEF Finish
      <3>11. pc[c] = "forked" /\ x.parent # root
        BY <1>a, <1>3, <2>1, DagElement DEF CreateForkBranch, root
      <3>12. MainNameKept'
        BY <1>a, <3>3, <3>4, <3>10, <3>11, MainKept
      <3> QED BY <1>b, <3>7, <3>9, <3>12 DEF Inv
    <2> QED BY <2>2, <2>3
  <1> QED BY <1>1, <1>2, <1>3 DEF ForkTimeline

\* Changing the name or the seal of a branch keeps the tables and the clients.
LEMMA ColumnKeepsInv ==
    ASSUME Inv, TypeOK', NEW c \in Clients, NEW label, NEW x, Goto(c, label, x),
           Consistent(label, x), UNCHANGED <<dag, default>>,
           DOMAIN branches' = DOMAIN branches,
           \A d \in DOMAIN branches : /\ branches'[d].session = branches[d].session
                                      /\ branches'[d].fork_point = branches[d].fork_point,
           MainNameKept'
    PROVE  Inv'
  <1>a. TypeOK /\ StoreOK /\ References /\ ClientsOK
    BY DEF Inv, StoreOK
  <1>1. BranchesGrow /\ Grows
    BY DEF BranchesGrow, Grows, BranchIds
  <1>2. StoreOK'
    BY <1>a, <1>1, BranchesKeepStore
  <1>3. ClientsOK'
    BY <1>a, <1>1, ClientsKept
  <1> QED BY <1>2, <1>3 DEF Inv

LEMMA InvPromoteTimeline ==
    ASSUME Inv, NEW c \in Clients, PromoteTimeline(c)
    PROVE  Inv'
  <1>a. TypeOK /\ StoreOK /\ References /\ ClientsOK /\ MainNameKept
    BY DEF Inv, StoreOK
  <1>b. TypeOK'
    BY <1>a, TypePromoteTimeline
  <1>c. Consistent(pc[c], ctx[c]) /\ ctx[c] \in Context
    BY <1>a, ContextType DEF ClientsOK
  <1>d. pc[c] \in {"promoting", "lookup", "seal", "renameOld", "renameNew", "setDefault"} =>
          /\ ctx[c].session \in Sessions /\ ctx[c].branch \in BranchIds
          /\ branches[ctx[c].branch].session = ctx[c].session
          /\ ctx[c].branch # 0
    BY <1>a, <1>c, BranchElement DEF Consistent
  <1>1. ASSUME NEW s \in Sessions, NEW b \in BranchIds, Promote(c, s, b) PROVE Inv'
    <2>1. Consistent("promoting", [NoContext EXCEPT !.session = s, !.branch = b])
      BY <1>1 DEF Promote, Consistent, NoContext, root
    <2> QED BY <1>1, <1>b, <2>1, MoveKeepsInv DEF Promote
  <1>2. CASE RecordPromote(c)
    <2> DEFINE x == ctx[c]
               n(p) == NewNode("promote", x.session, x.branch, p, EmptyBody, NoState)
    <2>1. PICK p \in OrElse(LatestOn(x.branch), root) : Record(n(p))
      BY <1>2 DEF RecordPromote
    <2>2. /\ p \in 0..Len(dag)
          /\ p # root => dag[p].branch = x.branch
      BY <1>a, LatestOnBranch, DagElement DEF root
    <2>3. x.session \in Sessions /\ branches[x.branch].session = x.session /\ x.branch \in Nat
      BY <1>2, <1>c, <1>d DEF RecordPromote, Context
    <2>4. n(p) \in Node
      <3>1. p \in Nat
        BY <1>a, <2>2, DagElement
      <3> QED BY <1>a, <2>3, <3>1, NewNodeType DEF NodeType, EmptyBody, MaybeState
    <2>5. Fits(n(p))
      <3>1. /\ n(p).type = "promote" /\ n(p).session = x.session /\ n(p).branch = x.branch
            /\ n(p).parent = p /\ n(p).state = NoState
        BY NewNodeFields
      <3> HIDE DEF n, x
      <3> QED BY <2>2, <2>3, <3>1 DEF Fits, Foreign
    <2>6. Consistent("lookup", x)
      BY <1>2, <1>c DEF RecordPromote, Consistent
    <2> QED BY <1>2, <1>b, <2>1, <2>4, <2>5, <2>6, RecordKeepsInv DEF RecordPromote
  <1>3. CASE LookupMain(c)
    <2>1. PICK m \in OrElse(BranchesNamed(MainName), 0) :
            IF m # 0 /\ branches[m].session = ctx[c].session
            THEN Goto(c, "seal", [ctx[c] EXCEPT !.old = m])
            ELSE Goto(c, "renameNew", ctx[c])
      BY <1>3 DEF LookupMain
    <2>2. pc[c] = "lookup" /\ UNCHANGED <<dag, branches, default>>
      BY <1>3 DEF LookupMain
    <2>3. CASE m # 0 /\ branches[m].session = ctx[c].session
      <3>1. m \in BranchIds
        BY <2>3 DEF OrElse, BranchesNamed
      <3>2. Consistent("seal", [ctx[c] EXCEPT !.old = m])
        BY <1>c, <1>d, <2>2, <2>3, <3>1 DEF Consistent, Context
      <3> QED BY <1>b, <2>1, <2>2, <2>3, <3>2, MoveKeepsInv
    <2>4. CASE ~(m # 0 /\ branches[m].session = ctx[c].session)
      <3>1. Consistent("renameNew", ctx[c])
        BY <1>c, <2>2 DEF Consistent
      <3> QED BY <1>b, <2>1, <2>2, <2>4, <3>1, MoveKeepsInv
    <2> QED BY <2>3, <2>4
  <1>4. CASE SealMain(c)
    <2>1. /\ pc[c] = "seal" /\ Goto(c, "renameOld", ctx[c]) /\ Seal(ctx[c].old)
          /\ UNCHANGED <<dag, default>>
      BY <1>4 DEF SealMain
    <2>2. /\ DOMAIN branches' = DOMAIN branches
          /\ \A d \in DOMAIN branches : /\ branches'[d].session = branches[d].session
                                        /\ branches'[d].fork_point = branches[d].fork_point
                                        /\ branches'[d].name = branches[d].name
      BY <1>a, <2>1, SealEffect, BranchElement DEF BranchIds, Branch
    <2>3. Consistent("renameOld", ctx[c])
      BY <1>c, <2>1 DEF Consistent
    <2>4. \A d \in Clients : d # c => pc'[d] = pc[d] /\ ctx'[d] = ctx[d]
      BY <1>a, <2>1, GotoEffect
    <2>5. MainNameKept'
      BY <1>a, <2>1, <2>2, <2>4, MainKept DEF BranchIds
    <2> QED BY <1>b, <2>1, <2>2, <2>3, <2>5, ColumnKeepsInv
  <1>5. ASSUME NEW name \in SealedNames, RenameMain(c, name) PROVE Inv'
    <2>1. /\ pc[c] = "renameOld" /\ Goto(c, "renameNew", ctx[c]) /\ Rename(ctx[c].old, name)
          /\ UNCHANGED <<dag, default>>
      BY <1>5 DEF RenameMain
    <2>2. /\ DOMAIN branches' = DOMAIN branches
          /\ \A d \in DOMAIN branches : /\ branches'[d].session = branches[d].session
                                        /\ branches'[d].fork_point = branches[d].fork_point
                                        /\ d # ctx[c].old => branches'[d].name = branches[d].name
      BY <1>a, <2>1, RenameEffect DEF Names
    <2>3. /\ Consistent("renameNew", ctx[c])
          /\ branches[ctx[c].old].session = ctx[c].session
      BY <1>c, <2>1 DEF Consistent
    <2>4. /\ pc'[c] = "renameNew" /\ ctx'[c] = ctx[c]
          /\ \A d \in Clients : d # c => pc'[d] = pc[d] /\ ctx'[d] = ctx[d]
      BY <1>a, <2>1, GotoEffect
    <2>5. MainNameKept'
      BY <1>a, <2>1, <2>2, <2>3, <2>4, MainKept DEF BranchIds
    <2> QED BY <1>b, <2>1, <2>2, <2>3, <2>5, ColumnKeepsInv
  <1>6. CASE RenamePromoted(c)
    <2> DEFINE b == ctx[c].branch
    <2>1. /\ pc[c] = "renameNew" /\ Goto(c, "setDefault", ctx[c]) /\ Rename(b, MainName)
          /\ UNCHANGED <<dag, default>>
      BY <1>6 DEF RenamePromoted
    <2>2. /\ DOMAIN branches' = DOMAIN branches
          /\ \A d \in DOMAIN branches : /\ branches'[d].session = branches[d].session
                                        /\ branches'[d].fork_point = branches[d].fork_point
                                        /\ \/ branches'[d].name = branches[d].name
                                           \/ branches'[d].name = MainName
      BY <1>a, <2>1, RenameEffect DEF Names
    <2>3. Consistent("setDefault", ctx[c])
      BY <1>c, <2>1 DEF Consistent
    <2>4. \A d \in Clients : d # c => pc'[d] = pc[d] /\ ctx'[d] = ctx[d]
      BY <1>a, <2>1, GotoEffect
    <2>5. \E m \in DOMAIN branches' : /\ branches'[m].name = MainName
                                      /\ branches'[m].session = ctx[c].session
      <3>1. CASE branches[b].name = MainName \/ NameFree(MainName, branches[b].session)
        <4>1. branches' = [branches EXCEPT ![b].name = MainName] /\ branches \in Seq(Branch)
          BY <1>a, <2>1, <3>1 DEF Rename, TypeOK
        <4>2. branches'[b].name = MainName
          BY <1>a, <1>d, <2>1, <4>1, BranchElement DEF Branch, BranchIds
        <4> QED BY <1>d, <2>1, <2>2, <4>2 DEF BranchIds
      <3>2. CASE ~(branches[b].name = MainName \/ NameFree(MainName, branches[b].session))
        <4>1. branches' = branches
          BY <2>1, <3>2 DEF Rename
        <4> QED BY <1>d, <2>1, <3>2, <4>1 DEF NameFree, BranchIds
      <3> QED BY <3>1, <3>2
    <2>6. MainNameKept'
      BY <1>a, <2>1, <2>2, <2>4, <2>5, MainKept DEF BranchIds
    <2> QED BY <1>b, <2>1, <2>2, <2>3, <2>6, ColumnKeepsInv
  <1>7. CASE SetDefault(c)
    <2>1. /\ pc[c] = "setDefault" /\ Finish(c) /\ UNCHANGED <<dag, branches>>
          /\ default' = [default EXCEPT ![ctx[c].session] = ctx[c].branch]
      BY <1>7 DEF SetDefault
    <2>2. DefaultsMove
      BY <1>a, <1>d, <2>1 DEF DefaultsMove, TypeOK
    <2>3. StoreOK'
      BY <1>a, <2>1, <2>2, DefaultsKeepStore
    <2>4. Grows
      BY <2>1 DEF Grows, BranchIds
    <2>5. ClientsOK'
      BY <1>a, <2>1, <2>4, FinishKept
    <2>6. MainNameKept'
      BY <1>a, <2>1, MainUntouched DEF Finish
    <2> QED BY <1>b, <2>3, <2>5, <2>6 DEF Inv
  <1> QED BY <1>1, <1>2, <1>3, <1>4, <1>5, <1>6, <1>7 DEF PromoteTimeline

LEMMA InitInv == Init => Inv
  <1> SUFFICES ASSUME Init PROVE Inv
    OBVIOUS
  <1>1. dag = <<>> /\ branches = <<>> /\ DOMAIN dag = {} /\ BranchIds = {}
    BY EmptySeq DEF Init, BranchIds
  <1>2. TypeOK
    BY <1>1, NoContextType DEF Init, TypeOK, PC
  <1>3. StoreOK
    BY <1>1 DEF Init, StoreOK, References, LeakConfined, SessionChange, ForkPointOfSession,
                DefaultOfSession, StateFromParent, AnswerOK,
                OneCompletePerInvoke
  <1>4. ClientsOK
    BY NoContextConsistent DEF Init, ClientsOK
  <1>5. MainNameKept
    BY <1>1 DEF MainNameKept
  <1> QED BY <1>2, <1>3, <1>4, <1>5 DEF Inv

LEMMA StutterKeepsInv ==
    ASSUME Inv, UNCHANGED vars
    PROVE  Inv'
  <1>1. UNCHANGED <<dag, branches, default, external, pc, ctx>>
    BY DEF vars
  <1>2. TypeOK'
    BY <1>1 DEF Inv, TypeOK
  <1>3. StoreOK'
    BY <1>1, UnchangedStore DEF Inv
  <1>4. ClientsOK'
    BY <1>1 DEF Inv, ClientsOK, Consistent, BranchIds, Foreign, MessageState
  <1>5. MainNameKept'
    BY <1>1 DEF Inv, MainNameKept, BranchIds, NameFree
  <1> QED BY <1>2, <1>3, <1>4, <1>5 DEF Inv

LEMMA NextKeepsInv == Inv /\ [Next]_vars => Inv'
  BY InvStartSession, InvRunAgent, InvForkTimeline, InvPromoteTimeline, StutterKeepsInv DEF Next

\* Whatever the commands do and wherever they stop, the invariant holds.
THEOREM Invariance == Spec => []Inv
  BY InitInv, NextKeepsInv, PTL DEF Spec

\* Every variable keeps its type, for any number of clients and sessions.
THEOREM TypeCorrect == Spec => []TypeOK
  <1>1. Inv => TypeOK
    BY DEF Inv
  <1> QED BY <1>1, Invariance, PTL

\* Rows refer to rows that exist, and the chain of parents has no cycle.
THEOREM ReferencesHold == Spec => []References
  <1>1. Inv => References
    BY DEF Inv, StoreOK
  <1> QED BY <1>1, Invariance, PTL

\* Sessions stay apart in the shared store: the fallbacks to a branch found by
\* name and to branch 1 are the only leaks, and they reach neither fork points
\* nor default branches.
THEOREM SessionsKeptApart ==
    Spec => [](LeakConfined /\ SessionChange /\ ForkPointOfSession /\ DefaultOfSession)
  <1>1. Inv => LeakConfined /\ SessionChange /\ ForkPointOfSession /\ DefaultOfSession
    BY DEF Inv, StoreOK
  <1> QED BY <1>1, Invariance, PTL

\* A turn starts from the state of the node it continues.
THEOREM StateFollowsChain == Spec => []StateFromParent
  <1>1. Inv => StateFromParent
    BY DEF Inv, StoreOK
  <1> QED BY <1>1, Invariance, PTL

\* No invoke is ever answered by two recorded completes.
THEOREM AnsweredOnce == Spec => []OneCompletePerInvoke
  <1>1. Inv => OneCompletePerInvoke
    BY DEF Inv, StoreOK
  <1> QED BY <1>1, Invariance, PTL

\* Overlapping and interrupted promotes never lose a session's "main", except
\* between the two renames of a promote.
THEOREM MainNeverLost == Spec => []MainNameKept
  <1>1. Inv => MainNameKept
    BY DEF Inv
  <1> QED BY <1>1, Invariance, PTL

\* What a command remembers stays true of the store, however late it acts on it.
THEOREM ReadsStayConsistent == Spec => []ClientsOK
  <1>1. Inv => ClientsOK
    BY DEF Inv
  <1> QED BY <1>1, Invariance, PTL

-----------------------------------------------------------------------------
(* The store implements the ledger *)

LEMMA TimelinesShape ==
    ASSUME TypeOK
    PROVE  /\ DOMAIN timelines = BranchIds
           /\ Len(timelines) = Len(branches)
           /\ \A b \in BranchIds : /\ timelines[b].session = branches[b].session
                                   /\ timelines[b].fork_point = branches[b].fork_point
                                   /\ timelines[b].sealed = branches[b].sealed
  <1>1. BranchIds = 1..Len(branches) /\ Len(branches) \in Nat
    BY BranchElement
  <1>2. DOMAIN timelines = 1..Len(branches)
    BY <1>1 DEF timelines
  <1>3. Len(timelines) = Len(branches)
    BY <1>1, <1>2
  <1> QED BY <1>1, <1>2, <1>3 DEF timelines

\* A step that changes neither sessions, nor fork points, nor seals.
LEMMA TimelinesSame ==
    ASSUME DOMAIN branches' = DOMAIN branches,
           \A b \in DOMAIN branches : /\ branches'[b].session = branches[b].session
                                      /\ branches'[b].fork_point = branches[b].fork_point
                                      /\ branches'[b].sealed = branches[b].sealed
    PROVE  timelines' = timelines
  BY DEF timelines, BranchIds

LEMMA RecordRefines ==
    ASSUME Inv, Inv', NEW n, Record(n), UNCHANGED branches
    PROVE  Ledger!Step \/ UNCHANGED <<dag, timelines>>
  <1>1. timelines' = timelines
    BY TimelinesSame
  <1>2. CASE ~Inserted(n)
    BY <1>1, <1>2 DEF Record
  <1>3. CASE Inserted(n)
    <2>1. dag' = Append(dag, n) /\ dag \in Seq(Node) /\ References'
      BY <1>3 DEF Record, Inv, TypeOK, StoreOK
    <2>2. dag \in Seq(Node \cup {n})
      BY <2>1, SeqElement, IsASeq
    <2>3. /\ Len(dag') = Len(dag) + 1
          /\ Len(dag) \in Nat
          /\ DOMAIN dag = 1..Len(dag)
          /\ DOMAIN dag' = DOMAIN dag \cup {Len(dag) + 1}
          /\ \A i \in DOMAIN dag : dag'[i] = dag[i]
          /\ dag'[Len(dag) + 1] = n
      BY <2>1, <2>2, SeqAppend, SeqElement
    <2>4. n.parent \in 0..Len(dag)
      BY <2>1, <2>3 DEF References
    <2>5. Ledger!Kept(dag, dag')
      BY <2>3 DEF Ledger!Kept
    <2>6. \A i \in DOMAIN dag : Ledger!Hash(dag[i]) # Ledger!Hash(n)
      BY <1>3 DEF Inserted, SameHash, Ledger!Hash
    <2>7. Ledger!AppendNode
      BY <1>1, <2>3, <2>4, <2>5, <2>6 DEF Ledger!AppendNode
    <2> QED BY <2>7 DEF Ledger!Step
  <1> QED BY <1>2, <1>3

LEMMA BranchRefines ==
    ASSUME Inv, Inv', NEW name, NEW s, NEW fork, UNCHANGED dag,
           branches' = Append(branches, NewBranch(name, s, fork))
    PROVE  Ledger!Step
  <1> DEFINE new == NewBranch(name, s, fork)
             k == Len(branches) + 1
  <1>1. TypeOK /\ TypeOK' /\ References' /\ ForkPointOfSession'
    BY DEF Inv, StoreOK
  <1>2. branches \in Seq(Branch \cup {new}) /\ Len(branches) \in Nat
    BY <1>1, SeqElement, IsASeq DEF TypeOK
  <1>3. /\ Len(branches') = k
        /\ DOMAIN branches' = BranchIds \cup {k}
        /\ \A b \in BranchIds : branches'[b] = branches[b]
        /\ branches'[k] = new
    <2>1. branches' = Append(branches, new) /\ new \in Branch \cup {new}
      OBVIOUS
    <2> HIDE DEF new
    <2> QED BY <1>2, <2>1, SeqAppend DEF BranchIds
  <1>4. ~new.sealed
    BY DEF NewBranch
  <1> HIDE DEF new
  <1>5. /\ DOMAIN timelines = BranchIds /\ Len(timelines) = Len(branches)
        /\ DOMAIN timelines' = DOMAIN branches' /\ Len(timelines') = Len(branches')
        /\ \A b \in BranchIds : timelines'[b] = timelines[b]
        /\ timelines'[k].sealed = branches'[k].sealed
        /\ timelines'[k].session = branches'[k].session
        /\ timelines'[k].fork_point = branches'[k].fork_point
    BY <1>1, <1>3, TimelinesShape DEF timelines, BranchIds
  <1>6. timelines'[k].fork_point # 0 =>
            /\ timelines'[k].fork_point \in DOMAIN dag
            /\ dag[timelines'[k].fork_point].session = timelines'[k].session
    BY <1>1, <1>3, <1>5, DagElement DEF References, ForkPointOfSession, BranchIds, root
  <1>7. Ledger!Kept(timelines, timelines')
    BY <1>2, <1>3, <1>5 DEF Ledger!Kept
  <1>8. Ledger!OpenTimeline
    BY <1>3, <1>4, <1>5, <1>6, <1>7 DEF Ledger!OpenTimeline
  <1> QED BY <1>8 DEF Ledger!Step

LEMMA SealRefines ==
    ASSUME Inv, Inv', NEW b \in BranchIds, Seal(b), UNCHANGED dag
    PROVE  Ledger!Step
  <1>1. TypeOK /\ TypeOK'
    BY DEF Inv
  <1>2. /\ DOMAIN branches' = DOMAIN branches
        /\ \A d \in DOMAIN branches :
             branches'[d] = IF d = b THEN [branches[d] EXCEPT !.sealed = TRUE] ELSE branches[d]
    BY <1>1, SealEffect
  <1>3. \A d \in BranchIds : /\ branches'[d].session = branches[d].session
                             /\ branches'[d].fork_point = branches[d].fork_point
                             /\ branches'[d].sealed = (IF d = b THEN TRUE ELSE branches[d].sealed)
    BY <1>1, <1>2, BranchElement DEF Branch, BranchIds
  <1>4. timelines' = [timelines EXCEPT ![b].sealed = TRUE]
    <2>1. DOMAIN timelines' = BranchIds /\ DOMAIN timelines = BranchIds
      BY <1>2 DEF timelines, BranchIds
    <2>2. ASSUME NEW d \in BranchIds
          PROVE  timelines'[d] = IF d = b THEN [timelines[d] EXCEPT !.sealed = TRUE]
                                 ELSE timelines[d]
      BY <1>2, <1>3 DEF timelines, BranchIds
    <2> QED BY <2>1, <2>2 DEF timelines, BranchIds
  <1>5. Ledger!SealTimeline(b)
    BY <1>4 DEF Ledger!SealTimeline
  <1> QED BY <1>5 DEF Ledger!Step, timelines

LEMMA MoveRefines ==
    ASSUME UNCHANGED <<dag, branches>>
    PROVE  UNCHANGED <<dag, timelines>>
  BY TimelinesSame

LEMMA RenameRefines ==
    ASSUME Inv, NEW b, NEW name \in Names, Rename(b, name), UNCHANGED dag
    PROVE  UNCHANGED <<dag, timelines>>
  BY RenameEffect, TimelinesSame DEF Inv

LEMMA StepRefines ==
    ASSUME Inv, Inv', NEW c \in Clients,
           StartSession(c) \/ RunAgent(c) \/ ForkTimeline(c) \/ PromoteTimeline(c)
    PROVE  Ledger!Step \/ UNCHANGED <<dag, timelines>>
  <1>1. CASE StartSession(c)
    <2>1. CASE UNCHANGED <<dag, branches>>
      BY <2>1, MoveRefines
    <2>2. CASE CreateMain(c) /\ branches' # branches
      <3>1. /\ branches' = Append(branches, NewBranch(MainName, ctx[c].session, root))
            /\ UNCHANGED dag
        BY <2>2 DEF CreateMain
      <3> QED BY <3>1, BranchRefines
    <2> QED BY <1>1, <2>1, <2>2
            DEF StartSession, EnsureSession, CreateSession, CreateMain, UpdateDefault
  <1>2. CASE RunAgent(c)
    <2>1. CASE UNCHANGED <<dag, branches>>
      BY <2>1, MoveRefines
    <2>2. CASE UNCHANGED branches /\ \E n : Record(n)
      BY <2>2, RecordRefines
    <2> QED BY <1>2, <2>1, <2>2
            DEF RunAgent, ResolveDefault, ResolveBranch, ReadTip, ReadTipInHarness, SendInvoke,
                CompleteTurn, FailTurn, Leave
  <1>3. CASE ForkTimeline(c)
    <2>1. CASE UNCHANGED <<dag, branches>>
      BY <2>1, MoveRefines
    <2>2. CASE UNCHANGED branches /\ \E n : Record(n)
      BY <2>2, RecordRefines
    <2>3. CASE CreateForkBranch(c) /\ branches' # branches
      <3>1. /\ branches' = Append(branches, NewBranch(ctx[c].name, ctx[c].session, ctx[c].parent))
            /\ UNCHANGED dag
        BY <2>3 DEF CreateForkBranch
      <3> QED BY <3>1, BranchRefines
    <2> QED BY <1>3, <2>1, <2>2, <2>3 DEF ForkTimeline, Fork, RecordFork, CreateForkBranch
  <1>4. CASE PromoteTimeline(c)
    <2>1. CASE UNCHANGED <<dag, branches>>
      BY <2>1, MoveRefines
    <2>2. CASE UNCHANGED branches /\ \E n : Record(n)
      BY <2>2, RecordRefines
    <2>3. CASE SealMain(c)
      <3>1. ctx[c].old \in BranchIds
        BY <2>3 DEF SealMain, Inv, ClientsOK, Consistent
      <3> QED BY <2>3, <3>1, SealRefines DEF SealMain
    <2>4. ASSUME NEW name \in SealedNames, RenameMain(c, name)
          PROVE  UNCHANGED <<dag, timelines>>
      BY <2>4, RenameRefines DEF RenameMain, Names
    <2>5. CASE RenamePromoted(c)
      BY <2>5, RenameRefines DEF RenamePromoted, Names
    <2>6. CASE RecordPromote(c)
      BY <2>2, <2>6 DEF RecordPromote
    <2>7. CASE LookupMain(c) \/ SetDefault(c) \/ \E s \in Sessions, b \in BranchIds : Promote(c, s, b)
      BY <2>1, <2>7 DEF LookupMain, SetDefault, Promote
    <2> QED BY <1>4, <2>3, <2>4, <2>5, <2>6, <2>7 DEF PromoteTimeline
  <1> QED BY <1>1, <1>2, <1>3, <1>4

\* Time travel never takes anything back: the store, run by any number of
\* commands, only ever appends new messages, opens timelines and seals them.
THEOREM ImplementsLedger == Spec => IsLedger
  <1>1. Init => Ledger!Start
    <2>1. Init => timelines = <<>>
      BY EmptySeq DEF Init, timelines, BranchIds
    <2> QED BY <2>1 DEF Init, Ledger!Start
  <1>2. Inv /\ Inv' /\ [Next]_vars => [Ledger!Step]_<<dag, timelines>>
    <2>1. ASSUME Inv, Inv', Next PROVE Ledger!Step \/ UNCHANGED <<dag, timelines>>
      BY <2>1, StepRefines DEF Next
    <2>2. UNCHANGED vars => UNCHANGED <<dag, timelines>>
      BY DEF vars, timelines, BranchIds
    <2> QED BY <2>1, <2>2
  <1> QED BY <1>1, <1>2, Invariance, PTL DEF Spec, IsLedger, Ledger!LedgerSpec

-----------------------------------------------------------------------------
(* Queues: naturals and flattened sequences *)

\* A set of naturals that is not empty has a least element.
LEMMA LeastNat ==
    ASSUME NEW T \in SUBSET Nat, T # {}
    PROVE  \E n \in T : \A m \in T : n <= m
  <1> DEFINE R == OpToRel(<, Nat)
  <1>1. IsWellFoundedOn(R, Nat)
    BY NatLessThanWellFounded
  <1> HIDE DEF R
  <1>2. PICK n \in T : \A m \in T : ~ (<<m, n>> \in R)
    BY <1>1, WFMin
  <1>3. ASSUME NEW m \in T PROVE n <= m
    <2>1. m \in Nat /\ n \in Nat
      OBVIOUS
    <2>2. m < n => <<m, n>> \in R
      BY <2>1 DEF R, OpToRel
    <2>3. ~ (m < n)
      BY <1>2, <2>2
    <2> QED BY <2>1, <2>3
  <1> QED BY <1>3

\* What holds at 0 and of n + 1 whenever of n holds of every natural: sets of naturals carry the
\* induction, which a predicate could not here.
LEMMA Induction ==
    ASSUME NEW T \in SUBSET Nat, 0 \in T, \A n \in Nat : n \in T => n + 1 \in T
    PROVE  T = Nat
  <1> SUFFICES ASSUME T # Nat PROVE FALSE
    OBVIOUS
  <1>1. PICK n \in Nat \ T : \A m \in Nat \ T : n <= m
    BY LeastNat
  <1>2. n # 0 /\ n - 1 \in Nat
    BY <1>1
  <1>3. n - 1 \in T
    BY <1>1, <1>2
  <1> QED BY <1>1, <1>2, <1>3

\* FlattenSeq is the last element of a function that appends one sequence after the other.
LEMMA FlattenIs ==
    ASSUME NEW s, NEW N \in Nat, N # 0, Len(s) = N
    PROVE  \E f : /\ FlattenSeq(s) = f[N]
                  /\ f = [i \in 1..N |-> IF i = 1 THEN s[i] ELSE f[i - 1] \o s[i]]
  <1> DEFINE F(f, n) == [i \in 1..n |-> IF i = 1 THEN s[i] ELSE f[i - 1] \o s[i]]
             F0 == CHOOSE f : f = F(f, N)
             T == {n \in Nat : \E f : f = F(f, n)}
  <1>1. FlattenSeq(s) = F0[N]
    BY DEF FlattenSeq
  <1>2. 0 \in T
    <2> DEFINE f == [i \in 1..0 |-> 0]
    <2>1. f = F(f, 0)
      OBVIOUS
    <2> QED BY <2>1
  <1>3. ASSUME NEW n \in Nat, n \in T PROVE n + 1 \in T
    <2>1. PICK f : f = F(f, n)
      BY <1>3
    <2> DEFINE e == IF n + 1 = 1 THEN s[n + 1] ELSE f[n] \o s[n + 1]
               g == [i \in 1..(n + 1) |-> IF i = n + 1 THEN e ELSE f[i]]
    <2>2. ASSUME NEW i \in 1..(n + 1)
          PROVE  g[i] = IF i = 1 THEN s[i] ELSE g[i - 1] \o s[i]
      <3>1. CASE i = n + 1
        <4>1. g[i] = e
          BY <3>1
        <4>2. CASE i = 1
          BY <3>1, <4>1, <4>2
        <4>3. CASE i # 1
          <5>1. i - 1 = n /\ n \in 1..(n + 1) /\ n # n + 1
            BY <3>1, <4>3
          <5>2. g[i - 1] = f[n]
            BY <5>1
          <5> QED BY <3>1, <4>1, <4>3, <5>2
        <4> QED BY <4>2, <4>3
      <3>2. CASE i # n + 1
        <4>1. i \in 1..n /\ g[i] = f[i]
          BY <3>2
        <4>2. f[i] = IF i = 1 THEN s[i] ELSE f[i - 1] \o s[i]
          BY <2>1, <4>1
        <4>3. i # 1 => i - 1 \in 1..(n + 1) /\ i - 1 # n + 1
          BY <4>1
        <4>4. i # 1 => g[i - 1] = f[i - 1]
          BY <4>3
        <4> QED BY <4>1, <4>2, <4>4
      <3> QED BY <3>1, <3>2
    <2> HIDE DEF e
    <2>3. g = F(g, n + 1)
      BY <2>2
    <2> HIDE DEF g
    <2>4. n + 1 \in Nat
      OBVIOUS
    <2> QED BY <2>3, <2>4
  <1>4. T \in SUBSET Nat
    OBVIOUS
  <1> HIDE DEF T
  <1>5. N \in T
    BY <1>2, <1>3, <1>4, Induction
  <1>6. \E f : f = F(f, N)
    BY <1>5 DEF T
  <1>7. F0 = F(F0, N)
    BY <1>6
  <1> HIDE DEF F0
  <1> QED BY <1>1, <1>7

\* A flat sequence of n non-empty sequences has n elements or more, the first of them those of
\* the sequences of one element at the beginning.
Parts(flat, s, n) ==
    /\ n <= Len(flat) /\ (Len(flat) = n <=> \A i \in 1..n : Len(s[i]) = 1)
    /\ \A k \in 1..n : (\A i \in 1..k : Len(s[i]) = 1) => k <= Len(flat) /\ flat[k] = s[k][1]

\* One more sequence behind the first n.
LEMMA PartsOn ==
    ASSUME NEW S, NEW flat \in Seq(S), NEW s, NEW n \in Nat, s[n + 1] \in Seq(S),
           s[n + 1] # <<>>, Parts(flat, s, n)
    PROVE  flat \o s[n + 1] \in Seq(S) /\ Parts(flat \o s[n + 1], s, n + 1)
  <1> PICK q \in Seq(S) : q = s[n + 1]
    OBVIOUS
  <1>1. Len(q) \in Nat /\ Len(q) # 0 /\ Len(flat) \in Nat
    BY EmptySeq, SeqElement
  <1> PICK g : g = flat \o q
    OBVIOUS
  <1>2. /\ g \in Seq(S) /\ Len(g) = Len(flat) + Len(q)
        /\ \A i \in 1..Len(flat) : g[i] = flat[i]
        /\ \A i \in 1..Len(q) : g[Len(flat) + i] = q[i]
    BY <1>1, ConcatProperties
  <1>3. Len(flat) = n <=> \A i \in 1..n : Len(s[i]) = 1
    BY DEF Parts
  <1> PICK a \in Nat, b \in Nat : a = Len(flat) /\ b = Len(q) /\ b # 0 /\ n <= a
    BY <1>1 DEF Parts
  <1>4. n + 1 <= Len(g)
    BY ONLY <1>2, a \in Nat, b \in Nat, a = Len(flat), b = Len(q), b # 0, n <= a, n \in Nat
  <1>5. Len(g) = n + 1 <=> \A i \in 1..(n + 1) : Len(s[i]) = 1
    <2>1. Len(g) = n + 1 <=> Len(flat) = n /\ Len(q) = 1
      <3>1. a + b = n + 1 <=> a = n /\ b = 1
        BY ONLY a \in Nat, b \in Nat, b # 0, n <= a, n \in Nat
      <3> QED BY <1>2, <3>1
    <2>2. (\A i \in 1..(n + 1) : Len(s[i]) = 1) <=> (\A i \in 1..n : Len(s[i]) = 1) /\ Len(s[n + 1]) = 1
      <3>1. ASSUME NEW i \in 1..(n + 1) PROVE i \in 1..n \/ i = n + 1
        OBVIOUS
      <3>2. 1..n \subseteq 1..(n + 1) /\ n + 1 \in 1..(n + 1)
        OBVIOUS
      <3> QED BY <3>1, <3>2
    <2> QED BY <1>3, <2>1, <2>2
  <1>6. ASSUME NEW k \in 1..(n + 1), \A i \in 1..k : Len(s[i]) = 1
        PROVE  k <= Len(g) /\ g[k] = s[k][1]
    <2>1. CASE k \in 1..n
      <3>1. k <= Len(flat) /\ flat[k] = s[k][1]
        BY <1>6, <2>1 DEF Parts
      <3>2. k \in 1..Len(flat)
        BY <1>1, <2>1, <3>1
      <3> QED BY <1>1, <1>2, <3>1, <3>2
    <2>2. CASE k = n + 1
      <3>1. Len(q) = 1 /\ \A i \in 1..n : Len(s[i]) = 1
        BY <1>6, <2>2
      <3>2. Len(flat) = n
        BY <1>3, <3>1
      <3>3. g[n + 1] = q[1]
        BY <1>2, <3>1, <3>2
      <3> QED BY <1>4, <2>2, <3>3
    <2> QED BY <2>1, <2>2
  <1> QED BY <1>2, <1>4, <1>5, <1>6 DEF Parts

\* Flattening N sequences that are not empty leaves every one of them in its place.
LEMMA FlattenParts ==
    ASSUME NEW S, NEW s, NEW N \in Nat, N # 0, Len(s) = N,
           \A i \in 1..N : s[i] \in Seq(S) /\ s[i] # <<>>
    PROVE  FlattenSeq(s) \in Seq(S) /\ Parts(FlattenSeq(s), s, N)
  <1> PICK f : /\ FlattenSeq(s) = f[N]
               /\ f = [i \in 1..N |-> IF i = 1 THEN s[i] ELSE f[i - 1] \o s[i]]
    BY FlattenIs
  <1> DEFINE T == {n \in Nat : n \in 1..N => f[n] \in Seq(S) /\ Parts(f[n], s, n)}
  <1>1. 0 \in T
    OBVIOUS
  <1>2. ASSUME NEW n \in Nat, n \in T, n + 1 \in 1..N
        PROVE  f[n + 1] \in Seq(S) /\ Parts(f[n + 1], s, n + 1)
    <2>1. CASE n = 0
      <3>1. f[n + 1] = s[1] /\ 1 \in 1..N
        BY <1>2, <2>1
      <3> PICK q \in Seq(S) : q = s[1] /\ q # <<>>
        BY <3>1
      <3>2. Len(q) \in Nat /\ Len(q) # 0
        BY EmptySeq, SeqElement
      <3>3. Parts(q, s, 1)
        <4>1. \A i \in 1..1 : i = 1
          OBVIOUS
        <4> QED BY <3>2, <4>1 DEF Parts
      <3> QED BY <2>1, <3>1, <3>3
    <2>2. CASE n # 0
      <3>1. n \in 1..N
        BY <1>2, <2>2
      <3>2. f[n] \in Seq(S) /\ Parts(f[n], s, n)
        BY <1>2, <3>1
      <3>3. f[n + 1] = f[n] \o s[n + 1]
        <4>1. n + 1 # 1 /\ (n + 1) - 1 = n
          BY <2>2
        <4> QED BY <1>2, <4>1
      <3>4. s[n + 1] \in Seq(S) /\ s[n + 1] # <<>>
        BY <1>2
      <3> PICK flat \in Seq(S) : flat = f[n]
        BY <3>2
      <3>5. flat \o s[n + 1] \in Seq(S) /\ Parts(flat \o s[n + 1], s, n + 1)
        BY <3>2, <3>4, PartsOn
      <3> QED BY <3>3, <3>5
    <2> QED BY <2>1, <2>2
  <1>3. ASSUME NEW n \in Nat, n \in T PROVE n + 1 \in T
    <2>1. n + 1 \in 1..N => f[n + 1] \in Seq(S) /\ Parts(f[n + 1], s, n + 1)
      BY <1>2, <1>3
    <2>2. n + 1 \in Nat
      OBVIOUS
    <2> QED BY <2>1, <2>2
  <1>4. T \in SUBSET Nat
    OBVIOUS
  <1> HIDE DEF T
  <1>5. N \in T
    BY <1>1, <1>3, <1>4, Induction
  <1> QED BY <1>5 DEF T

-----------------------------------------------------------------------------
(* Queues: the formats of subjects *)

\* What stands in the place of a part of a format.
Segment(format, names, i) ==
    IF format[i] \in DOMAIN names THEN names[format[i]]
    ELSE <<IF format[i] \in Fields THEN "*" ELSE format[i]>>

\* What a filled format of N parts is: a name may have several parts.
IsFilled(flat, S, format, names, N) ==
    /\ flat \in Seq(S) /\ N <= Len(flat)
    /\ Len(flat) = N <=> \A i \in 1..N : Len(Segment(format, names, i)) = 1
    /\ \A k \in 1..N : (\A i \in 1..k : Len(Segment(format, names, i)) = 1)
           => k <= Len(flat) /\ flat[k] = Segment(format, names, k)[1]

\* A filled format has the segments of its parts, in order.
LEMMA FilledParts ==
    ASSUME NEW S, NEW format, NEW names, NEW N \in Nat, N # 0, DOMAIN format = 1..N,
           \A i \in 1..N : Segment(format, names, i) \in Seq(S) \ {<<>>},
           NEW flat, flat = Filled(format, names)
    PROVE  IsFilled(flat, S, format, names, N)
  <1> PICK s : s = [i \in DOMAIN format |-> Segment(format, names, i)]
    OBVIOUS
  <1>1. Filled(format, names) = FlattenSeq(s)
    BY DEF Filled, Segment
  <1>2. \A i \in 1..N : s[i] = Segment(format, names, i)
    OBVIOUS
  <1>3. s \in Seq(Seq(S)) /\ Len(s) = N
    <2>1. s \in [1..N -> Seq(S)]
      BY <1>2
    <2> QED BY <2>1, SeqDef, LenProperties
  <1>4. flat \in Seq(S) /\ Parts(flat, s, N)
    <2>1. \A i \in 1..N : s[i] \in Seq(S) /\ s[i] # <<>>
      BY <1>2
    <2>2. Len(s) = N
      BY <1>3
    <2>3. FlattenSeq(s) \in Seq(S) /\ Parts(FlattenSeq(s), s, N)
      BY ONLY <2>1, <2>2, FlattenParts, N \in Nat, N # 0
    <2> QED BY <1>1, <2>3
  <1>5. N <= Len(flat) /\ (Len(flat) = N <=> \A i \in 1..N : Len(s[i]) = 1)
    BY <1>4 DEF Parts
  <1>6. ASSUME NEW k \in 1..N, \A i \in 1..k : Len(Segment(format, names, i)) = 1
        PROVE  k <= Len(flat) /\ flat[k] = Segment(format, names, k)[1]
    <2>1. \A i \in 1..k : i \in 1..N
      OBVIOUS
    <2>2. \A i \in 1..k : Len(s[i]) = 1
      BY <1>2, <1>6, <2>1
    <2> QED BY <1>2, <1>4, <2>2 DEF Parts
  <1> QED BY <1>2, <1>4, <1>5, <1>6 DEF IsFilled

AmqpKinds == {"invoke", "complete", "request", "response", "fork", "promote", "deploy", "delete"}

\* The formats of AMQP are those of NATS, for the kinds AMQP has.
LEMMA AmqpFormatsAre ==
    /\ DOMAIN AmqpFormats = AmqpKinds
    /\ \A kind \in AmqpKinds : kind \in DOMAIN NatsFormats /\ AmqpFormats[kind] = NatsFormats[kind]
  BY DEF AmqpFormats, AmqpRunFormats, AmqpServiceFormats, AmqpSessionFormats, AmqpInfraFormats,
         AmqpKinds, NatsFormats

DataKinds == {"invoke", "complete", "request", "response", "svc_request", "svc_response"}
NatsKinds == DataKinds \cup {"fork", "promote", "deploy", "delete"}

\* The kinds of the subjects.
LEMMA KindsAre == DOMAIN NatsFormats = NatsKinds
  BY DEF NatsFormats, NatsKinds, DataKinds

\* How many parts the formats have, and which are fixed.
Parted(kind) == CASE kind = "invoke" -> 10 [] kind = "complete" -> 9 [] kind \in {"fork", "promote"} -> 6
                  [] kind \in {"deploy", "delete"} -> 5 [] OTHER -> 12

\* The parts of every format, one by one.
LEMMA InvokeFormatIs ==
    /\ DOMAIN InvokeFormat = 1..10
    /\ InvokeFormat[1] = "vlinder" /\ InvokeFormat[2] = "data" /\ InvokeFormat[3] = "v1"
    /\ InvokeFormat[4] = "session" /\ InvokeFormat[5] = "branch" /\ InvokeFormat[6] = "submission"
    /\ InvokeFormat[7] = "invoke" /\ InvokeFormat[8] = "harness" /\ InvokeFormat[9] = "runtime"
    /\ InvokeFormat[10] = "agent"
  BY DEF InvokeFormat, Data
LEMMA CompleteFormatIs ==
    /\ DOMAIN CompleteFormat = 1..9
    /\ CompleteFormat[1] = "vlinder" /\ CompleteFormat[2] = "data" /\ CompleteFormat[3] = "v1"
    /\ CompleteFormat[4] = "session" /\ CompleteFormat[5] = "branch" /\ CompleteFormat[6] = "submission"
    /\ CompleteFormat[7] = "complete" /\ CompleteFormat[8] = "agent" /\ CompleteFormat[9] = "harness"
  BY DEF CompleteFormat, Data
OfOperation(format) ==
    /\ DOMAIN format = 1..12
    /\ format[1] = "vlinder" /\ format[2] = "data" /\ format[3] = "v1"
    /\ format[4] = "session" /\ format[5] = "branch" /\ format[6] = "submission"
    /\ format[8] = "agent" /\ format[9] = "service" /\ format[10] = "backend"
    /\ format[11] = "operation" /\ format[12] = "sequence"
LEMMA OperationFormats ==
    /\ OfOperation(RequestFormat) /\ RequestFormat[7] = "request"
    /\ OfOperation(ResponseFormat) /\ ResponseFormat[7] = "response"
    /\ OfOperation(SvcRequestFormat) /\ SvcRequestFormat[7] = "svc_request"
    /\ OfOperation(SvcResponseFormat) /\ SvcResponseFormat[7] = "svc_response"
  <1>1. OfOperation(RequestFormat) /\ RequestFormat[7] = "request"
    BY DEF Data, Operation, OfOperation, RequestFormat
  <1>2. OfOperation(ResponseFormat) /\ ResponseFormat[7] = "response"
    BY DEF Data, Operation, OfOperation, ResponseFormat
  <1>3. OfOperation(SvcRequestFormat) /\ SvcRequestFormat[7] = "svc_request"
    BY DEF Data, Operation, OfOperation, SvcRequestFormat
  <1>4. OfOperation(SvcResponseFormat) /\ SvcResponseFormat[7] = "svc_response"
    BY DEF Data, Operation, OfOperation, SvcResponseFormat
  <1> QED BY <1>1, <1>2, <1>3, <1>4

LEMMA ForkFormatIs ==
    /\ DOMAIN ForkFormat = 1..6
    /\ ForkFormat[1] = "vlinder" /\ ForkFormat[2] = "session" /\ ForkFormat[3] = "1"
    /\ ForkFormat[4] = "submission" /\ ForkFormat[5] = "fork" /\ ForkFormat[6] = "agent"
  BY DEF ForkFormat

LEMMA PromoteFormatIs ==
    /\ DOMAIN PromoteFormat = 1..6
    /\ PromoteFormat[1] = "vlinder" /\ PromoteFormat[2] = "session" /\ PromoteFormat[3] = "branch"
    /\ PromoteFormat[4] = "submission" /\ PromoteFormat[5] = "promote" /\ PromoteFormat[6] = "agent"
  BY DEF PromoteFormat

LEMMA DeployFormatIs ==
    /\ DOMAIN DeployFormat = 1..5
    /\ DeployFormat[1] = "vlinder" /\ DeployFormat[2] = "infra" /\ DeployFormat[3] = "v1"
    /\ DeployFormat[4] = "submission" /\ DeployFormat[5] = "deploy-agent"
  BY DEF DeployFormat

LEMMA DeleteFormatIs ==
    /\ DOMAIN DeleteFormat = 1..5
    /\ DeleteFormat[1] = "vlinder" /\ DeleteFormat[2] = "infra" /\ DeleteFormat[3] = "v1"
    /\ DeleteFormat[4] = "submission" /\ DeleteFormat[5] = "delete-agent"
  BY DEF DeleteFormat

\* The fields of the formats.
InvokeFields == {"session", "branch", "submission", "harness", "runtime", "agent"}
CompleteFields == {"session", "branch", "submission", "agent", "harness"}
OperationFields == {"session", "branch", "submission", "agent", "service", "backend", "operation",
                    "sequence"}

\* The fields of every format.
LEMMA FieldsAre ==
    /\ FieldsOf(InvokeFormat) = InvokeFields /\ FieldsOf(CompleteFormat) = CompleteFields
    /\ \A f \in {RequestFormat, ResponseFormat, SvcRequestFormat, SvcResponseFormat} :
           FieldsOf(f) = OperationFields
    /\ FieldsOf(ForkFormat) = {"session", "submission", "agent"}
    /\ FieldsOf(PromoteFormat) = {"session", "branch", "submission", "agent"}
    /\ FieldsOf(DeployFormat) = {"submission"} /\ FieldsOf(DeleteFormat) = {"submission"}
  <1>1. FieldsOf(InvokeFormat) = InvokeFields
    BY InvokeFormatIs DEF FieldsOf, ToSet, Fields, InvokeFields
  <1>2. FieldsOf(CompleteFormat) = CompleteFields
    BY CompleteFormatIs DEF FieldsOf, ToSet, Fields, CompleteFields
  <1>3. ASSUME NEW f \in {RequestFormat, ResponseFormat, SvcRequestFormat, SvcResponseFormat}
        PROVE  FieldsOf(f) = OperationFields
    <2>1. OfOperation(f) /\ f[7] \in {"request", "response", "svc_request", "svc_response"}
      BY OperationFormats
    <2> QED BY <2>1 DEF OfOperation, FieldsOf, ToSet, Fields, OperationFields
  <1>4. /\ FieldsOf(ForkFormat) = {"session", "submission", "agent"}
        /\ FieldsOf(PromoteFormat) = {"session", "branch", "submission", "agent"}
    BY ForkFormatIs, PromoteFormatIs DEF FieldsOf, ToSet, Fields
  <1>5. FieldsOf(DeployFormat) = {"submission"} /\ FieldsOf(DeleteFormat) = {"submission"}
    BY DeployFormatIs, DeleteFormatIs DEF FieldsOf, ToSet, Fields
  <1> QED BY <1>1, <1>2, <1>3, <1>4, <1>5

-----------------------------------------------------------------------------
(* Queues: names, segments and keys *)

\* What a part of a subject or of a filter may be; only the tail of a filter may be anything else.
FixedParts == Fields \cup DataKinds \cup {"vlinder", "data", "v1", "1", "infra", "fork", "promote",
                                         "deploy-agent", "delete-agent"}
TaskParts == {"kv", "sqlite", "get", "put", "list", "delete", "vec", "sqlite-vec", "store", "search",
              "infer", "ollama", "run", "chat", "generate", "embed", "openrouter", "mcp"}
NameParts == (STRING \cup FixedParts \cup TaskParts) \ {"*", ">", "#"}
Plain == NameParts \cup {"*"}
IsPlain(field, name) ==
    /\ name \in Seq(NameParts) \ {<<>>}
    /\ field \in Identifiers => Len(name) = 1
    /\ field = "session" => name[1] # "data"
AreNames(names) == \A f \in DOMAIN names : IsPlain(f, names[f])
IsFormat(format, N) ==
    /\ N \in Nat /\ N >= 5 /\ DOMAIN format = 1..N /\ Len(format) = N
    /\ format[1] = "vlinder" /\ \A i \in 1..N : format[i] \in FixedParts

\* Every format has fixed parts and fields only, no field twice.
LEMMA FormatsAre ==
    ASSUME NEW kind \in NatsKinds
    PROVE  IsFormat(NatsFormats[kind], Parted(kind))
  <1>1. IsFormat(InvokeFormat, 10)
    <2>1. Len(InvokeFormat) = 10
      BY DEF InvokeFormat, Data
    <2>2. ASSUME NEW i \in 1..10 PROVE InvokeFormat[i] \in FixedParts
      <3>1. i = 1 \/ i = 2 \/ i = 3 \/ i = 4 \/ i = 5 \/ i = 6 \/ i = 7 \/ i = 8 \/ i = 9 \/ i = 10
        OBVIOUS
      <3> QED BY <3>1, InvokeFormatIs DEF FixedParts, Fields, DataKinds
    <2> QED BY <2>1, <2>2, InvokeFormatIs DEF IsFormat
  <1>2. IsFormat(CompleteFormat, 9)
    <2>1. Len(CompleteFormat) = 9
      BY DEF CompleteFormat, Data
    <2>2. ASSUME NEW i \in 1..9 PROVE CompleteFormat[i] \in FixedParts
      <3>1. i = 1 \/ i = 2 \/ i = 3 \/ i = 4 \/ i = 5 \/ i = 6 \/ i = 7 \/ i = 8 \/ i = 9
        OBVIOUS
      <3> QED BY <3>1, CompleteFormatIs DEF FixedParts, Fields, DataKinds
    <2> QED BY <2>1, <2>2, CompleteFormatIs DEF IsFormat
  <1>3. IsFormat(RequestFormat, 12)
    <2>1. Len(RequestFormat) = 12
      BY DEF RequestFormat, Data, Operation
    <2>2. ASSUME NEW i \in 1..12 PROVE RequestFormat[i] \in FixedParts
      <3>1. i = 1 \/ i = 2 \/ i = 3 \/ i = 4 \/ i = 5 \/ i = 6 \/ i = 7 \/ i = 8 \/ i = 9 \/ i = 10 \/ i = 11 \/ i = 12
        OBVIOUS
      <3> QED BY <3>1, OperationFormats DEF OfOperation, FixedParts, Fields, DataKinds
    <2> QED BY <2>1, <2>2, OperationFormats DEF IsFormat, OfOperation
  <1>4. IsFormat(ResponseFormat, 12)
    <2>1. Len(ResponseFormat) = 12
      BY DEF ResponseFormat, Data, Operation
    <2>2. ASSUME NEW i \in 1..12 PROVE ResponseFormat[i] \in FixedParts
      <3>1. i = 1 \/ i = 2 \/ i = 3 \/ i = 4 \/ i = 5 \/ i = 6 \/ i = 7 \/ i = 8 \/ i = 9 \/ i = 10 \/ i = 11 \/ i = 12
        OBVIOUS
      <3> QED BY <3>1, OperationFormats DEF OfOperation, FixedParts, Fields, DataKinds
    <2> QED BY <2>1, <2>2, OperationFormats DEF IsFormat, OfOperation
  <1>5. IsFormat(SvcRequestFormat, 12)
    <2>1. Len(SvcRequestFormat) = 12
      BY DEF SvcRequestFormat, Data, Operation
    <2>2. ASSUME NEW i \in 1..12 PROVE SvcRequestFormat[i] \in FixedParts
      <3>1. i = 1 \/ i = 2 \/ i = 3 \/ i = 4 \/ i = 5 \/ i = 6 \/ i = 7 \/ i = 8 \/ i = 9 \/ i = 10 \/ i = 11 \/ i = 12
        OBVIOUS
      <3> QED BY <3>1, OperationFormats DEF OfOperation, FixedParts, Fields, DataKinds
    <2> QED BY <2>1, <2>2, OperationFormats DEF IsFormat, OfOperation
  <1>6. IsFormat(SvcResponseFormat, 12)
    <2>1. Len(SvcResponseFormat) = 12
      BY DEF SvcResponseFormat, Data, Operation
    <2>2. ASSUME NEW i \in 1..12 PROVE SvcResponseFormat[i] \in FixedParts
      <3>1. i = 1 \/ i = 2 \/ i = 3 \/ i = 4 \/ i = 5 \/ i = 6 \/ i = 7 \/ i = 8 \/ i = 9 \/ i = 10 \/ i = 11 \/ i = 12
        OBVIOUS
      <3> QED BY <3>1, OperationFormats DEF OfOperation, FixedParts, Fields, DataKinds
    <2> QED BY <2>1, <2>2, OperationFormats DEF IsFormat, OfOperation
  <1>7. IsFormat(ForkFormat, 6)
    <2>1. Len(ForkFormat) = 6
      BY DEF ForkFormat
    <2>2. ASSUME NEW i \in 1..6 PROVE ForkFormat[i] \in FixedParts
      <3>1. i = 1 \/ i = 2 \/ i = 3 \/ i = 4 \/ i = 5 \/ i = 6
        OBVIOUS
      <3> QED BY <3>1, ForkFormatIs DEF FixedParts, Fields, DataKinds
    <2> QED BY <2>1, <2>2, ForkFormatIs DEF IsFormat
  <1>8. IsFormat(PromoteFormat, 6)
    <2>1. Len(PromoteFormat) = 6
      BY DEF PromoteFormat
    <2>2. ASSUME NEW i \in 1..6 PROVE PromoteFormat[i] \in FixedParts
      <3>1. i = 1 \/ i = 2 \/ i = 3 \/ i = 4 \/ i = 5 \/ i = 6
        OBVIOUS
      <3> QED BY <3>1, PromoteFormatIs DEF FixedParts, Fields, DataKinds
    <2> QED BY <2>1, <2>2, PromoteFormatIs DEF IsFormat
  <1>9. IsFormat(DeployFormat, 5)
    <2>1. Len(DeployFormat) = 5
      BY DEF DeployFormat
    <2>2. ASSUME NEW i \in 1..5 PROVE DeployFormat[i] \in FixedParts
      <3>1. i = 1 \/ i = 2 \/ i = 3 \/ i = 4 \/ i = 5
        OBVIOUS
      <3> QED BY <3>1, DeployFormatIs DEF FixedParts, Fields, DataKinds
    <2> QED BY <2>1, <2>2, DeployFormatIs DEF IsFormat
  <1>10. IsFormat(DeleteFormat, 5)
    <2>1. Len(DeleteFormat) = 5
      BY DEF DeleteFormat
    <2>2. ASSUME NEW i \in 1..5 PROVE DeleteFormat[i] \in FixedParts
      <3>1. i = 1 \/ i = 2 \/ i = 3 \/ i = 4 \/ i = 5
        OBVIOUS
      <3> QED BY <3>1, DeleteFormatIs DEF FixedParts, Fields, DataKinds
    <2> QED BY <2>1, <2>2, DeleteFormatIs DEF IsFormat
  <1> QED
    BY <1>1, <1>2, <1>3, <1>4, <1>5, <1>6, <1>7, <1>8, <1>9, <1>10
       DEF NatsKinds, DataKinds, NatsFormats, Parted

\* A name has no wildcard in it.
LEMMA NameIsPlain ==
    ASSUME NEW field, NEW name, IsName(field, name)
    PROVE  IsPlain(field, name)
  <1> PICK q \in Seq(STRING) : q = name /\ q # <<>>
    BY DEF IsName
  <1>1. DOMAIN q = 1..Len(q) /\ Len(q) \in Nat
    BY SeqElement
  <1>2. ASSUME NEW i \in 1..Len(q) PROVE q[i] \in NameParts
    <2>1. q[i] \in ToSet(q)
      BY <1>1 DEF ToSet
    <2>2. ToSet(q) \cap {"*", ">", "#"} = {}
      BY DEF IsName
    <2>3. q[i] \in STRING
      BY <1>1, SeqElement
    <2> QED BY <2>1, <2>2, <2>3 DEF NameParts
  <1>3. q \in Seq(NameParts)
    <2>1. q \in [1..Len(q) -> NameParts]
      <3>1. q = [i \in 1..Len(q) |-> q[i]]
        BY LenProperties
      <3> QED BY <1>2, <3>1
    <2> QED BY <1>1, <2>1, SeqDef
  <1> QED BY <1>3 DEF IsPlain, IsName

\* What a name is made of.
LEMMA NameIs ==
    ASSUME NEW field, NEW name, IsPlain(field, name)
    PROVE  /\ name \in Seq(Plain) \ {<<>>} /\ name \in Seq(NameParts) /\ Len(name) >= 1 /\ Len(name) \in Nat
           /\ name[1] # "*"
  <1> PICK q \in Seq(NameParts) : q = name /\ q # <<>>
    BY DEF IsPlain
  <1>1. Len(q) \in Nat /\ Len(q) # 0 /\ DOMAIN q = 1..Len(q)
    BY EmptySeq, SeqElement
  <1>2. \A i \in 1..Len(q) : q[i] \in NameParts
    BY <1>1, SeqElement
  <1>3. q \in Seq(Plain)
    BY DEF Plain
  <1>4. q[1] # "*" /\ Len(q) >= 1
    BY <1>1, <1>2 DEF NameParts
  <1> QED BY <1>1, <1>3, <1>4

\* What fills the place of a part: the name, or one wildcard or fixed part.
LEMMA SegmentIs ==
    ASSUME NEW format, NEW N, IsFormat(format, N), NEW names, AreNames(names), NEW i \in 1..N
    PROVE  /\ Segment(format, names, i) \in Seq(Plain) \ {<<>>}
           /\ format[i] \in DOMAIN names => /\ Segment(format, names, i) = names[format[i]]
                                            /\ Len(names[format[i]]) >= 1
           /\ format[i] \notin DOMAIN names => Len(Segment(format, names, i)) = 1
           /\ format[i] \notin Fields /\ format[i] \notin DOMAIN names =>
                  Segment(format, names, i)[1] = format[i]
  <1>1. CASE format[i] \in DOMAIN names
    <2>1. Segment(format, names, i) = names[format[i]]
      BY <1>1 DEF Segment
    <2>2. IsPlain(format[i], names[format[i]])
      BY <1>1 DEF AreNames
    <2> QED BY <1>1, <2>1, <2>2, NameIs
  <1>2. CASE format[i] \notin DOMAIN names
    <2>1. format[i] \in Plain /\ "*" \in Plain
      BY DEF IsFormat, Plain, NameParts, FixedParts, Fields, DataKinds
    <2>2. PICK e : /\ e = (IF format[i] \in Fields THEN "*" ELSE format[i])
                   /\ Segment(format, names, i) = <<e>>
      BY <1>2 DEF Segment
    <2>3. e \in Plain
      BY <2>1, <2>2
    <2>4. <<e>> \in Seq(Plain) /\ Len(<<e>>) = 1 /\ <<e>>[1] = e /\ <<e>> # <<>>
      BY <2>3
    <2> QED BY <1>2, <2>2, <2>4, <2>3
  <1> QED BY <1>1, <1>2

\* The parts of a filled format.
LEMMA FilledIs ==
    ASSUME NEW format, NEW N, IsFormat(format, N), NEW names, AreNames(names),
           NEW flat, flat = Filled(format, names)
    PROVE  IsFilled(flat, Plain, format, names, N)
  <1>1. N \in Nat /\ N # 0 /\ DOMAIN format = 1..N
    BY DEF IsFormat
  <1>2. \A i \in 1..N : Segment(format, names, i) \in Seq(Plain) \ {<<>>}
    BY SegmentIs
  <1> QED BY <1>1, <1>2, FilledParts

\* The fields of a key are those of its format.
LEMMA KeyIs ==
    ASSUME NEW key, IsKey(key)
    PROVE  /\ key.kind \in NatsKinds /\ AreNames(key.names)
           /\ DOMAIN key.names = FieldsOf(NatsFormats[key.kind])
           /\ key = [kind |-> key.kind, names |-> key.names]
  BY KindsAre, NameIsPlain DEF IsKey, AreNames

\* Session, branch and submission are one part each, and no session is called "data".
LEMMA SingleNames ==
    ASSUME NEW names, AreNames(names), NEW f \in DOMAIN names \cap Identifiers
    PROVE  Len(names[f]) = 1 /\ (f = "session" => names[f][1] # "data")
  BY DEF AreNames, IsPlain

\* A part of a format that comes after fixed parts and identifiers only.
LEMMA PartIs ==
    ASSUME NEW format, NEW N, IsFormat(format, N), NEW names, AreNames(names), NEW k \in 1..N,
           \A i \in 1..k : format[i] \notin Fields \ Identifiers,
           \A i \in 1..k : format[i] \in Fields <=> format[i] \in DOMAIN names,
           NEW flat, flat = Filled(format, names)
    PROVE  /\ k <= Len(flat)
           /\ format[k] \notin Fields => flat[k] = format[k]
           /\ format[k] = "session" => flat[k] # "data"
  <1>1. ASSUME NEW i \in 1..k PROVE Len(Segment(format, names, i)) = 1
    <2>1. i \in 1..N
      BY DEF IsFormat
    <2>2. CASE format[i] \in DOMAIN names
      <3>1. Segment(format, names, i) = names[format[i]]
        BY <2>1, <2>2, SegmentIs
      <3>2. format[i] \in Identifiers
        BY <2>2
      <3> QED BY <2>2, <3>1, <3>2, SingleNames
    <2>3. CASE format[i] \notin DOMAIN names
      BY <2>1, <2>3, SegmentIs
    <2> QED BY <2>2, <2>3
  <1>2. k <= Len(flat) /\ flat[k] = Segment(format, names, k)[1]
    BY <1>1, FilledIs DEF IsFilled
  <1>3. k \in 1..k
    BY DEF IsFormat
  <1>4. format[k] \notin Fields => flat[k] = format[k]
    BY <1>2, <1>3, SegmentIs
  <1>5. ASSUME format[k] = "session" PROVE flat[k] # "data"
    <2>1. "session" \in DOMAIN names \cap Identifiers
      BY <1>3, <1>5 DEF Fields, Identifiers
    <2>2. Segment(format, names, k) = names["session"]
      BY <1>5, <2>1, SegmentIs
    <2> QED BY <1>2, <2>1, <2>2, SingleNames
  <1> QED BY <1>2, <1>4, <1>5

-----------------------------------------------------------------------------
(* Queues: a subject and what is read from it *)

\* The backend's format of a kind is that of NATS.
Speaks(backend, kind) ==
    /\ kind \in NatsKinds /\ backend \in {"nats", "amqp"}
    /\ backend = "amqp" => kind \in AmqpKinds

\* Where both backends have a format, it is the same.
LEMMA FormatOf ==
    ASSUME NEW backend, NEW kind, Speaks(backend, kind)
    PROVE  Formats(backend)[kind] = NatsFormats[kind]
  BY AmqpFormatsAre DEF Speaks, Formats

\* The subject of a key is the format of its kind, filled.
LEMMA SubjectIs ==
    ASSUME NEW backend, NEW key, IsKey(key), Speaks(backend, key.kind)
    PROVE  /\ Subject(backend, key) = Filled(NatsFormats[key.kind], key.names)
           /\ IsFilled(Subject(backend, key), Plain, NatsFormats[key.kind], key.names, Parted(key.kind))
           /\ IsFormat(NatsFormats[key.kind], Parted(key.kind)) /\ AreNames(key.names)
           /\ DOMAIN key.names = FieldsOf(NatsFormats[key.kind])
  BY FormatOf, KeyIs, FormatsAre, FilledIs DEF Subject

\* Every field of a format has a place in it.
LEMMA FieldsOfIs ==
    ASSUME NEW format, NEW N, IsFormat(format, N)
    PROVE  /\ \A i \in 1..N : format[i] \in Fields <=> format[i] \in FieldsOf(format)
           /\ \A f \in FieldsOf(format) : /\ f \in Fields
                                          /\ PlaceOf(format, f) \in 1..N /\ format[PlaceOf(format, f)] = f
  <1>1. ToSet(format) = {format[i] : i \in 1..N}
    BY DEF ToSet, IsFormat
  <1>2. ASSUME NEW f \in FieldsOf(format)
        PROVE  f \in Fields /\ PlaceOf(format, f) \in 1..N /\ format[PlaceOf(format, f)] = f
    <2>1. \E i \in DOMAIN format : format[i] = f
      BY <1>1, <1>2 DEF FieldsOf, IsFormat
    <2> QED BY <1>2, <2>1 DEF FieldsOf, PlaceOf, IsFormat
  <1> QED BY <1>1, <1>2 DEF FieldsOf

\* The fixed parts of a subject that follow identifiers only.
LEMMA SubjectPart ==
    ASSUME NEW backend, NEW key, IsKey(key), Speaks(backend, key.kind),
           NEW k \in 1..Parted(key.kind), NEW format, format = NatsFormats[key.kind],
           \A i \in 1..k : format[i] \notin Fields \ Identifiers,
           NEW flat, flat = Subject(backend, key)
    PROVE  /\ k <= Len(flat)
           /\ format[k] \notin Fields => flat[k] = format[k]
           /\ format[k] = "session" => flat[k] # "data"
  <1>1. /\ flat = Filled(format, key.names) /\ IsFormat(format, Parted(key.kind))
        /\ AreNames(key.names) /\ DOMAIN key.names = FieldsOf(format)
    BY SubjectIs
  <1>2. \A i \in 1..k : i \in 1..Parted(key.kind)
    BY <1>1 DEF IsFormat
  <1>3. \A i \in 1..k : format[i] \in Fields <=> format[i] \in DOMAIN key.names
    BY <1>1, <1>2, FieldsOfIs
  <1> QED BY <1>1, <1>3, PartIs

\* A key that is parsed as that of its own kind is told as it was sent.
LEMMA SameKind ==
    ASSUME NEW backend, NEW key, IsKey(key), Speaks(backend, key.kind),
           Parse(backend, key.kind, Subject(backend, key)) # Unparsed
    PROVE  /\ Parse(backend, key.kind, Subject(backend, key)) = key
           /\ Len(Subject(backend, key)) = Parted(key.kind)
           /\ \A f \in DOMAIN key.names : Len(key.names[f]) = 1
           /\ \A f \in DOMAIN key.names :
                  LET i == PlaceOf(NatsFormats[key.kind], f) IN Subject(backend, key)[i] = key.names[f][1]
  <1> PICK format, N, flat : /\ format = NatsFormats[key.kind] /\ N = Parted(key.kind)
                             /\ flat = Subject(backend, key)
    OBVIOUS
  <1>1. /\ IsFilled(flat, Plain, format, key.names, N) /\ IsFormat(format, N) /\ AreNames(key.names)
        /\ DOMAIN key.names = FieldsOf(format)
    BY SubjectIs
  <1>2. Len(flat) = N
    BY <1>1, FormatOf DEF Parse, IsFormat
  <1>3. Parse(backend, key.kind, flat) =
            [kind |-> key.kind, names |-> [f \in FieldsOf(format) |-> <<flat[PlaceOf(format, f)]>>]]
    BY FormatOf DEF Parse
  <1>4. \A i \in 1..N : Len(Segment(format, key.names, i)) = 1
    BY <1>1, <1>2 DEF IsFilled
  <1>5. \A k \in 1..N : flat[k] = Segment(format, key.names, k)[1]
    <2>1. ASSUME NEW k \in 1..N, NEW i \in 1..k PROVE i \in 1..N
      BY <1>1 DEF IsFormat
    <2> QED BY <1>1, <1>4, <2>1 DEF IsFilled
  <1>6. ASSUME NEW f \in FieldsOf(format)
        PROVE  /\ Len(key.names[f]) = 1 /\ flat[PlaceOf(format, f)] = key.names[f][1]
               /\ key.names[f] = <<flat[PlaceOf(format, f)]>>
    <2>1. PlaceOf(format, f) \in 1..N /\ format[PlaceOf(format, f)] = f
      BY <1>1, <1>6, FieldsOfIs
    <2>2. Segment(format, key.names, PlaceOf(format, f)) = key.names[f]
      BY <1>1, <1>6, <2>1, SegmentIs
    <2>3. Len(key.names[f]) = 1 /\ flat[PlaceOf(format, f)] = key.names[f][1]
      BY <1>4, <1>5, <2>1, <2>2
    <2>4. IsPlain(f, key.names[f])
      BY <1>1, <1>6 DEF AreNames
    <2> PICK q \in Seq(NameParts) : q = key.names[f]
      BY <2>4 DEF IsPlain
    <2>5. q = <<q[1]>>
      BY <2>3
    <2> QED BY <2>3, <2>5
  <1>7. key.names = [f \in FieldsOf(format) |-> <<flat[PlaceOf(format, f)]>>]
    <2>1. key.names = [f \in FieldsOf(format) |-> key.names[f]]
      BY <1>1 DEF IsKey
    <2> QED BY <1>6, <2>1
  <1> QED BY <1>1, <1>2, <1>3, <1>6, <1>7, KeyIs

-----------------------------------------------------------------------------
(* Queues: no subject is read as one of another kind *)

\* The head of the formats of data: the kind is the seventh part.
LEMMA DataFormatIs ==
    ASSUME NEW kind \in DataKinds
    PROVE  LET format == NatsFormats[kind] IN
           /\ format[1] = "vlinder" /\ format[2] = "data" /\ format[3] = "v1" /\ format[4] = "session"
           /\ format[5] = "branch" /\ format[6] = "submission" /\ format[7] = kind
           /\ Parted(kind) >= 9 /\ Parted(kind) \in Nat
  BY InvokeFormatIs, CompleteFormatIs, OperationFormats DEF DataKinds, NatsFormats, OfOperation, Parted

\* A subject of data says so in its second part and has its kind in the seventh.
LEMMA DataSubjectIs ==
    ASSUME NEW backend, NEW key, IsKey(key), Speaks(backend, key.kind), key.kind \in DataKinds,
           NEW flat, flat = Subject(backend, key)
    PROVE  flat[2] = "data" /\ flat[3] = "v1" /\ flat[7] = key.kind /\ Len(flat) >= 9
  <1> PICK format : format = NatsFormats[key.kind]
    OBVIOUS
  <1>1. /\ format[1] = "vlinder" /\ format[2] = "data" /\ format[3] = "v1" /\ format[4] = "session"
        /\ format[5] = "branch" /\ format[6] = "submission" /\ format[7] = key.kind
        /\ Parted(key.kind) >= 9 /\ Parted(key.kind) \in Nat
    BY DataFormatIs
  <1>2. {"vlinder", "data", "v1", key.kind} \cap Fields = {}
    BY DEF Fields, DataKinds
  <1>3. \A i \in 1..7 : i = 1 \/ i = 2 \/ i = 3 \/ i = 4 \/ i = 5 \/ i = 6 \/ i = 7
    OBVIOUS
  <1>4. \A i \in 1..7 : format[i] \notin Fields \ Identifiers
    BY <1>1, <1>2, <1>3 DEF Identifiers
  <1>5. ASSUME NEW k \in {2, 3, 7} PROVE flat[k] = format[k]
    <2>1. k \in 1..Parted(key.kind)
      BY <1>1
    <2>2. \A i \in 1..k : i \in 1..7
      OBVIOUS
    <2>3. format[k] \notin Fields
      BY <1>1, <1>2
    <2> QED BY <1>4, <2>1, <2>2, <2>3, SubjectPart
  <1>6. Parted(key.kind) <= Len(flat) /\ flat \in Seq(Plain)
    BY SubjectIs DEF IsFilled
  <1>7. Len(flat) \in Nat
    BY <1>6, SeqElement
  <1>8. Len(flat) >= 9
    BY <1>1, <1>6, <1>7
  <1> QED BY <1>1, <1>5, <1>8

OtherKinds == {"fork", "promote", "deploy", "delete"}
\* The formats of forks, promotes, deployments and deletions.
LEMMA OtherFormatIs ==
    ASSUME NEW kind \in OtherKinds
    PROVE  LET format == NatsFormats[kind] IN
           /\ format[1] = "vlinder" /\ format[2] = (IF kind \in {"fork", "promote"} THEN "session" ELSE "infra")
           /\ format[3] = (CASE kind = "fork" -> "1" [] kind = "promote" -> "branch" [] OTHER -> "v1")
           /\ format[4] = "submission"
           /\ format[5] = (CASE kind = "deploy" -> "deploy-agent" [] kind = "delete" -> "delete-agent"
                             [] OTHER -> kind)
           /\ Parted(kind) \in 5..6
  BY ForkFormatIs, PromoteFormatIs, DeployFormatIs, DeleteFormatIs DEF OtherKinds, NatsFormats, Parted

\* Their subjects say their kind in the fifth part, and "data" never in the second.
LEMMA OtherSubjectIs ==
    ASSUME NEW backend, NEW key, IsKey(key), Speaks(backend, key.kind), key.kind \in OtherKinds,
           NEW flat, flat = Subject(backend, key)
    PROVE  /\ flat[2] # "data"
           /\ flat[5] = (CASE key.kind = "deploy" -> "deploy-agent" [] key.kind = "delete" -> "delete-agent"
                           [] OTHER -> key.kind)
  <1> PICK format : format = NatsFormats[key.kind]
    OBVIOUS
  <1>1. /\ format[1] = "vlinder"
        /\ format[2] = (IF key.kind \in {"fork", "promote"} THEN "session" ELSE "infra")
        /\ format[3] = (CASE key.kind = "fork" -> "1" [] key.kind = "promote" -> "branch" [] OTHER -> "v1")
        /\ format[4] = "submission"
        /\ format[5] = (CASE key.kind = "deploy" -> "deploy-agent" [] key.kind = "delete" -> "delete-agent"
                          [] OTHER -> key.kind)
        /\ Parted(key.kind) \in 5..6
    BY OtherFormatIs
  <1>2. ASSUME NEW i \in 1..5 PROVE format[i] \notin Fields \ Identifiers
    <2>1. i = 1 \/ i = 2 \/ i = 3 \/ i = 4 \/ i = 5
      OBVIOUS
    <2> QED BY <1>1, <2>1 DEF Fields, Identifiers, OtherKinds
  <1>3. ASSUME NEW k \in {2, 5}
        PROVE  /\ format[k] \notin Fields => flat[k] = format[k]
               /\ format[k] = "session" => flat[k] # "data"
    <2>1. k \in 1..Parted(key.kind)
      BY <1>1
    <2>2. \A i \in 1..k : i \in 1..5
      OBVIOUS
    <2>3. \A i \in 1..k : format[i] \notin Fields \ Identifiers
      BY <1>2, <2>2
    <2> QED BY <2>1, <2>3, SubjectPart
  <1>4. format[5] \notin Fields
    BY <1>1 DEF Fields, OtherKinds
  <1>5. "infra" \notin Fields
    BY DEF Fields
  <1>6. flat[2] # "data"
    BY <1>1, <1>3, <1>5 DEF OtherKinds
  <1>7. flat[5] = format[5]
    BY <1>3, <1>4
  <1> QED BY <1>1, <1>6, <1>7

\* Nothing is parsed as a key of another kind.
LEMMA OtherKind ==
    ASSUME NEW backend, NEW key, IsKey(key), Speaks(backend, key.kind),
           NEW kind, Speaks(backend, kind), kind # key.kind
    PROVE  Parse(backend, kind, Subject(backend, key)) = Unparsed
  <1> SUFFICES ASSUME Parse(backend, kind, Subject(backend, key)) # Unparsed PROVE FALSE
    OBVIOUS
  <1> PICK format, N, flat : /\ format = NatsFormats[kind] /\ N = Parted(kind)
                             /\ flat = Subject(backend, key)
    OBVIOUS
  <1>1. IsFormat(format, N) /\ kind \in NatsKinds /\ key.kind \in NatsKinds
    BY FormatsAre DEF Speaks
  <1>2. Len(flat) = N /\ \A i \in 1..N : format[i] \in Fields \cup {flat[i]}
    BY <1>1, FormatOf DEF Parse, IsFormat
  <1>3. CASE kind \in DataKinds /\ key.kind \in DataKinds
    <2>1. format[7] = kind /\ 7 \in 1..N
      BY <1>3, DataFormatIs
    <2>2. flat[7] = key.kind
      BY <1>3, DataSubjectIs
    <2>3. kind \notin Fields
      BY <1>3 DEF DataKinds, Fields
    <2> QED BY <1>2, <2>1, <2>2, <2>3
  <1>4. CASE kind \in DataKinds /\ key.kind \in OtherKinds
    <2>1. format[2] = "data" /\ 2 \in 1..N
      BY <1>4, DataFormatIs
    <2>2. flat[2] # "data"
      BY <1>4, OtherSubjectIs
    <2>3. "data" \notin Fields
      BY DEF Fields
    <2> QED BY <1>2, <2>1, <2>2, <2>3
  <1>5. CASE kind \in OtherKinds /\ key.kind \in DataKinds
    <2>1. Len(flat) >= 9
      BY <1>5, DataSubjectIs
    <2>2. N \in 5..6
      BY <1>5, OtherFormatIs
    <2> QED BY <1>2, <2>1, <2>2
  <1>6. CASE kind \in OtherKinds /\ key.kind \in OtherKinds
    <2>1. 5 \in 1..N /\ format[5] = (CASE kind = "deploy" -> "deploy-agent" [] kind = "delete" -> "delete-agent"
                                       [] OTHER -> kind)
      BY <1>6, OtherFormatIs
    <2>2. flat[5] = (CASE key.kind = "deploy" -> "deploy-agent" [] key.kind = "delete" -> "delete-agent"
                       [] OTHER -> key.kind)
      BY <1>6, OtherSubjectIs
    <2>3. format[5] \notin Fields
      BY <1>6, <2>1 DEF OtherKinds, Fields
    <2>4. format[5] = flat[5]
      BY <1>2, <2>1, <2>3
    <2> QED BY <1>6, <2>1, <2>2, <2>4 DEF OtherKinds
  <1> QED BY <1>1, <1>3, <1>4, <1>5, <1>6 DEF NatsKinds, DataKinds, OtherKinds

-----------------------------------------------------------------------------
(* Queues: what a filter selects was asked for *)

\* What the asks of a broker's consumers are; those of requests have single names.
IsAsk(a) ==
    /\ a.kind \in NatsKinds /\ AreNames(a.names) /\ DOMAIN a.names \subseteq FieldsOf(NatsFormats[a.kind])
    /\ a.kind \in {"request", "svc_request"} =>
           \A f \in DOMAIN a.names : Len(a.names[f]) = 1 /\ f # "sequence"

\* A name of the ask that the filter compares is that of the key.
LEMMA ComparedName ==
    ASSUME NEW backend, NEW key, IsKey(key), Speaks(backend, key.kind),
           Parse(backend, key.kind, Subject(backend, key)) # Unparsed,
           NEW a, IsAsk(a), a.kind = key.kind,
           NEW format, format = NatsFormats[key.kind], NEW parts, parts = Filled(format, a.names),
           \A j \in 1..Parted(key.kind) : Len(Segment(format, a.names, j)) = 1,
           NEW f \in DOMAIN a.names,
           parts[PlaceOf(format, f)] \in {"*", Subject(backend, key)[PlaceOf(format, f)]}
    PROVE  key.names[f] = a.names[f]
  <1> PICK N, i : N = Parted(key.kind) /\ i = PlaceOf(format, f)
    OBVIOUS
  <1>1. IsFormat(format, N) /\ AreNames(a.names)
    BY FormatsAre DEF Speaks, IsAsk
  <1>2. i \in 1..N /\ format[i] = f /\ f \in FieldsOf(format)
    BY <1>1, FieldsOfIs DEF IsAsk
  <1>3. IsFilled(parts, Plain, format, a.names, N)
    BY <1>1, FilledIs
  <1>4. parts[i] = Segment(format, a.names, i)[1]
    <2>1. \A j \in 1..i : j \in 1..N
      BY <1>1, <1>2 DEF IsFormat
    <2> QED BY <1>2, <1>3, <2>1 DEF IsFilled
  <1>5. Segment(format, a.names, i) = a.names[f] /\ Len(a.names[f]) = 1
    BY <1>1, <1>2, SegmentIs
  <1>6. IsPlain(f, a.names[f])
    BY <1>1 DEF AreNames
  <1>7. a.names[f][1] # "*" /\ a.names[f] \in Seq(NameParts)
    BY <1>6, NameIs
  <1>8. f \in DOMAIN key.names /\ AreNames(key.names)
    BY <1>2, KeyIs
  <1>9. key.names[f][1] = a.names[f][1]
    BY <1>4, <1>5, <1>7, <1>8, SameKind
  <1>10. Len(key.names[f]) = 1
    BY <1>8, SameKind
  <1>11. key.names[f] \in Seq(NameParts)
    <2>1. IsPlain(f, key.names[f])
      BY <1>8 DEF AreNames
    <2> QED BY <2>1, NameIs
  <1> PICK q \in Seq(NameParts), r \in Seq(NameParts) : q = key.names[f] /\ r = a.names[f]
    BY <1>7, <1>11
  <1>12. Len(q) = 1 /\ Len(r) = 1 /\ q[1] = r[1]
    BY <1>5, <1>9, <1>10
  <1>13. q = r
    BY <1>12
  <1> QED BY <1>13

\* A filter without an open tail matches part by part.
LEMMA PlainMatches ==
    ASSUME NEW parts \in Seq(Plain), Len(parts) # 0, NEW subject, Matches(parts, subject)
    PROVE  Len(subject) = Len(parts) /\ \A i \in 1..Len(parts) : parts[i] \in {"*", subject[i]}
  <1>1. Len(parts) \in 1..Len(parts)
    BY SeqElement
  <1>2. parts[Len(parts)] \in Plain
    BY <1>1, SeqElement
  <1>3. Last(parts) \notin {">", "#"}
    BY <1>2 DEF Last, Plain, NameParts
  <1>4. Len(parts) \in Nat
    BY SeqElement
  <1> QED BY <1>3, <1>4 DEF Matches

\* A filter with an open tail matches part by part up to it.
LEMMA OpenMatches ==
    ASSUME NEW parts \in Seq(Plain), Len(parts) # 0, NEW tail \in {">", "#"}, NEW subject,
           Matches(Front(parts) \o <<tail>>, subject)
    PROVE  \A i \in 1..(Len(parts) - 1) : parts[i] \in {"*", subject[i]}
  <1> PICK n \in Nat : n = Len(parts) /\ n # 0
    BY SeqElement
  <1> PICK front : front = Front(parts)
    OBVIOUS
  <1>1. front \in Seq(Plain) /\ Len(front) = n - 1 /\ \A i \in 1..(n - 1) : front[i] = parts[i]
    BY DEF Front
  <1> PICK pattern : pattern = front \o <<tail>>
    OBVIOUS
  <1>2. <<tail>> \in Seq({">", "#"} \cup Plain) /\ Len(<<tail>>) = 1 /\ <<tail>>[1] = tail
    OBVIOUS
  <1>3. /\ Len(pattern) = n /\ pattern[n] = tail
        /\ \A i \in 1..(n - 1) : pattern[i] = parts[i]
    BY <1>1, <1>2
  <1>4. Last(pattern) = tail
    BY <1>3 DEF Last
  <1>5. \A i \in 1..(n - 1) : pattern[i] \in {"*", subject[i]}
    BY <1>3, <1>4 DEF Matches
  <1> QED BY <1>3, <1>5

\* What a filter selects, and is read as a key, was asked for.
LEMMA SelectedIsAsked ==
    ASSUME NEW backend, NEW key, IsKey(key), Speaks(backend, key.kind),
           Parse(backend, key.kind, Subject(backend, key)) # Unparsed,
           NEW a, IsAsk(a), a.kind = key.kind,
           Matches(Pattern(backend, a), Subject(backend, key))
    PROVE  \A f \in DOMAIN a.names : key.names[f] = a.names[f]
  <1> PICK format, N, parts, subject :
          /\ format = NatsFormats[key.kind] /\ N = Parted(key.kind)
          /\ parts = Filled(format, a.names) /\ subject = Subject(backend, key)
    OBVIOUS
  <1>1. IsFormat(format, N) /\ AreNames(a.names)
    BY FormatsAre DEF Speaks, IsAsk
  <1>2. IsFilled(parts, Plain, format, a.names, N) /\ N \in Nat /\ N >= 5
    BY <1>1, FilledIs DEF IsFormat
  <1>3. parts \in Seq(Plain) /\ Len(parts) \in Nat /\ Len(parts) >= N /\ Len(parts) # 0
    <2>1. parts \in Seq(Plain) /\ N <= Len(parts)
      BY <1>2 DEF IsFilled
    <2>2. Len(parts) \in Nat
      BY <2>1, SeqElement
    <2> QED BY <1>2, <2>1, <2>2
  <1>4. Len(subject) = N
    BY SameKind
  <1>5. a.kind # "any"
    BY DEF IsAsk, NatsKinds, DataKinds
  <1>6. CASE a.kind \notin {"request", "svc_request"}
    <2>1. Pattern(backend, a) = parts
      BY <1>5, <1>6, FormatOf DEF Pattern
    <2>2. Len(parts) = N /\ \A i \in 1..N : parts[i] \in {"*", subject[i]}
      BY <1>3, <1>4, <2>1, PlainMatches
    <2>3. \A j \in 1..N : Len(Segment(format, a.names, j)) = 1
      BY <1>2, <2>2 DEF IsFilled
    <2>4. ASSUME NEW f \in DOMAIN a.names PROVE key.names[f] = a.names[f]
      <3>1. f \in FieldsOf(format)
        BY <2>4 DEF IsAsk
      <3>2. PlaceOf(format, f) \in 1..N
        BY <1>1, <3>1, FieldsOfIs
      <3>3. parts[PlaceOf(format, f)] \in {"*", subject[PlaceOf(format, f)]}
        BY <2>2, <3>2
      <3> QED BY <2>3, <2>4, <3>3, ComparedName
    <2> QED BY <2>4
  <1>7. CASE a.kind \in {"request", "svc_request"}
    <2>1. PICK tail \in {">", "#"} : Pattern(backend, a) = Front(parts) \o <<tail>>
      BY <1>5, <1>7, FormatOf DEF Pattern
    <2>2. \A i \in 1..(Len(parts) - 1) : parts[i] \in {"*", subject[i]}
      BY <1>3, <2>1, OpenMatches
    <2>3. ASSUME NEW j \in 1..N PROVE Len(Segment(format, a.names, j)) = 1
      BY <1>1, <1>7, SegmentIs DEF IsAsk
    <2>4. Len(parts) = N
      BY <1>2, <2>3 DEF IsFilled
    <2>5. ASSUME NEW f \in DOMAIN a.names PROVE key.names[f] = a.names[f]
      <3>1. f \in FieldsOf(format) /\ f # "sequence"
        BY <1>7, <2>5 DEF IsAsk
      <3>2. PlaceOf(format, f) \in 1..N /\ format[PlaceOf(format, f)] = f
        BY <1>1, <3>1, FieldsOfIs
      <3>3. N = 12 /\ format[12] = "sequence"
        BY <1>7, OperationFormats DEF Parted, NatsFormats, OfOperation
      <3>4. PlaceOf(format, f) \in 1..(Len(parts) - 1)
        BY <2>4, <3>1, <3>2, <3>3
      <3>5. parts[PlaceOf(format, f)] \in {"*", subject[PlaceOf(format, f)]}
        BY <2>2, <3>4
      <3> QED BY <2>3, <2>5, <3>5, ComparedName
    <2> QED BY <2>5
  <1> QED BY <1>6, <1>7

-----------------------------------------------------------------------------
(* Queues: what is sent *)

\* What can be sent under a plan.
Sendable(p) ==
    {key \in p.calls \cup {Reply(k) : k \in p.calls} \cup p.notices : Sends(p.backend, key.kind)}

\* The fields of a call.
LEMMA CallFields ==
    ASSUME NEW key, IsCall(key)
    PROVE  /\ key.kind \in {"request", "svc_request", "invoke"}
           /\ DOMAIN key.names = (IF key.kind = "invoke" THEN InvokeFields ELSE OperationFields)
           /\ AreNames(key.names) /\ IsKey(key)
  <1>1. IsKey(key) /\ key.kind \in {"request", "svc_request", "invoke"}
    BY DEF IsCall, Answered, ReplyKind
  <1>2. DOMAIN key.names = FieldsOf(NatsFormats[key.kind]) /\ AreNames(key.names)
    BY <1>1, KeyIs
  <1> QED BY <1>1, <1>2, FieldsAre DEF NatsFormats

\* A reply has the names of its call.
LEMMA ReplyIs ==
    ASSUME NEW key, IsCall(key)
    PROVE  /\ IsKey(Reply(key))
           /\ Reply(key).kind = (CASE key.kind = "request" -> "response"
                                   [] key.kind = "svc_request" -> "svc_response"
                                   [] OTHER -> "complete")
           /\ \A f \in DOMAIN Reply(key).names : Reply(key).names[f] = key.names[f]
           /\ DOMAIN Reply(key).names = (IF key.kind = "invoke" THEN CompleteFields ELSE OperationFields)
  <1>1. key.kind \in {"request", "svc_request", "invoke"} /\ IsKey(key)
    BY CallFields
  <1>2. key.names \in [FieldsOf(NatsFormats[key.kind]) -> Seq(STRING)]
        /\ \A f \in DOMAIN key.names : IsName(f, key.names[f])
    BY <1>1 DEF IsKey
  <1>3. CASE key.kind = "invoke"
    <2>1. /\ Reply(key) = [kind |-> "complete", names |-> [f \in CompleteFields |-> key.names[f]]]
      BY <1>3, FieldsAre DEF Reply, ReplyKind, Restrict
    <2>2. CompleteFields \subseteq DOMAIN key.names
      BY <1>3, CallFields DEF CompleteFields, InvokeFields
    <2>3. [f \in CompleteFields |-> key.names[f]] \in [CompleteFields -> Seq(STRING)]
      BY <1>2, <2>2
    <2>4. IsKey([kind |-> "complete", names |-> [f \in CompleteFields |-> key.names[f]]])
      BY <1>2, <2>2, <2>3, FieldsAre, KindsAre DEF IsKey, NatsFormats, NatsKinds, DataKinds
    <2> QED BY <1>3, <2>1, <2>4
  <1>4. CASE key.kind = "request"
    <2>1. Reply(key) = [kind |-> "response", names |-> key.names]
      BY <1>4 DEF Reply, ReplyKind
    <2>2. IsKey([kind |-> "response", names |-> key.names])
      BY <1>2, <1>4, FieldsAre, KindsAre DEF IsKey, NatsFormats, NatsKinds, DataKinds
    <2> QED BY <1>4, <2>1, <2>2, CallFields
  <1>5. CASE key.kind = "svc_request"
    <2>1. Reply(key) = [kind |-> "svc_response", names |-> key.names]
      BY <1>5 DEF Reply, ReplyKind
    <2>2. IsKey([kind |-> "svc_response", names |-> key.names])
      BY <1>2, <1>5, FieldsAre, KindsAre DEF IsKey, NatsFormats, NatsKinds, DataKinds
    <2> QED BY <1>5, <2>1, <2>2, CallFields
  <1> QED BY <1>1, <1>3, <1>4, <1>5

CorrelatedFields == {"submission", "agent", "service", "backend", "operation", "sequence"}

\* What a caller asks for are names of its call.
LEMMA AwaitsIs ==
    ASSUME NEW key, IsCall(key)
    PROVE  /\ Awaits(key).kind = Reply(key).kind
           /\ DOMAIN Awaits(key).names = (IF key.kind = "invoke" THEN {"submission", "harness", "agent"}
                                          ELSE CorrelatedFields)
           /\ \A f \in DOMAIN Awaits(key).names : Awaits(key).names[f] = key.names[f]
           /\ IsAsk(Awaits(key))
  <1>1. key.kind \in {"request", "svc_request", "invoke"} /\ AreNames(key.names)
    BY CallFields
  <1>2. CASE key.kind = "invoke"
    <2>1. Awaits(key) = [kind |-> "complete",
                         names |-> [submission |-> key.names.submission, harness |-> key.names.harness,
                                    agent |-> key.names.agent]]
      BY <1>2 DEF Awaits, CompleteOf
    <2>2. /\ Awaits(key).kind = "complete" /\ DOMAIN Awaits(key).names = {"submission", "harness", "agent"}
          /\ \A f \in DOMAIN Awaits(key).names : Awaits(key).names[f] = key.names[f]
      BY <2>1
    <2>3. {"submission", "harness", "agent"} \subseteq DOMAIN key.names
      BY <1>2, CallFields DEF InvokeFields
    <2>4. AreNames(Awaits(key).names)
      BY <1>1, <2>2, <2>3 DEF AreNames
    <2>5. IsAsk(Awaits(key))
      BY <2>2, <2>4, FieldsAre DEF IsAsk, NatsKinds, DataKinds, NatsFormats, CompleteFields
    <2> QED BY <1>2, <2>2, <2>5, ReplyIs
  <1>3. CASE key.kind \in {"request", "svc_request"}
    <2>1. Awaits(key) = [kind |-> Reply(key).kind, names |-> [f \in CorrelatedFields |-> key.names[f]]]
      BY <1>3, ReplyIs DEF Awaits, ResponseTo, SvcResponseTo, Correlated, CorrelatedFields, Restrict
    <2>2. /\ Awaits(key).kind = Reply(key).kind /\ DOMAIN Awaits(key).names = CorrelatedFields
          /\ \A f \in DOMAIN Awaits(key).names : Awaits(key).names[f] = key.names[f]
      BY <2>1
    <2>3. CorrelatedFields \subseteq DOMAIN key.names
      BY <1>3, CallFields DEF CorrelatedFields, OperationFields
    <2>4. AreNames(Awaits(key).names)
      BY <1>1, <2>2, <2>3 DEF AreNames
    <2>5. Reply(key).kind \in {"response", "svc_response"}
      BY <1>3, ReplyIs
    <2>6. IsAsk(Awaits(key))
      BY <2>2, <2>4, <2>5, FieldsAre DEF IsAsk, NatsKinds, DataKinds, NatsFormats, OperationFields,
                                         CorrelatedFields
    <2> QED BY <1>3, <2>2, <2>6
  <1> QED BY <1>1, <1>2, <1>3

\* What is sent is a call, the reply of a call, or a notice.
LEMMA SendableIs ==
    ASSUME NEW p \in Plans, NEW key \in Sendable(p)
    PROVE  /\ IsKey(key) /\ Sends(p.backend, key.kind)
           /\ p.backend \in {"nats", "amqp", "memory"}
           /\ p.backend # "memory" => Speaks(p.backend, key.kind)
           /\ \/ key \in p.calls /\ IsCall(key)
              \/ \E k \in p.calls : IsCall(k) /\ key = Reply(k)
              \/ key.kind \in OtherKinds
  <1>1. /\ key \in p.calls \cup {Reply(k) : k \in p.calls} \cup p.notices /\ Sends(p.backend, key.kind)
    BY DEF Sendable
  <1>2. \/ key \in p.calls /\ IsCall(key)
        \/ \E k \in p.calls : IsCall(k) /\ key = Reply(k)
        \/ IsKey(key) /\ key.kind \in OtherKinds
    BY <1>1, QueuesConstants DEF IsNotice, OtherKinds
  <1>3. IsKey(key)
    BY <1>2, CallFields, ReplyIs
  <1>4. key.kind \in NatsKinds
    BY <1>3, KeyIs
  <1>5. p.backend = "amqp" => key.kind \in AmqpKinds
    BY <1>1, AmqpFormatsAre DEF Sends
  <1>6. p.backend \in {"nats", "amqp", "memory"}
    BY QueuesConstants
  <1> QED BY <1>1, <1>2, <1>3, <1>4, <1>5, <1>6 DEF Speaks

-----------------------------------------------------------------------------
(* Queues: who asks, and what it is handed *)

\* What a worker asks for.
LEMMA TaskIs ==
    ASSUME NEW service \in TaskParts, NEW backend \in TaskParts, NEW operation \in TaskParts,
           NEW a, a = Requests(<<service>>, <<backend>>, <<operation>>)
    PROVE  IsAsk(a) /\ a.kind = "request" /\ DOMAIN a.names = {"service", "backend", "operation"}
  <1>1. /\ a.kind = "request" /\ DOMAIN a.names = {"service", "backend", "operation"}
        /\ a.names["service"] = <<service>> /\ a.names["backend"] = <<backend>>
        /\ a.names["operation"] = <<operation>>
    BY DEF Requests
  <1>2. ASSUME NEW part \in TaskParts, NEW f \in {"service", "backend", "operation"}
        PROVE  IsPlain(f, <<part>>) /\ Len(<<part>>) = 1
    <2>1. part \in NameParts
      BY DEF NameParts, TaskParts
    <2>2. <<part>> \in Seq(NameParts) /\ <<part>> # <<>> /\ Len(<<part>>) = 1
      BY <2>1
    <2> QED BY <2>2 DEF IsPlain
  <1>3. AreNames(a.names) /\ \A f \in DOMAIN a.names : Len(a.names[f]) = 1 /\ f # "sequence"
    BY <1>1, <1>2 DEF AreNames
  <1>4. FieldsOf(NatsFormats["request"]) = OperationFields /\ "request" \in NatsKinds
    BY FieldsAre DEF NatsFormats, NatsKinds, DataKinds
  <1>5. {"service", "backend", "operation"} \subseteq OperationFields
    BY DEF OperationFields
  <1>6. IsAsk(a)
    BY <1>1, <1>3, <1>4, <1>5 DEF IsAsk
  <1> QED BY <1>1, <1>6

\* What the servers ask for.
LEMMA ServerIs ==
    ASSUME NEW a, IsServer(a)
    PROVE  /\ a.kind = "any" \/ IsAsk(a)
           /\ a.kind \in {"request", "invoke", "svc_request", "deploy", "delete", "any", "fork", "promote"}
           /\ a.kind = "request" => DOMAIN a.names = {"service", "backend", "operation"}
           /\ a.kind = "invoke" => DOMAIN a.names = {"agent"}
           /\ a.kind = "svc_request" => DOMAIN a.names = {"service"} /\ a.names.service = <<"mcp">>
  <1>1. CASE a \in KvTasks \cup VecTasks \cup OllamaTasks \cup OpenRouterTasks
    <2>1. PICK s \in TaskParts, b \in TaskParts, o \in TaskParts :
              a = Requests(<<s>>, <<b>>, <<o>>)
      BY <1>1 DEF KvTasks, VecTasks, OllamaTasks, OpenRouterTasks, TasksOf, TaskParts
    <2>2. IsAsk(a) /\ a.kind = "request" /\ DOMAIN a.names = {"service", "backend", "operation"}
      BY <2>1, TaskIs
    <2> QED BY <2>2
  <1>2. CASE a.kind = "invoke" /\ a = Invokes(a.names.agent) /\ IsName("agent", a.names.agent)
    <2> PICK name : name = a.names.agent /\ IsPlain("agent", name)
      BY <1>2, NameIsPlain
    <2>1. a = [kind |-> "invoke", names |-> [agent |-> name]]
      BY <1>2 DEF Invokes
    <2>2. DOMAIN a.names = {"agent"} /\ AreNames(a.names)
      BY <2>1 DEF AreNames
    <2> QED BY <1>2, <2>2, FieldsAre DEF IsAsk, NatsKinds, DataKinds, NatsFormats, InvokeFields
  <1>3. CASE a = McpRequests
    <2>1. a.kind = "svc_request" /\ DOMAIN a.names = {"service"} /\ a.names["service"] = <<"mcp">>
      BY <1>3 DEF McpRequests
    <2>2. "mcp" \in NameParts
      BY DEF NameParts, TaskParts
    <2>3. <<"mcp">> \in Seq(NameParts) /\ <<"mcp">> # <<>> /\ Len(<<"mcp">>) = 1
      BY <2>2
    <2>4. AreNames(a.names) /\ Len(a.names["service"]) = 1
      BY <2>1, <2>3 DEF AreNames, IsPlain
    <2> QED BY <2>1, <2>4, FieldsAre DEF IsAsk, NatsKinds, DataKinds, NatsFormats, OperationFields
  <1>4. CASE a \in {Deploys, Deletes, Everything, Forks, Promotes}
    <2>1. DOMAIN a.names = {} /\ a.kind \in {"deploy", "delete", "any", "fork", "promote"}
      BY <1>4 DEF Deploys, Deletes, Everything, Forks, Promotes, Nothing
    <2> QED BY <2>1 DEF IsAsk, AreNames, NatsKinds
  <1> QED BY <1>1, <1>2, <1>3, <1>4 DEF IsServer

\* Every ask is that of a caller for its reply, or that of a server.
LEMMA AskIs ==
    ASSUME NEW p \in Plans, NEW a \in AsksOf(p)
    PROVE  /\ a.kind = "any" \/ IsAsk(a)
           /\ \/ \E k \in p.calls : IsCall(k) /\ a = Awaits(k)
              \/ IsServer(a) /\ Offers(p.backend, a.kind)
  <1>1. \/ \E k \in p.calls : IsCall(k) /\ a = Awaits(k)
        \/ IsServer(a) /\ Offers(p.backend, a.kind)
    BY QueuesConstants DEF AsksOf
  <1> QED BY <1>1, AwaitsIs, ServerIs

\* A broker hands out what was sent, under its key, or nothing.
LEMMA BrokerHands ==
    ASSUME NEW p \in Plans, p.backend # "memory", NEW key \in Sendable(p), NEW a \in AsksOf(p),
           a.kind # "any", Sends(p.backend, a.kind), Selects(p.backend, a, key),
           Parse(p.backend, a.kind, Subject(p.backend, key)) # Unparsed
    PROVE  /\ Parse(p.backend, a.kind, Subject(p.backend, key)) = key
           /\ a.kind = key.kind /\ \A f \in DOMAIN a.names : key.names[f] = a.names[f]
  <1> PICK b : b = p.backend
    OBVIOUS
  <1>1. IsKey(key) /\ Speaks(b, key.kind) /\ b \in {"nats", "amqp"}
    BY SendableIs DEF Speaks
  <1>2. IsAsk(a)
    BY AskIs
  <1>3. Speaks(b, a.kind)
    BY <1>1, <1>2, AmqpFormatsAre DEF IsAsk, Speaks, Sends
  <1>4. a.kind = key.kind
    BY <1>1, <1>3, OtherKind
  <1>5. Matches(Pattern(b, a), Subject(b, key))
    BY DEF Selects
  <1> QED BY <1>1, <1>2, <1>4, <1>5, SameKind, SelectedIsAsked

\* In memory only some fields are compared; the others cannot differ.
LEMMA MemoryHands ==
    ASSUME NEW p \in Plans, p.backend = "memory", NEW key \in Sendable(p), NEW a \in AsksOf(p),
           Selects(p.backend, a, key)
    PROVE  a.kind = key.kind /\ \A f \in DOMAIN a.names : key.names[f] = a.names[f]
  <1>1. /\ a.kind = key.kind
        /\ \A f \in DOMAIN a.names \cap MemoryLooksAt[a.kind] : key.names[f] = a.names[f]
    BY DEF Selects
  <1>2. ASSUME NEW c \in p.calls, IsCall(c), a = Awaits(c)
        PROVE  \A f \in DOMAIN a.names : key.names[f] = a.names[f]
    <2>1. a.kind \in {"response", "svc_response", "complete"} /\ a.kind = Reply(c).kind
      BY <1>2, AwaitsIs, ReplyIs
    <2>2. PICK d \in p.calls : IsCall(d) /\ key = Reply(d)
      BY <1>1, <2>1, SendableIs, CallFields DEF OtherKinds
    <2>3. d.kind = c.kind
      BY <1>1, <1>2, <2>1, <2>2, ReplyIs, CallFields
    <2>4. OneRun(d, c)
      BY QueuesConstants
    <2>5. /\ \A f \in DOMAIN a.names : a.names[f] = c.names[f]
          /\ \A f \in DOMAIN key.names : key.names[f] = d.names[f]
      BY <1>2, <2>2, AwaitsIs, ReplyIs
    <2>6. /\ DOMAIN a.names = (IF c.kind = "invoke" THEN {"submission", "harness", "agent"} ELSE CorrelatedFields)
          /\ DOMAIN key.names = (IF c.kind = "invoke" THEN CompleteFields ELSE OperationFields)
      BY <1>2, <2>2, <2>3, AwaitsIs, ReplyIs
    <2>7. c.kind \in {"request", "svc_request", "invoke"}
      BY <1>2, CallFields
    <2>8. CASE c.kind = "svc_request"
      <3>1. MemoryLooksAt[a.kind] = Fields
        BY <2>1, <2>8, <1>2, ReplyIs DEF MemoryLooksAt
      <3>2. DOMAIN a.names \subseteq Fields
        BY <2>6, <2>8 DEF CorrelatedFields, Fields
      <3> QED BY <1>1, <3>1, <3>2
    <2>9. CASE c.kind = "request"
      <3>1. MemoryLooksAt[a.kind] = {"submission", "service", "backend", "operation", "sequence"}
        BY <2>1, <2>9, <1>2, ReplyIs DEF MemoryLooksAt
      <3>2. \A f \in CorrelatedFields \ {"agent"} : key.names[f] = a.names[f]
        BY <1>1, <2>6, <2>9, <3>1 DEF CorrelatedFields
      <3>3. d.names.submission = c.names.submission
        BY <2>5, <2>6, <2>9, <3>2 DEF CorrelatedFields, OperationFields
      <3>4. d.names.agent = c.names.agent
        BY <2>4, <3>3 DEF OneRun
      <3>5. key.names["agent"] = a.names["agent"]
        BY <2>5, <2>6, <2>9, <3>4 DEF CorrelatedFields, OperationFields
      <3> QED BY <2>6, <2>9, <3>2, <3>5
    <2>10. CASE c.kind = "invoke"
      <3>1. MemoryLooksAt[a.kind] = {"submission"}
        BY <2>1, <2>10, <1>2, ReplyIs DEF MemoryLooksAt
      <3>2. key.names["submission"] = a.names["submission"]
        BY <1>1, <2>6, <2>10, <3>1
      <3>3. d.names.submission = c.names.submission
        BY <2>5, <2>6, <2>10, <3>2 DEF CompleteFields
      <3>4. d.names.agent = c.names.agent /\ d.names.harness = c.names.harness
        BY <2>3, <2>4, <2>10, <3>3 DEF OneRun
      <3>5. key.names["agent"] = a.names["agent"] /\ key.names["harness"] = a.names["harness"]
        BY <2>5, <2>6, <2>10, <3>4 DEF CompleteFields
      <3> QED BY <2>6, <2>10, <3>2, <3>5
    <2> QED BY <2>7, <2>8, <2>9, <2>10
  <1>3. ASSUME IsServer(a), Offers(p.backend, a.kind)
        PROVE  \A f \in DOMAIN a.names : key.names[f] = a.names[f]
    <2>1. a.kind \in {"request", "invoke", "svc_request"}
      BY <1>3, ServerIs DEF Offers, MemoryLooksAt
    <2>2. CASE a.kind = "request"
      BY <1>1, <1>3, <2>2, ServerIs DEF MemoryLooksAt
    <2>3. CASE a.kind = "invoke"
      BY <1>1, <1>3, <2>3, ServerIs DEF MemoryLooksAt
    <2>4. CASE a.kind = "svc_request"
      <3>1. key \in p.calls
        <4>1. \A k : IsCall(k) => Reply(k).kind # "svc_request"
          BY ReplyIs
        <4> QED BY <1>1, <2>4, <4>1, SendableIs DEF OtherKinds
      <3>2. key.names.service = <<"mcp">>
        BY <1>1, <2>4, <3>1, QueuesConstants DEF IsCall
      <3> QED BY <1>3, <2>4, <3>2, ServerIs
    <2> QED BY <2>1, <2>2, <2>3, <2>4
  <1> QED BY <1>1, <1>2, <1>3, AskIs

-----------------------------------------------------------------------------
(* Queues: the invariant *)

Holding == {"busy", "replied", "acked"}
AtRest == {"off", "ready", "done"}
Wanted(p, a, key) == Sends(p.backend, a.kind) /\ Selects(p.backend, a, key)

\* What was sent, and what is left of it.
SentOK ==
    /\ plan \in Plans /\ faults \in 0..MaxFaults
    /\ sent \in Seq(Sendable(plan)) /\ first \in 1..(Len(sent) + 1) /\ kept \subseteq DOMAIN sent
    /\ DOMAIN procs = AsksOf(plan) /\ DOMAIN queues = AsksOf(plan) /\ DOMAIN settled = AsksOf(plan)

\* A consumer owes what it was sent for and what was not acknowledged.
QueueOK(a) ==
    /\ queues[a] \in [open : BOOLEAN, todo : SUBSET Nat, owed : SUBSET Nat]
    /\ queues[a].todo \cup queues[a].owed \subseteq first..Len(sent)
    /\ settled[a] \subseteq DOMAIN sent
    /\ queues[a].todo \cap (queues[a].owed \cup settled[a]) = {} /\ queues[a].owed \cap settled[a] = {}
    /\ \A i \in queues[a].todo \cup queues[a].owed : Wanted(plan, a, sent[i])
    /\ ~queues[a].open => /\ queues[a].todo = {} /\ queues[a].owed = {}
                          /\ plan.backend = "nats" => settled[a] = {}
    /\ plan.backend = "memory" => ~queues[a].open /\ kept \cap settled[a] = {}

\* A process that holds a message was told its key.
ProcOK(a) ==
    /\ procs[a] \in [at : Holding \cup AtRest, message : Nat, key : Sendable(plan) \cup {Unparsed}]
    /\ procs[a].at \in AtRest => procs[a].message = 0 /\ procs[a].key = Unparsed
    /\ procs[a].at \in Holding =>
           /\ procs[a].message \in DOMAIN sent /\ procs[a].key = sent[procs[a].message]
           /\ plan.backend = "memory" => procs[a].message \notin kept

QueuesInv == SentOK /\ \A a \in AsksOf(plan) : QueueOK(a) /\ ProcOK(a)

\* A step that only adds to what was sent.
SentGrows ==
    /\ plan' = plan
    /\ sent' = sent \/ \E key \in Sendable(plan) : sent' = Append(sent, key)
    /\ kept' \cap DOMAIN sent \subseteq kept

\* What was sent stays where it is.
LEMMA Growing ==
    ASSUME QueuesInv, SentGrows
    PROVE  /\ sent' \in Seq(Sendable(plan)) /\ Len(sent) \in Nat /\ Len(sent') \in Nat
           /\ Len(sent) <= Len(sent') /\ DOMAIN sent = 1..Len(sent) /\ DOMAIN sent' = 1..Len(sent')
           /\ DOMAIN sent \subseteq DOMAIN sent' /\ \A i \in DOMAIN sent : sent'[i] = sent[i]
  <1> PICK S : S = Sendable(plan)
    OBVIOUS
  <1>1. sent \in Seq(S)
    BY DEF QueuesInv, SentOK
  <1>2. Len(sent) \in Nat /\ DOMAIN sent = 1..Len(sent)
    BY <1>1, SeqElement
  <1>3. CASE sent' = sent
    BY <1>1, <1>2, <1>3
  <1>4. CASE \E key \in S : sent' = Append(sent, key)
    <2>1. PICK key \in S : sent' = Append(sent, key)
      BY <1>4
    <2>2. /\ sent' \in Seq(S) /\ Len(sent') = Len(sent) + 1
          /\ \A i \in 1..Len(sent) : sent'[i] = sent[i]
      BY <1>1, <2>1, AppendProperties
    <2>3. DOMAIN sent' = 1..Len(sent')
      BY <2>2, SeqElement
    <2> QED BY <1>2, <2>2, <2>3
  <1> QED BY <1>3, <1>4 DEF SentGrows

\* A consumer that a step leaves alone.
LEMMA QueueStays ==
    ASSUME QueuesInv, SentGrows, first' = first, NEW b \in AsksOf(plan),
           queues'[b] = queues[b], settled'[b] = settled[b]
    PROVE  QueueOK(b)'
  <1>1. QueueOK(b)
    BY DEF QueuesInv
  <1>2. /\ Len(sent) \in Nat /\ Len(sent') \in Nat /\ Len(sent) <= Len(sent') /\ DOMAIN sent = 1..Len(sent)
        /\ DOMAIN sent \subseteq DOMAIN sent' /\ \A i \in DOMAIN sent : sent'[i] = sent[i]
    BY Growing
  <1>3. first \in Nat /\ first >= 1
    BY <1>2 DEF QueuesInv, SentOK
  <1>4. first..Len(sent) \subseteq first..Len(sent') /\ first..Len(sent) \subseteq DOMAIN sent
    BY <1>2, <1>3
  <1>5. queues[b].todo \cup queues[b].owed \subseteq first..Len(sent')
    BY <1>1, <1>4 DEF QueueOK
  <1>6. settled[b] \subseteq DOMAIN sent'
    BY <1>1, <1>2 DEF QueueOK
  <1>7. \A i \in queues[b].todo \cup queues[b].owed : Wanted(plan, b, sent'[i])
    BY <1>1, <1>2, <1>4 DEF QueueOK
  <1>8. plan.backend = "memory" => kept' \cap settled[b] = {}
    BY <1>1 DEF QueueOK, SentGrows
  <1> QED BY <1>1, <1>5, <1>6, <1>7, <1>8 DEF QueueOK, SentGrows

\* A process that a step leaves alone.
LEMMA ProcStays ==
    ASSUME QueuesInv, SentGrows, NEW b \in AsksOf(plan), procs'[b] = procs[b]
    PROVE  ProcOK(b)'
  <1>1. ProcOK(b)
    BY DEF QueuesInv
  <1>2. DOMAIN sent \subseteq DOMAIN sent' /\ \A i \in DOMAIN sent : sent'[i] = sent[i]
    BY Growing
  <1> QED BY <1>1, <1>2 DEF ProcOK, SentGrows

\* A process at rest that goes elsewhere at rest.
LEMMA ProcRests ==
    ASSUME QueuesInv, plan' = plan, NEW b \in AsksOf(plan), NEW at \in AtRest,
           \/ procs'[b] = [Idle EXCEPT !.at = at]
           \/ procs[b].at \in AtRest /\ procs'[b] = [procs[b] EXCEPT !.at = at]
    PROVE  ProcOK(b)'
  <1>1. ProcOK(b)
    BY DEF QueuesInv
  <1>2. at \notin Holding
    BY DEF AtRest, Holding
  <1>3. procs'[b] = [at |-> at, message |-> 0, key |-> Unparsed]
    <2>1. CASE procs'[b] = [Idle EXCEPT !.at = at]
      BY <2>1 DEF Idle
    <2>2. CASE procs[b].at \in AtRest /\ procs'[b] = [procs[b] EXCEPT !.at = at]
      BY <1>1, <2>2 DEF ProcOK
    <2> QED BY <2>1, <2>2
  <1> QED BY <1>2, <1>3 DEF ProcOK

\* A process that keeps its message.
LEMMA ProcHolds ==
    ASSUME QueuesInv, SentGrows, NEW b \in AsksOf(plan), NEW at \in Holding,
           procs[b].at \in Holding, procs'[b] = [procs[b] EXCEPT !.at = at]
    PROVE  ProcOK(b)'
  <1>1. ProcOK(b)
    BY DEF QueuesInv
  <1>2. DOMAIN sent \subseteq DOMAIN sent' /\ \A i \in DOMAIN sent : sent'[i] = sent[i]
    BY Growing
  <1>3. at \notin AtRest
    BY DEF AtRest, Holding
  <1>4. /\ procs'[b] \in [at : Holding \cup AtRest, message : Nat, key : Sendable(plan) \cup {Unparsed}]
        /\ procs'[b].at = at /\ procs'[b].message = procs[b].message /\ procs'[b].key = procs[b].key
    BY <1>1 DEF ProcOK
  <1> QED BY <1>1, <1>2, <1>3, <1>4 DEF ProcOK, SentGrows

\* What is put goes to the consumers that exist and want it, and nothing else changes there.
LEMMA PutGrows ==
    ASSUME QueuesInv, plan' = plan, NEW key \in Sendable(plan), Put(key)
    PROVE  /\ SentGrows /\ sent' = Append(sent, key) /\ Len(sent') = Len(sent) + 1 /\ sent'[Len(sent) + 1] = key
           /\ kept' \subseteq DOMAIN sent' /\ DOMAIN queues' = AsksOf(plan)
  <1>1. sent' = Append(sent, key) /\ (NatsPut(key) \/ AmqpPut(key) \/ MemoryPut(key))
    BY DEF Put
  <1> PICK S : S = Sendable(plan)
    OBVIOUS
  <1>2. sent \in Seq(S) /\ kept \subseteq DOMAIN sent /\ DOMAIN procs = AsksOf(plan)
        /\ DOMAIN queues = AsksOf(plan)
    BY DEF QueuesInv, SentOK
  <1>3. Len(sent) \in Nat /\ DOMAIN sent = 1..Len(sent)
    BY <1>2, SeqElement
  <1>4. /\ sent' \in Seq(S) /\ Len(sent') = Len(sent) + 1 /\ sent'[Len(sent) + 1] = key
    BY <1>1, <1>2, AppendProperties
  <1>5. DOMAIN sent' = 1..(Len(sent) + 1)
    BY <1>4, SeqElement
  <1>6. kept' \subseteq kept \cup {Len(sent) + 1}
    BY <1>1 DEF NatsPut, AmqpPut, MemoryPut
  <1>7. Len(sent) + 1 \notin DOMAIN sent /\ Len(sent) + 1 \in DOMAIN sent' /\ DOMAIN sent \subseteq DOMAIN sent'
    BY <1>3, <1>5
  <1>8. DOMAIN queues' = AsksOf(plan)
    BY <1>1, <1>2 DEF NatsPut, AmqpPut, MemoryPut, Enqueue, Asks
  <1> QED BY <1>1, <1>2, <1>4, <1>6, <1>7, <1>8 DEF SentGrows

\* What is put keeps the consumers right.
LEMMA PutQueues ==
    ASSUME QueuesInv, plan' = plan, first' = first, settled' = settled,
           NEW key \in Sendable(plan), Put(key), NEW b \in AsksOf(plan)
    PROVE  QueueOK(b)'
  <1>1. SentGrows /\ Len(sent') = Len(sent) + 1 /\ sent'[Len(sent) + 1] = key
    BY PutGrows
  <1>2. CASE queues'[b] = queues[b]
    BY <1>1, <1>2, QueueStays
  <1>3. CASE queues'[b] # queues[b]
    <2>1. NatsPut(key) \/ AmqpPut(key)
      BY <1>3 DEF Put, MemoryPut
    <2>2. /\ queues[b].open /\ Wants(b, key) /\ plan.backend # "memory"
          /\ queues'[b] = [queues[b] EXCEPT !.todo = @ \cup {Len(sent) + 1}]
      <3>1. DOMAIN procs = AsksOf(plan)
        BY DEF QueuesInv, SentOK
      <3> QED BY <1>3, <2>1, <3>1 DEF NatsPut, AmqpPut, Enqueue, Asks
    <2> PICK n, q : n = Len(sent) + 1 /\ q = queues'[b]
      OBVIOUS
    <2>3. QueueOK(b)
      BY DEF QueuesInv
    <2>4. /\ Len(sent) \in Nat /\ DOMAIN sent = 1..Len(sent) /\ DOMAIN sent' = 1..Len(sent')
          /\ DOMAIN sent \subseteq DOMAIN sent' /\ \A i \in DOMAIN sent : sent'[i] = sent[i]
      BY <1>1, Growing
    <2>5. first \in Nat /\ first >= 1 /\ first <= n
      BY <2>4 DEF QueuesInv, SentOK
    <2>6. /\ q \in [open : BOOLEAN, todo : SUBSET Nat, owed : SUBSET Nat]
          /\ q.todo = queues[b].todo \cup {n} /\ q.owed = queues[b].owed /\ q.open = queues[b].open
      <3> PICK r \in [open : BOOLEAN, todo : SUBSET Nat, owed : SUBSET Nat] : r = queues[b]
        BY <2>3 DEF QueueOK
      <3>1. n \in Nat
        BY <2>4
      <3>2. q = [r EXCEPT !.todo = r.todo \cup {n}]
        BY <2>2
      <3> QED BY <3>1, <3>2
    <2>7. n \in first..Len(sent') /\ first..Len(sent) \subseteq first..Len(sent')
          /\ first..Len(sent) \subseteq DOMAIN sent /\ n \notin DOMAIN sent
      BY <1>1, <2>4, <2>5
    <2>8. q.todo \cup q.owed \subseteq first..Len(sent')
      BY <2>3, <2>6, <2>7 DEF QueueOK
    <2>9. q.todo \cap (q.owed \cup settled[b]) = {} /\ q.owed \cap settled[b] = {}
      BY <2>3, <2>6, <2>7 DEF QueueOK
    <2>10. \A i \in q.todo \cup q.owed : Wanted(plan, b, sent'[i])
      <3>1. Wanted(plan, b, sent'[n])
        BY <1>1, <2>2 DEF Wants, Wanted
      <3>2. \A i \in queues[b].todo \cup queues[b].owed : Wanted(plan, b, sent'[i])
        BY <2>3, <2>4, <2>7 DEF QueueOK
      <3> QED BY <2>6, <3>1, <3>2
    <2>11. settled[b] \subseteq DOMAIN sent'
      BY <2>3, <2>4 DEF QueueOK
    <2> QED BY <2>2, <2>6, <2>8, <2>9, <2>10, <2>11 DEF QueueOK
  <1> QED BY <1>2, <1>3

\* The step of one process, which changes nothing for the others.
LEMMA PutKeeps ==
    ASSUME QueuesInv, plan' = plan, first' = first, settled' = settled, faults' \in 0..MaxFaults,
           NEW key \in Sendable(plan), Put(key),
           NEW a \in AsksOf(plan), ProcOK(a)', DOMAIN procs' = AsksOf(plan),
           \A b \in AsksOf(plan) \ {a} : procs'[b] = procs[b]
    PROVE  QueuesInv'
  <1>1. /\ SentGrows /\ Len(sent') = Len(sent) + 1 /\ kept' \subseteq DOMAIN sent'
        /\ DOMAIN queues' = AsksOf(plan)
    BY PutGrows
  <1>2. \A b \in AsksOf(plan) : QueueOK(b)'
    BY PutQueues
  <1>3. \A b \in AsksOf(plan) : ProcOK(b)'
    BY <1>1, ProcStays
  <1>4. sent' \in Seq(Sendable(plan)) /\ Len(sent) \in Nat
    BY <1>1, Growing
  <1>5. first' \in 1..(Len(sent') + 1)
    BY <1>1, <1>4 DEF QueuesInv, SentOK
  <1>6. plan \in Plans /\ DOMAIN settled = AsksOf(plan)
    BY DEF QueuesInv, SentOK
  <1> QED BY <1>1, <1>2, <1>3, <1>4, <1>5, <1>6 DEF QueuesInv, SentOK

\* A step of one process that leaves the queues alone.
LEMMA ProcKeeps ==
    ASSUME QueuesInv, UNCHANGED <<plan, sent, first, queues, settled>>, faults' \in 0..MaxFaults,
           kept' \subseteq kept,
           NEW a \in AsksOf(plan), ProcOK(a)', DOMAIN procs' = AsksOf(plan),
           \A b \in AsksOf(plan) \ {a} : procs'[b] = procs[b]
    PROVE  QueuesInv'
  <1>1. SentGrows
    BY DEF SentGrows
  <1>2. \A b \in AsksOf(plan) : QueueOK(b)'
    BY <1>1, QueueStays
  <1>3. \A b \in AsksOf(plan) : ProcOK(b)'
    BY <1>1, ProcStays
  <1> QED BY <1>2, <1>3 DEF QueuesInv, SentOK

\* A step of one process and its consumer.
LEMMA QueueKeeps ==
    ASSUME QueuesInv, UNCHANGED <<plan, sent, first, kept>>, faults' \in 0..MaxFaults,
           NEW a \in AsksOf(plan), ProcOK(a)', DOMAIN procs' = AsksOf(plan), QueueOK(a)',
           DOMAIN queues' = AsksOf(plan), DOMAIN settled' = AsksOf(plan),
           \A b \in AsksOf(plan) \ {a} : /\ procs'[b] = procs[b] /\ queues'[b] = queues[b]
                                         /\ settled'[b] = settled[b]
    PROVE  QueuesInv'
  <1>1. SentGrows
    BY DEF SentGrows
  <1>2. \A b \in AsksOf(plan) : QueueOK(b)'
    BY <1>1, QueueStays
  <1>3. \A b \in AsksOf(plan) : ProcOK(b)'
    BY <1>1, ProcStays
  <1> QED BY <1>2, <1>3 DEF QueuesInv, SentOK

\* The invariant holds at first.
LEMMA InitOK == QueuesInit => QueuesInv
  <1> SUFFICES ASSUME QueuesInit PROVE QueuesInv
    OBVIOUS
  <1>1. <<>> \in Seq(Sendable(plan)) /\ Len(<<>>) = 0
    OBVIOUS
  <1>2. SentOK
    BY <1>1, QueuesConstants DEF QueuesInit, SentOK
  <1>3. ASSUME NEW a \in AsksOf(plan) PROVE QueueOK(a) /\ ProcOK(a)
    <2>1. queues[a] = Closed /\ procs[a] = Idle /\ settled[a] = {} /\ kept = {}
      BY <1>3 DEF QueuesInit
    <2>2. QueueOK(a)
      BY <2>1 DEF QueueOK, Closed
    <2>3. ProcOK(a)
      BY <2>1 DEF ProcOK, Idle, Holding, AtRest
    <2> QED BY <2>2, <2>3
  <1> QED BY <1>2, <1>3 DEF QueuesInv

\* Faults are counted up to their bound.
LEMMA FaultIs == ASSUME QueuesInv, Fault PROVE faults' \in 0..MaxFaults
  <1>1. faults \in 0..MaxFaults /\ MaxFaults \in Nat
    BY QueuesConstants DEF QueuesInv, SentOK
  <1> QED BY <1>1 DEF Fault

\* Who asks.
LEMMA AsksAre == ASSUME QueuesInv PROVE Asks = AsksOf(plan) /\ plan \in Plans /\ faults \in 0..MaxFaults
  BY DEF QueuesInv, SentOK, Asks

\* A call may be sent under its plan.
LEMMA CallSendable ==
    ASSUME QueuesInv, NEW a \in Callers, Sends(plan.backend, CallOf(a).kind)
    PROVE  CallOf(a) \in Sendable(plan)
  <1>1. \E key \in plan.calls : Awaits(key) = a
    BY DEF Callers
  <1>2. CallOf(a) \in plan.calls
    BY <1>1 DEF CallOf
  <1> QED BY <1>2 DEF Sendable

\* So may its reply.
LEMMA ReplySendable ==
    ASSUME NEW p \in Plans, NEW key \in Sendable(p), Answered(key)
    PROVE  Reply(key) \in Sendable(p)
  <1>1. key.kind \in {"request", "svc_request", "invoke"}
    BY DEF Answered, ReplyKind
  <1>2. \A k : IsCall(k) => Reply(k).kind \in {"response", "svc_response", "complete"}
    BY ReplyIs, CallFields
  <1>3. key \in p.calls /\ IsCall(key) /\ Sends(p.backend, key.kind)
    BY <1>1, <1>2, SendableIs DEF OtherKinds
  <1>4. Sends(p.backend, Reply(key).kind)
    BY <1>1, <1>3, ReplyIs, AmqpFormatsAre DEF Sends, AmqpKinds
  <1> QED BY <1>3, <1>4 DEF Sendable

\* What is told, if anything, is the key that was sent.
LEMMA ToldIs ==
    ASSUME QueuesInv, NEW a \in AsksOf(plan), NEW i \in DOMAIN sent, Wanted(plan, a, sent[i]),
           Told(a, i) # Unparsed
    PROVE  /\ Told(a, i) = sent[i]
           /\ \/ a.kind = "any"
              \/ a.kind = sent[i].kind /\ \A f \in DOMAIN a.names : sent[i].names[f] = a.names[f]
  <1>1. sent[i] \in Sendable(plan) /\ plan \in Plans
    BY SeqElement DEF QueuesInv, SentOK
  <1>2. Sends(plan.backend, a.kind) /\ Selects(plan.backend, a, sent[i])
    BY DEF Wanted
  <1>3. CASE a.kind = "any"
    BY <1>3 DEF Told
  <1>4. CASE a.kind # "any" /\ plan.backend = "memory"
    <2>1. Told(a, i) = sent[i]
      BY <1>4 DEF Told
    <2> QED BY <1>1, <1>2, <1>4, <2>1, MemoryHands
  <1>5. CASE a.kind # "any" /\ plan.backend # "memory"
    <2>1. Told(a, i) = Parse(plan.backend, a.kind, Subject(plan.backend, sent[i]))
      BY <1>5 DEF Told
    <2> QED BY <1>1, <1>2, <1>5, <2>1, BrokerHands
  <1> QED BY <1>3, <1>4, <1>5

\* What a process is handed is the message it asked for, with the key it was sent under.
LEMMA HandIs ==
    ASSUME QueuesInv, NEW a \in AsksOf(plan), procs[a].at = "ready", NEW i \in DOMAIN sent,
           Wanted(plan, a, sent[i]), Hand(a, i), plan' = plan, sent' = sent,
           plan.backend = "memory" => i \notin kept'
    PROVE  /\ ProcOK(a)' /\ DOMAIN procs' = AsksOf(plan)
           /\ \A b \in AsksOf(plan) \ {a} : procs'[b] = procs[b]
           /\ \/ /\ procs' = [procs EXCEPT ![a] = [at |-> "busy", message |-> i, key |-> sent[i]]]
                 /\ \/ a.kind = "any"
                    \/ a.kind = sent[i].kind /\ \A f \in DOMAIN a.names : sent[i].names[f] = a.names[f]
              \/ procs' = [procs EXCEPT ![a] = procs[a]]
              \/ procs' = [procs EXCEPT ![a].at = "done"]
  <1>1. DOMAIN procs = AsksOf(plan)
    BY DEF QueuesInv, SentOK
  <1>2. CASE Told(a, i) # Unparsed
    <2>1. /\ Told(a, i) = sent[i]
          /\ \/ a.kind = "any"
             \/ a.kind = sent[i].kind /\ \A f \in DOMAIN a.names : sent[i].names[f] = a.names[f]
      BY <1>2, ToldIs
    <2>2. procs' = [procs EXCEPT ![a] = [at |-> "busy", message |-> i, key |-> sent[i]]]
      BY <1>2, <2>1 DEF Hand
    <2>3. sent[i] \in Sendable(plan) /\ i \in Nat
      BY SeqElement DEF QueuesInv, SentOK
    <2>4. procs'[a] = [at |-> "busy", message |-> i, key |-> sent[i]]
      BY <1>1, <2>2
    <2>5. ProcOK(a)'
      BY <2>3, <2>4 DEF ProcOK, Holding, AtRest
    <2> QED BY <1>1, <2>1, <2>2, <2>5
  <1>3. CASE Told(a, i) = Unparsed
    <2>1. \/ procs' = [procs EXCEPT ![a] = [procs[a] EXCEPT !.at = "done"]]
          \/ procs' = [procs EXCEPT ![a] = procs[a]]
      BY <1>3 DEF Hand
    <2>2. \/ procs' = [procs EXCEPT ![a].at = "done"]
          \/ procs' = [procs EXCEPT ![a] = procs[a]]
      BY <2>1
    <2>3. DOMAIN procs' = AsksOf(plan) /\ \A b \in AsksOf(plan) \ {a} : procs'[b] = procs[b]
      BY <1>1, <2>1
    <2>4. ProcOK(a)'
      <3>1. CASE procs' = [procs EXCEPT ![a].at = "done"]
        <4>1. procs'[a] = [procs[a] EXCEPT !.at = "done"] /\ "done" \in AtRest /\ "ready" \in AtRest
          BY <1>1, <3>1 DEF AtRest
        <4> QED BY <4>1, ProcRests
      <3>2. CASE procs' = [procs EXCEPT ![a] = procs[a]]
        <4>1. procs'[a] = procs[a]
          BY <1>1, <3>2
        <4>2. ProcOK(a) /\ procs[a].at \notin Holding
          BY DEF QueuesInv, Holding
        <4> QED BY <4>1, <4>2 DEF ProcOK
      <3> QED BY <2>2, <3>1, <3>2
    <2> QED BY <2>2, <2>3, <2>4
  <1> QED BY <1>2, <1>3

-----------------------------------------------------------------------------
(* Queues: every action keeps the invariant *)

\* One lemma for each action: it keeps the invariant.
LEMMA NotifyKeeps == ASSUME QueuesInv, NEW key \in plan.notices, Notify(key) PROVE QueuesInv'
  <1>1. /\ Put(key) /\ UNCHANGED <<plan, first, procs, settled, faults>>
    BY DEF Notify
  <1>2. key \in Sendable(plan)
    BY AsksAre, QueuesConstants, AmqpFormatsAre DEF Sendable, IsNotice, Sends, AmqpKinds
  <1>3. SentGrows /\ sent' = Append(sent, key) /\ Len(sent') = Len(sent) + 1 /\ kept' \subseteq DOMAIN sent'
        /\ DOMAIN queues' = AsksOf(plan)
    BY <1>1, <1>2, PutGrows
  <1>4. \A b \in AsksOf(plan) : QueueOK(b)' /\ ProcOK(b)'
    BY <1>1, <1>2, <1>3, PutQueues, ProcStays
  <1>5. sent' \in Seq(Sendable(plan)) /\ Len(sent) \in Nat
    BY <1>3, Growing
  <1>6. first' \in 1..(Len(sent') + 1)
    BY <1>1, <1>3, <1>5 DEF QueuesInv, SentOK
  <1> QED BY <1>1, <1>3, <1>4, <1>5, <1>6 DEF QueuesInv, SentOK

\* A process at rest that goes elsewhere at rest, and what changes with it.
LEMMA CallKeeps == ASSUME QueuesInv, NEW a \in Asks, Call(a) PROVE QueuesInv'
  <1>1. /\ a \in Callers /\ procs[a].at = "off" /\ Sends(plan.backend, CallOf(a).kind) /\ Put(CallOf(a))
        /\ procs' = [procs EXCEPT ![a].at = "ready"] /\ UNCHANGED <<plan, first, settled, faults>>
    BY DEF Call
  <1>2. a \in AsksOf(plan) /\ CallOf(a) \in Sendable(plan) /\ faults' \in 0..MaxFaults
    BY <1>1, AsksAre, CallSendable
  <1>3. DOMAIN procs = AsksOf(plan)
    BY DEF QueuesInv, SentOK
  <1>4. /\ procs'[a] = [procs[a] EXCEPT !.at = "ready"] /\ DOMAIN procs' = AsksOf(plan)
        /\ \A b \in AsksOf(plan) \ {a} : procs'[b] = procs[b]
    BY <1>1, <1>2, <1>3
  <1>5. ProcOK(a)'
    BY <1>1, <1>2, <1>4, ProcRests DEF AtRest
  <1> QED BY <1>1, <1>2, <1>4, <1>5, PutKeeps

LEMMA CallFailsKeeps == ASSUME QueuesInv, NEW a \in Asks, CallFails(a) PROVE QueuesInv'
  <1>1. /\ a \in Callers /\ procs[a].at = "off"
        /\ procs' = [procs EXCEPT ![a].at = "done"] /\ UNCHANGED <<plan, first, settled>>
        /\ \/ Sends(plan.backend, CallOf(a).kind) /\ Put(CallOf(a))
           \/ UNCHANGED <<sent, kept, queues, lost>>
        /\ Fault \/ faults' = faults
    BY DEF CallFails
  <1>2. a \in AsksOf(plan) /\ faults' \in 0..MaxFaults
    BY <1>1, AsksAre, FaultIs
  <1>3. DOMAIN procs = AsksOf(plan)
    BY DEF QueuesInv, SentOK
  <1>4. /\ procs'[a] = [procs[a] EXCEPT !.at = "done"] /\ DOMAIN procs' = AsksOf(plan)
        /\ \A b \in AsksOf(plan) \ {a} : procs'[b] = procs[b]
    BY <1>1, <1>2, <1>3
  <1>5. ProcOK(a)'
    BY <1>1, <1>2, <1>4, ProcRests DEF AtRest
  <1>6. CASE Sends(plan.backend, CallOf(a).kind) /\ Put(CallOf(a))
    BY <1>1, <1>2, <1>4, <1>5, <1>6, CallSendable, PutKeeps
  <1>7. CASE UNCHANGED <<sent, kept, queues, lost>>
    BY <1>1, <1>2, <1>4, <1>5, <1>7, ProcKeeps
  <1> QED BY <1>1, <1>6, <1>7

\* The steps of one process that change nothing else.
LEMMA RestKeeps ==
    ASSUME QueuesInv, NEW a \in Asks, NEW at \in AtRest, procs[a].at \in AtRest,
           procs' = [procs EXCEPT ![a].at = at], faults' = faults \/ Fault,
           UNCHANGED <<plan, sent, first, kept, queues, settled, lost>>
    PROVE  QueuesInv'
  <1>1. a \in AsksOf(plan) /\ faults' \in 0..MaxFaults
    BY AsksAre, FaultIs
  <1>2. DOMAIN procs = AsksOf(plan)
    BY DEF QueuesInv, SentOK
  <1>3. /\ procs'[a] = [procs[a] EXCEPT !.at = at] /\ DOMAIN procs' = AsksOf(plan)
        /\ \A b \in AsksOf(plan) \ {a} : procs'[b] = procs[b]
    BY <1>1, <1>2
  <1>4. ProcOK(a)'
    BY <1>1, <1>3, ProcRests
  <1> QED BY <1>1, <1>3, <1>4, ProcKeeps

LEMMA StartKeeps == ASSUME QueuesInv, NEW a \in Asks, Start(a) PROVE QueuesInv'
  BY RestKeeps DEF Start, AtRest

LEMMA GivesUpKeeps ==
    ASSUME QueuesInv, NEW a \in Asks, TimesOut(a) \/ ReceiveFails(a) PROVE QueuesInv'
  BY RestKeeps DEF TimesOut, ReceiveFails, GivesUp, AtRest

\* A consumer of a broker that changed.
LEMMA NewQueue ==
    ASSUME UNCHANGED <<plan, sent, kept>>, plan.backend # "memory", NEW a,
           NEW todo \in SUBSET Nat, NEW owed \in SUBSET Nat, NEW open \in BOOLEAN, NEW done,
           queues'[a] = [open |-> open, todo |-> todo, owed |-> owed], settled'[a] = done,
           done \subseteq DOMAIN sent, todo \cup owed \subseteq (first')..Len(sent),
           todo \cap (owed \cup done) = {}, owed \cap done = {},
           \A i \in todo \cup owed : Wanted(plan, a, sent[i]),
           open \/ (todo = {} /\ owed = {} /\ (plan.backend = "nats" => done = {}))
    PROVE  QueueOK(a)'
  <1> PICK q : q = queues'[a]
    OBVIOUS
  <1>1. /\ q \in [open : BOOLEAN, todo : SUBSET Nat, owed : SUBSET Nat]
        /\ q.todo = todo /\ q.owed = owed /\ q.open = open
    OBVIOUS
  <1> QED BY <1>1 DEF QueueOK

LEMMA DeclareKeeps == ASSUME QueuesInv, NEW a \in Asks, Declare(a) PROVE QueuesInv'
  <1>1. /\ ~queues[a].open /\ plan.backend # "memory"
        /\ queues' = [queues EXCEPT ![a] = IF plan.backend = "nats" THEN NatsConsumer(a) ELSE AmqpQueue]
        /\ UNCHANGED <<plan, sent, first, kept, procs, settled, lost, faults>>
    BY DEF Declare, Broker
  <1>2. a \in AsksOf(plan) /\ faults' \in 0..MaxFaults /\ QueueOK(a) /\ SentOK
    BY <1>1, AsksAre DEF QueuesInv
  <1>3. DOMAIN procs' = AsksOf(plan) /\ DOMAIN queues' = AsksOf(plan) /\ DOMAIN settled' = AsksOf(plan)
    BY <1>1, <1>2 DEF SentOK
  <1>4. Len(sent) \in Nat /\ DOMAIN sent = 1..Len(sent) /\ first \in Nat
    <2>1. sent \in Seq(Sendable(plan))
      BY <1>2 DEF SentOK
    <2>2. Len(sent) \in Nat /\ DOMAIN sent = 1..Len(sent)
      BY <2>1, SeqElement
    <2> QED BY <1>2, <2>2 DEF SentOK
  <1>5. QueueOK(a)'
    <2>1. CASE plan.backend = "nats"
      <3> PICK todo : todo = InStream(a)
        OBVIOUS
      <3>1. queues'[a] = [open |-> TRUE, todo |-> todo, owed |-> {}] /\ settled[a] = {}
        BY <1>1, <1>2, <2>1 DEF NatsConsumer, SentOK, QueueOK
      <3>2. /\ todo \subseteq first..Len(sent) /\ todo \in SUBSET Nat
            /\ \A i \in todo : Wanted(plan, a, sent[i])
        BY <1>4 DEF InStream, Wants, Wanted
      <3>3. {} \in SUBSET Nat /\ TRUE \in BOOLEAN /\ settled'[a] = {} /\ first' = first
        BY <1>1, <3>1
      <3> QED BY <1>1, <3>1, <3>2, <3>3, NewQueue
    <2>2. CASE plan.backend # "nats"
      <3>1. queues'[a] = [open |-> TRUE, todo |-> {}, owed |-> {}]
        BY <1>1, <1>2, <2>2 DEF AmqpQueue, SentOK
      <3>2. {} \in SUBSET Nat /\ TRUE \in BOOLEAN /\ settled[a] \subseteq DOMAIN sent
        BY <1>2 DEF QueueOK
      <3> QED BY <1>1, <3>1, <3>2, NewQueue
    <2> QED BY <2>1, <2>2
  <1>6. ProcOK(a)'
    BY <1>1, <1>2, ProcStays DEF SentGrows
  <1>7. \A b \in AsksOf(plan) \ {a} : queues'[b] = queues[b]
    BY <1>1, <1>2 DEF SentOK
  <1> QED BY <1>1, <1>2, <1>3, <1>5, <1>6, <1>7, QueueKeeps

\* What is left of a stream is a part of what was sent.
LEMMA LengthIs ==
    ASSUME QueuesInv
    PROVE  Len(sent) \in Nat /\ DOMAIN sent = 1..Len(sent) /\ first \in Nat /\ first >= 1
           /\ first..Len(sent) \subseteq DOMAIN sent
  <1>1. sent \in Seq(Sendable(plan))
    BY DEF QueuesInv, SentOK
  <1>2. Len(sent) \in Nat /\ DOMAIN sent = 1..Len(sent)
    BY <1>1, SeqElement
  <1>3. first \in Nat /\ first >= 1
    BY <1>2 DEF QueuesInv, SentOK
  <1> QED BY <1>2, <1>3

\* A consumer that is delivered a message owes it.
LEMMA DeliverIs ==
    ASSUME QueuesInv, NEW a \in AsksOf(plan), NEW i \in queues[a].todo, Deliver(a, i),
           plan.backend # "memory", UNCHANGED <<plan, sent, first, kept, settled>>
    PROVE  /\ QueueOK(a)' /\ DOMAIN queues' = AsksOf(plan)
           /\ \A b \in AsksOf(plan) \ {a} : queues'[b] = queues[b]
  <1>1. QueueOK(a) /\ DOMAIN queues = AsksOf(plan)
    BY DEF QueuesInv, SentOK
  <1> PICK q \in [open : BOOLEAN, todo : SUBSET Nat, owed : SUBSET Nat] : q = queues[a]
    BY <1>1 DEF QueueOK
  <1> PICK m : m = [queues EXCEPT ![a].todo = @ \ {i}]
    OBVIOUS
  <1>2. queues' = [m EXCEPT ![a].owed = @ \cup {i}]
    BY DEF Deliver
  <1>3. /\ m[a] = [open |-> q.open, todo |-> q.todo \ {i}, owed |-> q.owed]
        /\ DOMAIN m = AsksOf(plan) /\ \A b \in AsksOf(plan) \ {a} : m[b] = queues[b]
    BY <1>1
  <1>4. queues'[a] = [open |-> q.open, todo |-> q.todo \ {i}, owed |-> q.owed \cup {i}]
    BY <1>2, <1>3
  <1> PICK todo \in SUBSET Nat, owed \in SUBSET Nat : todo = q.todo \ {i} /\ owed = q.owed \cup {i}
    OBVIOUS
  <1>5. /\ settled[a] \subseteq DOMAIN sent /\ todo \cup owed \subseteq (first')..Len(sent)
        /\ todo \cap (owed \cup settled[a]) = {} /\ owed \cap settled[a] = {}
        /\ \A j \in todo \cup owed : Wanted(plan, a, sent[j])
        /\ q.open /\ q.open \in BOOLEAN /\ settled'[a] = settled[a]
    BY <1>1 DEF QueueOK
  <1> PICK open \in BOOLEAN : open = q.open /\ open
    BY <1>5
  <1> PICK done : done = settled[a]
    OBVIOUS
  <1>6. queues'[a] = [open |-> open, todo |-> todo, owed |-> owed]
    BY <1>4
  <1>7. UNCHANGED <<plan, sent, kept>> /\ settled'[a] = done
    OBVIOUS
  <1>8. /\ done \subseteq DOMAIN sent /\ todo \cup owed \subseteq (first')..Len(sent)
        /\ todo \cap (owed \cup done) = {} /\ owed \cap done = {}
        /\ \A j \in todo \cup owed : Wanted(plan, a, sent[j])
    BY <1>5
  <1>9. QueueOK(a)'
    BY ONLY <1>6, <1>7, <1>8, NewQueue, open, open \in BOOLEAN, todo \in SUBSET Nat, owed \in SUBSET Nat,
            plan.backend # "memory"
  <1> QED BY <1>2, <1>9, <1>3

LEMMA FetchKeeps == ASSUME QueuesInv, NEW a \in Asks, NEW i \in DOMAIN sent, Fetch(a, i) PROVE QueuesInv'
  <1>1. /\ plan.backend # "memory" /\ procs[a].at = "ready" /\ i \in queues[a].todo
        /\ Hand(a, i) /\ Deliver(a, i)
        /\ UNCHANGED <<plan, sent, first, kept, settled, lost, faults>>
    BY DEF Fetch, Broker, Oldest
  <1>2. a \in AsksOf(plan) /\ faults' \in 0..MaxFaults /\ DOMAIN settled' = AsksOf(plan)
    BY <1>1, AsksAre DEF QueuesInv, SentOK
  <1>3. Wanted(plan, a, sent[i])
    BY <1>1, <1>2 DEF QueuesInv, QueueOK
  <1>4. /\ ProcOK(a)' /\ DOMAIN procs' = AsksOf(plan)
        /\ \A b \in AsksOf(plan) \ {a} : procs'[b] = procs[b]
    BY <1>1, <1>2, <1>3, HandIs
  <1> QED BY <1>1, <1>2, <1>4, DeliverIs, QueueKeeps

LEMMA FetchDroppedKeeps ==
    ASSUME QueuesInv, NEW a \in Asks, NEW i \in DOMAIN sent, FetchDropped(a, i) PROVE QueuesInv'
  <1>1. /\ plan.backend # "memory" /\ i \in queues[a].todo /\ Fault /\ Deliver(a, i)
        /\ UNCHANGED <<plan, sent, first, kept, procs, settled, lost>>
    BY DEF FetchDropped, Oldest
  <1>2. a \in AsksOf(plan) /\ faults' \in 0..MaxFaults /\ DOMAIN settled' = AsksOf(plan)
        /\ DOMAIN procs' = AsksOf(plan)
    BY <1>1, AsksAre, FaultIs DEF QueuesInv, SentOK
  <1>3. ProcOK(a)'
    BY <1>1, <1>2, ProcStays DEF SentGrows
  <1> QED BY <1>1, <1>2, <1>3, DeliverIs, QueueKeeps

LEMMA FetchAgainKeeps ==
    ASSUME QueuesInv, NEW a \in Asks, NEW i \in DOMAIN sent, FetchAgain(a, i) PROVE QueuesInv'
  <1>1. /\ plan.backend # "memory" /\ procs[a].at = "ready" /\ i \in queues[a].owed /\ Hand(a, i)
        /\ UNCHANGED <<plan, sent, first, kept, queues, settled, lost, faults>>
    BY DEF FetchAgain
  <1>2. a \in AsksOf(plan) /\ faults' \in 0..MaxFaults
    BY <1>1, AsksAre
  <1>3. Wanted(plan, a, sent[i])
    BY <1>1, <1>2 DEF QueuesInv, QueueOK
  <1>4. /\ ProcOK(a)' /\ DOMAIN procs' = AsksOf(plan)
        /\ \A b \in AsksOf(plan) \ {a} : procs'[b] = procs[b]
    BY <1>1, <1>2, <1>3, HandIs
  <1> QED BY <1>1, <1>2, <1>4, ProcKeeps

LEMMA TakeKeptKeeps ==
    ASSUME QueuesInv, NEW a \in Asks, NEW i \in DOMAIN sent, TakeKept(a, i) PROVE QueuesInv'
  <1>1. /\ procs[a].at = "ready" /\ Wants(a, sent[i]) /\ kept' = kept \ {i} /\ Hand(a, i)
        /\ UNCHANGED <<plan, sent, first, queues, settled, lost, faults>>
    BY DEF TakeKept
  <1>2. a \in AsksOf(plan) /\ faults' \in 0..MaxFaults
    BY <1>1, AsksAre
  <1>3. Wanted(plan, a, sent[i])
    BY <1>1 DEF Wants, Wanted
  <1>4. /\ ProcOK(a)' /\ DOMAIN procs' = AsksOf(plan)
        /\ \A b \in AsksOf(plan) \ {a} : procs'[b] = procs[b]
    BY <1>1, <1>2, <1>3, HandIs
  <1> QED BY <1>1, <1>2, <1>4, ProcKeeps

\* Where a process that answers is, and where it goes.
LEMMA AnswersIs ==
    ASSUME QueuesInv, NEW a \in Asks, MustAnswer(a), SentGrows, NEW next,
           \/ next = After(a, IF AcksFirst(a) THEN "ready" ELSE "replied")
           \/ next = Idle,
           procs' = [procs EXCEPT ![a] = next]
    PROVE  /\ procs[a].key \in Sendable(plan) /\ Answered(procs[a].key) /\ procs[a].message \in DOMAIN sent
           /\ ProcOK(a)' /\ DOMAIN procs' = AsksOf(plan)
           /\ \A b \in AsksOf(plan) \ {a} : procs'[b] = procs[b]
           /\ \/ next.message = 0 /\ next.key = Unparsed
              \/ next.message = procs[a].message /\ next.key = procs[a].key
  <1>1. a \in AsksOf(plan) /\ DOMAIN procs = AsksOf(plan) /\ ProcOK(a)
    BY AsksAre DEF QueuesInv, SentOK
  <1>2. procs[a].at \in Holding /\ Answered(procs[a].key)
    BY DEF MustAnswer, Holding
  <1>3. procs[a].message \in DOMAIN sent /\ procs[a].key = sent[procs[a].message]
    BY <1>1, <1>2 DEF ProcOK
  <1>4. procs[a].key \in Sendable(plan)
    BY <1>3, SeqElement DEF QueuesInv, SentOK
  <1>5. procs'[a] = next /\ DOMAIN procs' = AsksOf(plan) /\ \A b \in AsksOf(plan) \ {a} : procs'[b] = procs[b]
    BY <1>1
  <1>6. CASE next = [procs[a] EXCEPT !.at = "replied"]
    <2>1. ProcOK(a)'
      BY <1>1, <1>2, <1>5, <1>6, ProcHolds DEF Holding
    <2>2. next.message = procs[a].message /\ next.key = procs[a].key
      BY <1>1, <1>6 DEF ProcOK
    <2> QED BY <1>2, <1>3, <1>4, <1>5, <2>1, <2>2
  <1>7. CASE next \in {[Idle EXCEPT !.at = "ready"], Idle}
    <2>1. \E at \in AtRest : next = [Idle EXCEPT !.at = at]
      BY <1>7 DEF Idle, AtRest
    <2>2. ProcOK(a)'
      BY <1>1, <1>5, <2>1, ProcRests DEF SentGrows
    <2>3. next.message = 0 /\ next.key = Unparsed
      BY <2>1 DEF Idle
    <2> QED BY <1>2, <1>3, <1>4, <1>5, <2>2, <2>3
  <1> QED BY <1>6, <1>7 DEF After

LEMMA RespondKeeps == ASSUME QueuesInv, NEW a \in Asks, Respond(a) PROVE QueuesInv'
  <1> PICK next : next = After(a, IF AcksFirst(a) THEN "ready" ELSE "replied")
    OBVIOUS
  <1>1. /\ MustAnswer(a) /\ Put(Reply(procs[a].key)) /\ procs' = [procs EXCEPT ![a] = next]
        /\ UNCHANGED <<plan, first, settled, faults>>
    BY DEF Respond
  <1>2. a \in AsksOf(plan) /\ faults' \in 0..MaxFaults /\ plan \in Plans /\ ProcOK(a)
    BY <1>1, AsksAre DEF QueuesInv
  <1>3. procs[a].at \in Holding /\ Answered(procs[a].key)
    BY <1>1 DEF MustAnswer, Holding
  <1>4. procs[a].key \in Sendable(plan)
    BY <1>2, <1>3, SeqElement DEF ProcOK, QueuesInv, SentOK
  <1>5. Reply(procs[a].key) \in Sendable(plan)
    BY <1>2, <1>3, <1>4, ReplySendable
  <1>6. SentGrows
    BY <1>1, <1>5, PutGrows
  <1>7. /\ ProcOK(a)' /\ DOMAIN procs' = AsksOf(plan)
        /\ \A b \in AsksOf(plan) \ {a} : procs'[b] = procs[b]
    BY <1>1, <1>6, AnswersIs
  <1> QED BY <1>1, <1>2, <1>5, <1>7, PutKeeps

LEMMA RespondFailsKeeps == ASSUME QueuesInv, NEW a \in Asks, RespondFails(a) PROVE QueuesInv'
  <1> PICK next : next = IF a.kind = "svc_request" THEN Idle
                         ELSE After(a, IF AcksFirst(a) THEN "ready" ELSE "replied")
    OBVIOUS
  <1>1. /\ MustAnswer(a) /\ Fault /\ procs' = [procs EXCEPT ![a] = next]
        /\ UNCHANGED <<plan, sent, first, kept, queues, settled>>
    BY DEF RespondFails
  <1>2. a \in AsksOf(plan) /\ faults' \in 0..MaxFaults /\ SentGrows
    BY <1>1, AsksAre, FaultIs DEF SentGrows
  <1>3. /\ ProcOK(a)' /\ DOMAIN procs' = AsksOf(plan)
        /\ \A b \in AsksOf(plan) \ {a} : procs'[b] = procs[b]
    BY <1>1, <1>2, AnswersIs
  <1> QED BY <1>1, <1>2, <1>3, ProcKeeps

\* What a process is after an acknowledgement.
LEMMA AckProc ==
    ASSUME QueuesInv, NEW a \in Asks, AtAck(a), SentGrows,
           procs' = [procs EXCEPT ![a] = IF AfterAck(a) = "done" THEN [Idle EXCEPT !.at = "done"]
                                         ELSE After(a, AfterAck(a))]
    PROVE  /\ ProcOK(a)' /\ DOMAIN procs' = AsksOf(plan) /\ procs[a].message \in DOMAIN sent
           /\ procs[a].at \in Holding
           /\ \A b \in AsksOf(plan) \ {a} : procs'[b] = procs[b]
           /\ \/ procs'[a].message = 0 /\ procs'[a].key = Unparsed
              \/ procs'[a].message = procs[a].message /\ procs'[a].key = procs[a].key
  <1>1. a \in AsksOf(plan) /\ DOMAIN procs = AsksOf(plan) /\ ProcOK(a)
    BY AsksAre DEF QueuesInv, SentOK
  <1>2. procs[a].at \in Holding
    BY DEF AtAck, Holding
  <1>3. procs[a].message \in DOMAIN sent
    BY <1>1, <1>2 DEF ProcOK
  <1>4. DOMAIN procs' = AsksOf(plan) /\ \A b \in AsksOf(plan) \ {a} : procs'[b] = procs[b]
    BY <1>1
  <1>5. \/ \E at \in AtRest : procs'[a] = [Idle EXCEPT !.at = at]
        \/ procs'[a] = [procs[a] EXCEPT !.at = "acked"]
    BY <1>1 DEF AfterAck, After, AtRest
  <1>6. CASE \E at \in AtRest : procs'[a] = [Idle EXCEPT !.at = at]
    <2>1. ProcOK(a)'
      BY <1>1, <1>6, ProcRests DEF SentGrows
    <2>2. procs'[a].message = 0 /\ procs'[a].key = Unparsed
      BY <1>6 DEF Idle
    <2> QED BY <1>2, <1>3, <1>4, <2>1, <2>2
  <1>7. CASE procs'[a] = [procs[a] EXCEPT !.at = "acked"]
    <2>1. ProcOK(a)'
      BY <1>1, <1>2, <1>7, ProcHolds DEF Holding
    <2>2. procs'[a].message = procs[a].message /\ procs'[a].key = procs[a].key
      BY <1>1, <1>7 DEF ProcOK
    <2> QED BY <1>2, <1>3, <1>4, <2>1, <2>2
  <1> QED BY <1>5, <1>6, <1>7

LEMMA AckKeeps == ASSUME QueuesInv, NEW a \in Asks, Ack(a) PROVE QueuesInv'
  <1> PICK i : i = procs[a].message
    OBVIOUS
  <1>1. /\ AtAck(a) /\ UNCHANGED <<plan, sent, first, kept, lost>>
        /\ procs' = [procs EXCEPT ![a] = IF AfterAck(a) = "done" THEN [Idle EXCEPT !.at = "done"]
                                         ELSE After(a, AfterAck(a))]
        /\ \/ /\ settled' = [settled EXCEPT ![a] =
                     IF i \in queues[a].owed \/ ~Broker THEN settled[a] \cup {i} ELSE settled[a]]
              /\ queues' = [queues EXCEPT ![a].owed = @ \ {i}] /\ faults' = faults
           \/ Fault /\ settled' = settled /\ queues' = queues
    BY DEF Ack
  <1>2. a \in AsksOf(plan) /\ faults' \in 0..MaxFaults /\ QueueOK(a) /\ ProcOK(a) /\ SentGrows /\ SentOK
    BY <1>1, AsksAre, FaultIs DEF QueuesInv, SentGrows
  <1>3. /\ ProcOK(a)' /\ DOMAIN procs' = AsksOf(plan) /\ i \in DOMAIN sent /\ procs[a].at \in Holding
        /\ \A b \in AsksOf(plan) \ {a} : procs'[b] = procs[b]
    BY <1>1, <1>2, AckProc
  <1>4. CASE Fault /\ settled' = settled /\ queues' = queues
    BY <1>1, <1>2, <1>3, <1>4, ProcKeeps
  <1>5. CASE /\ settled' = [settled EXCEPT ![a] =
                     IF i \in queues[a].owed \/ ~Broker THEN settled[a] \cup {i} ELSE settled[a]]
             /\ queues' = [queues EXCEPT ![a].owed = @ \ {i}]
    <2> PICK q \in [open : BOOLEAN, todo : SUBSET Nat, owed : SUBSET Nat] : q = queues[a]
      BY <1>2 DEF QueueOK
    <2> PICK owed \in SUBSET Nat, todo \in SUBSET Nat, open \in BOOLEAN :
            owed = q.owed \ {i} /\ todo = q.todo /\ open = q.open
      OBVIOUS
    <2> PICK done : done = IF i \in q.owed \/ ~Broker THEN settled[a] \cup {i} ELSE settled[a]
      OBVIOUS
    <2>1. /\ DOMAIN queues' = AsksOf(plan) /\ DOMAIN settled' = AsksOf(plan)
          /\ \A b \in AsksOf(plan) \ {a} : queues'[b] = queues[b] /\ settled'[b] = settled[b]
      BY <1>2, <1>5 DEF SentOK
    <2>2. queues'[a] = [open |-> open, todo |-> todo, owed |-> owed] /\ settled'[a] = done
      BY <1>2, <1>5 DEF SentOK
    <2>3. /\ done \subseteq DOMAIN sent /\ todo \cup owed \subseteq (first')..Len(sent)
          /\ \A j \in todo \cup owed : Wanted(plan, a, sent[j])
      BY <1>1, <1>2, <1>3 DEF QueueOK
    <2>4. CASE Broker
      <3>1. /\ todo \cap (owed \cup done) = {} /\ owed \cap done = {}
            /\ open \/ (todo = {} /\ owed = {} /\ (plan.backend = "nats" => done = {}))
        BY <1>2, <2>4 DEF QueueOK
      <3>2. plan.backend # "memory" /\ UNCHANGED <<plan, sent, kept>>
        BY <1>1, <2>4 DEF Broker
      <3>3. QueueOK(a)'
        BY ONLY <2>2, <2>3, <3>1, <3>2, NewQueue, open \in BOOLEAN, todo \in SUBSET Nat, owed \in SUBSET Nat
      <3> QED BY <1>1, <1>2, <1>3, <2>1, <3>3, QueueKeeps
    <2>5. CASE ~Broker
      <3>1. plan.backend = "memory" /\ done = settled[a] \cup {i} /\ ~open
        BY <1>2, <2>5 DEF Broker, QueueOK
      <3>2. todo = {} /\ owed = {} /\ i \notin kept /\ kept \cap settled[a] = {}
        BY <1>2, <1>3, <3>1 DEF QueueOK, ProcOK
      <3>3. kept \cap done = {}
        BY <3>1, <3>2
      <3> PICK r : r = queues'[a]
        OBVIOUS
      <3>4. /\ r \in [open : BOOLEAN, todo : SUBSET Nat, owed : SUBSET Nat]
            /\ r.todo = {} /\ r.owed = {} /\ ~r.open
        BY <2>2, <3>1, <3>2
      <3>5. QueueOK(a)'
        BY <1>1, <2>2, <2>3, <3>1, <3>3, <3>4 DEF QueueOK
      <3> QED BY <1>1, <1>2, <1>3, <2>1, <3>5, QueueKeeps
    <2> QED BY <2>4, <2>5
  <1> QED BY <1>1, <1>4, <1>5

LEMMA CrashKeeps == ASSUME QueuesInv, NEW a \in Asks, Crash(a) PROVE QueuesInv'
  <1>1. /\ plan.backend # "memory" /\ Fault /\ procs' = [procs EXCEPT ![a] = Idle]
        /\ queues' = (IF plan.backend = "amqp" THEN [queues EXCEPT ![a] = Closed] ELSE queues)
        /\ UNCHANGED <<plan, sent, first, kept, settled>>
    BY DEF Crash, Broker
  <1>2. a \in AsksOf(plan) /\ faults' \in 0..MaxFaults /\ QueueOK(a) /\ SentOK
    BY <1>1, AsksAre, FaultIs DEF QueuesInv
  <1>3. procs'[a] = [Idle EXCEPT !.at = "off"] /\ DOMAIN procs' = AsksOf(plan)
        /\ \A b \in AsksOf(plan) \ {a} : procs'[b] = procs[b]
    BY <1>1, <1>2 DEF SentOK, Idle
  <1>4. ProcOK(a)'
    BY <1>1, <1>2, <1>3, ProcRests DEF AtRest
  <1>5. CASE plan.backend # "amqp"
    BY <1>1, <1>2, <1>3, <1>4, <1>5, ProcKeeps
  <1>6. CASE plan.backend = "amqp"
    <2>1. /\ DOMAIN queues' = AsksOf(plan) /\ DOMAIN settled' = AsksOf(plan)
          /\ \A b \in AsksOf(plan) \ {a} : queues'[b] = queues[b] /\ settled'[b] = settled[b]
          /\ queues'[a] = [open |-> FALSE, todo |-> {}, owed |-> {}]
      BY <1>1, <1>2, <1>6 DEF SentOK, Closed
    <2> PICK none \in SUBSET Nat, shut \in BOOLEAN : none = {} /\ ~shut
      OBVIOUS
    <2> PICK done : done = settled[a]
      OBVIOUS
    <2>2. /\ queues'[a] = [open |-> shut, todo |-> none, owed |-> none] /\ settled'[a] = done
          /\ done \subseteq DOMAIN sent /\ UNCHANGED <<plan, sent, kept>>
          /\ plan.backend # "nats" /\ plan.backend # "memory"
      BY <1>1, <1>2, <1>6, <2>1 DEF QueueOK
    <2>3. /\ none \cup none \subseteq (first')..Len(sent)
          /\ none \cap (none \cup done) = {} /\ none \cap done = {}
          /\ \A j \in none \cup none : Wanted(plan, a, sent[j])
      OBVIOUS
    <2>4. QueueOK(a)'
      BY ONLY <2>2, <2>3, NewQueue, none = {}, none \in SUBSET Nat, shut \in BOOLEAN
    <2> QED BY <1>1, <1>2, <1>3, <1>4, <2>1, <2>4, QueueKeeps
  <1> QED BY <1>5, <1>6

LEMMA ExpireKeeps == ASSUME QueuesInv, NEW a \in Asks, Expire(a) PROVE QueuesInv'
  <1>1. /\ plan.backend = "nats" /\ Fault /\ queues' = [queues EXCEPT ![a] = Closed]
        /\ settled' = [settled EXCEPT ![a] = {}]
        /\ UNCHANGED <<plan, sent, first, kept, procs, lost>>
    BY DEF Expire
  <1>2. a \in AsksOf(plan) /\ faults' \in 0..MaxFaults /\ SentOK
    BY <1>1, AsksAre, FaultIs DEF QueuesInv
  <1>3. /\ DOMAIN queues' = AsksOf(plan) /\ DOMAIN settled' = AsksOf(plan) /\ DOMAIN procs' = AsksOf(plan)
        /\ \A b \in AsksOf(plan) \ {a} : queues'[b] = queues[b] /\ settled'[b] = settled[b]
        /\ queues'[a] = [open |-> FALSE, todo |-> {}, owed |-> {}] /\ settled'[a] = {}
    BY <1>1, <1>2 DEF SentOK, Closed
  <1>4. QueueOK(a)'
    <2> PICK none \in SUBSET Nat, shut \in BOOLEAN : none = {} /\ ~shut
      OBVIOUS
    <2> PICK done : done = {}
      OBVIOUS
    <2>1. /\ queues'[a] = [open |-> shut, todo |-> none, owed |-> none] /\ settled'[a] = done
          /\ UNCHANGED <<plan, sent, kept>> /\ plan.backend # "memory"
      BY <1>1, <1>3
    <2>2. /\ none \cup none \subseteq (first')..Len(sent) /\ done \subseteq DOMAIN sent
          /\ none \cap (none \cup done) = {} /\ none \cap done = {}
          /\ \A j \in none \cup none : Wanted(plan, a, sent[j])
      OBVIOUS
    <2> QED BY ONLY <2>1, <2>2, NewQueue, none = {}, done = {}, none \in SUBSET Nat, shut \in BOOLEAN
  <1>5. ProcOK(a)'
    BY <1>1, <1>2, ProcStays DEF SentGrows
  <1> QED BY <1>1, <1>2, <1>3, <1>4, <1>5, QueueKeeps

LEMMA DiscardKeeps == ASSUME QueuesInv, Discard PROVE QueuesInv'
  <1>1. /\ plan.backend = "nats" /\ first <= Len(sent) /\ Fault /\ first' = first + 1
        /\ queues' = [a \in Asks |-> [queues[a] EXCEPT !.todo = @ \ {first}, !.owed = @ \ {first}]]
        /\ UNCHANGED <<plan, sent, kept, procs, settled>>
    BY DEF Discard
  <1>2. Asks = AsksOf(plan) /\ faults' \in 0..MaxFaults /\ SentOK
    BY <1>1, AsksAre, FaultIs DEF QueuesInv
  <1>3. /\ first..Len(sent) \ {first} \subseteq (first')..Len(sent)
        /\ first' \in 1..(Len(sent) + 1)
    <2> PICK n \in Nat, m \in Nat : n = Len(sent) /\ m = first /\ m >= 1 /\ m <= n
      BY <1>1, LengthIs
    <2> PICK k : k = first' /\ k = m + 1
      BY <1>1
    <2> QED OBVIOUS
  <1>4. ASSUME NEW a \in AsksOf(plan) PROVE QueueOK(a)'
    <2>1. QueueOK(a)
      BY DEF QueuesInv
    <2> PICK q \in [open : BOOLEAN, todo : SUBSET Nat, owed : SUBSET Nat] : q = queues[a]
      BY <2>1 DEF QueueOK
    <2> PICK owed \in SUBSET Nat, todo \in SUBSET Nat, open \in BOOLEAN :
            owed = q.owed \ {first} /\ todo = q.todo \ {first} /\ open = q.open
      OBVIOUS
    <2> PICK done : done = settled[a]
      OBVIOUS
    <2>2. queues'[a] = [open |-> open, todo |-> todo, owed |-> owed] /\ settled'[a] = done
      BY <1>1, <1>2
    <2>3. first..Len(sent) \ {first} \subseteq (first')..Len(sent)
      BY <1>3
    <2>4. todo \cup owed \subseteq (first')..Len(sent)
      BY <2>1, <2>3 DEF QueueOK
    <2>5. /\ done \subseteq DOMAIN sent /\ todo \cap (owed \cup done) = {} /\ owed \cap done = {}
          /\ \A j \in todo \cup owed : Wanted(plan, a, sent[j])
          /\ open \/ (todo = {} /\ owed = {} /\ (plan.backend = "nats" => done = {}))
      BY <2>1 DEF QueueOK
    <2>6. plan.backend # "memory" /\ UNCHANGED <<plan, sent, kept>>
      BY <1>1
    <2> QED BY ONLY <2>2, <2>4, <2>5, <2>6, NewQueue, open \in BOOLEAN, todo \in SUBSET Nat, owed \in SUBSET Nat
  <1>5. \A a \in AsksOf(plan) : ProcOK(a)'
    BY <1>1, ProcStays DEF SentGrows
  <1>6. first' \in 1..(Len(sent) + 1)
    BY <1>3
  <1>7. DOMAIN queues' = AsksOf(plan)
    BY <1>1, <1>2
  <1> QED BY <1>1, <1>2, <1>4, <1>5, <1>6, <1>7 DEF QueuesInv, SentOK

-----------------------------------------------------------------------------
(* Queues: the theorems *)

\* Every step of a process keeps the invariant,
LEMMA ProcessKeeps == ASSUME QueuesInv, NEW a \in Asks, Process(a) PROVE QueuesInv'
  <1>1. CASE Call(a) \/ CallFails(a) \/ Declare(a)
    BY <1>1, CallKeeps, CallFailsKeeps, DeclareKeeps
  <1>2. ASSUME NEW i \in DOMAIN sent, Fetch(a, i) \/ FetchDropped(a, i) \/ FetchAgain(a, i) \/ TakeKept(a, i)
        PROVE  QueuesInv'
    BY <1>2, FetchKeeps, FetchDroppedKeeps, FetchAgainKeeps, TakeKeptKeeps
  <1>3. CASE TimesOut(a) \/ ReceiveFails(a)
    BY <1>3, GivesUpKeeps
  <1>4. CASE Respond(a) \/ RespondFails(a) \/ Ack(a)
    BY <1>4, RespondKeeps, RespondFailsKeeps, AckKeeps
  <1>5. CASE Start(a) \/ Crash(a) \/ Expire(a)
    BY <1>5, StartKeeps, CrashKeeps, ExpireKeeps
  <1> QED BY <1>1, <1>2, <1>3, <1>4, <1>5 DEF Process

\* and so does every step.
LEMMA NextKeeps == ASSUME QueuesInv, [QueuesNext]_queuesVars PROVE QueuesInv'
  <1>1. CASE \E a \in Asks : Process(a)
    BY <1>1, ProcessKeeps
  <1>2. CASE \E key \in plan.notices : Notify(key)
    BY <1>2, NotifyKeeps
  <1>3. CASE Discard
    BY <1>3, DiscardKeeps
  <1>4. CASE UNCHANGED queuesVars
    <2>1. UNCHANGED <<plan, sent, first, kept, queues, procs, settled, lost, faults>>
      BY <1>4 DEF queuesVars
    <2>2. SentGrows
      BY <2>1 DEF SentGrows
    <2>3. \A a \in AsksOf(plan) : QueueOK(a)' /\ ProcOK(a)'
      BY <2>1, <2>2, QueueStays, ProcStays
    <2> QED BY <2>1, <2>3 DEF QueuesInv, SentOK
  <1> QED BY <1>1, <1>2, <1>3, <1>4 DEF QueuesNext

(* The consumers and the processes are right in every state: a consumer owes only what is left of    *)
(* its stream, what it asked for and has not acknowledged, and a process that holds a message was    *)
(* told the key it was sent under (publish_*, receive_* and their acknowledgements, all three queues). *)
THEOREM QueuesInvariant == QueuesSpec => []QueuesInv
  BY InitOK, NextKeeps, PTL DEF QueuesSpec

\* The invariant implies the types.
LEMMA InvTyped == ASSUME QueuesInv PROVE QueuesTypeOK
  <1>1. Asks = AsksOf(plan) /\ SentOK
    BY AsksAre DEF QueuesInv
  <1>2. ASSUME NEW a \in Asks
        PROVE  /\ queues[a].todo \cup queues[a].owed \subseteq first..Len(sent)
               /\ queues[a].todo \cap (queues[a].owed \cup settled[a]) = {}
               /\ procs[a].at \in {"off", "ready", "busy", "replied", "acked", "done"}
               /\ (procs[a].key = Unparsed) = (procs[a].at \in {"off", "ready", "done"})
    <2>1. QueueOK(a) /\ ProcOK(a)
      BY <1>1 DEF QueuesInv
    <2>2. CASE procs[a].at \in AtRest
      BY <2>1, <2>2 DEF QueueOK, ProcOK, AtRest
    <2>3. CASE procs[a].at \in Holding
      <3>1. procs[a].key = sent[procs[a].message] /\ procs[a].message \in DOMAIN sent
        BY <2>1, <2>3 DEF ProcOK
      <3>2. procs[a].key \in Sendable(plan)
        BY <1>1, <3>1, SeqElement DEF SentOK
      <3>3. procs[a].key.kind \in NatsKinds
        BY <1>1, <3>2, SendableIs, KeyIs DEF SentOK
      <3>4. procs[a].key # Unparsed
        BY <3>3 DEF Unparsed, NatsKinds, DataKinds
      <3>5. procs[a].at \in {"off", "ready", "busy", "replied", "acked", "done"}
            /\ procs[a].at \notin {"off", "ready", "done"}
        BY <2>3 DEF Holding
      <3>6. (procs[a].key = Unparsed) = (procs[a].at \in {"off", "ready", "done"})
        BY <3>4, <3>5
      <3> QED BY <2>1, <3>5, <3>6 DEF QueueOK
    <2>4. procs[a].at \in AtRest \cup Holding
      BY <2>1 DEF ProcOK
    <2> QED BY <2>2, <2>3, <2>4
  <1> QED BY <1>1, <1>2 DEF QueuesTypeOK, SentOK

(* The type invariant, for every set of plans and every bound on faults.                            *)
THEOREM QueuesTypeCorrect == QueuesSpec => []QueuesTypeOK
  BY QueuesInvariant, InvTyped, PTL

-----------------------------------------------------------------------------
(* Queues: the promise *)

\* The state of the promise.
Gives(ps) == [a \in AllAsks |-> Given(IF a \in DOMAIN ps THEN ps[a] ELSE Idle)]
Settles(s, asks) == [a \in AllAsks |-> IF a \in asks THEN s[a] ELSE {}]

\* Every ask of the plan is one of the promise.
LEMMA AskIn == ASSUME QueuesInv PROVE Asks = AsksOf(plan) /\ Asks = DOMAIN procs /\ Asks \subseteq AllAsks
  BY DEF QueuesInv, SentOK, Asks, AllAsks

\* What a step of one process makes of the promise.
LEMMA GivesTo ==
    ASSUME QueuesInv, NEW a \in Asks, NEW x, procs' = [procs EXCEPT ![a] = x]
    PROVE  /\ Gives(procs') = [Gives(procs) EXCEPT ![a] = Given(x)]
           /\ Gives(procs)[a] = Given(procs[a])
           /\ (x.message = procs[a].message /\ x.key = procs[a].key => Gives(procs') = Gives(procs))
  <1>1. a \in AllAsks /\ a \in DOMAIN procs
    BY AskIn
  <1>2. Gives(procs)[a] = Given(procs[a])
    BY <1>1 DEF Gives
  <1>3. Gives(procs') = [Gives(procs) EXCEPT ![a] = Given(x)]
    BY <1>1 DEF Gives
  <1>4. ASSUME x.message = procs[a].message, x.key = procs[a].key PROVE Gives(procs') = Gives(procs)
    <2>1. Given(x) = Given(procs[a])
      BY <1>4 DEF Given
    <2>2. \A b \in AllAsks : Given(IF b \in DOMAIN procs' THEN procs'[b] ELSE Idle)
                                 = Given(IF b \in DOMAIN procs THEN procs[b] ELSE Idle)
      BY <1>1, <2>1
    <2> QED BY <2>2 DEF Gives
  <1> QED BY <1>2, <1>3, <1>4

\* The actions of the promise, in terms of its state.
LEMMA SendIs ==
    ASSUME Len(sent') = Len(sent) + 1, SubSeq(sent', 1, Len(sent)) = sent,
           Settles(settled', Asks') = Settles(settled, Asks)
    PROVE  IsQueue!Send
  BY DEF IsQueue!Send, Settles

LEMMA ReceiveIs ==
    ASSUME NEW a \in AllAsks, Gives(procs)[a] = [message |-> 0, key |-> [kind |-> "none"]],
           NEW i \in DOMAIN sent, i \notin Settles(settled, Asks)[a],
           \/ a.kind = "any"
           \/ a.kind = sent[i].kind /\ \A f \in DOMAIN a.names : sent[i].names[f] = a.names[f],
           Gives(procs') = [Gives(procs) EXCEPT ![a] = [message |-> i, key |-> sent[i]]],
           sent' = sent, Settles(settled', Asks') = Settles(settled, Asks)
    PROVE  IsQueue!Receive(a)
  BY DEF IsQueue!Receive, IsQueue!IsAsked, IsQueue!Nobody, Gives, Settles, Asks

Releases(a) ==
    Gives(procs') \in {Gives(procs),
                       [Gives(procs) EXCEPT ![a] = [message |-> 0, key |-> [kind |-> "none"]]]}

LEMMA AcknowledgeIs ==
    ASSUME NEW a \in AllAsks, Gives(procs)[a] # [message |-> 0, key |-> [kind |-> "none"]],
           \/ Settles(settled', Asks') = Settles(settled, Asks)
           \/ Settles(settled', Asks') = [Settles(settled, Asks) EXCEPT ![a] = @ \cup {Gives(procs)[a].message}],
           Releases(a), sent' = sent
    PROVE  IsQueue!Acknowledge(a)
  BY DEF IsQueue!Acknowledge, IsQueue!Released, IsQueue!Nobody, Releases, Gives, Settles, Asks

LEMMA LeaveIs ==
    ASSUME NEW a \in AllAsks, Releases(a),
           IsQueue!Send \/ (sent' = sent /\ Settles(settled', Asks') = Settles(settled, Asks))
    PROVE  IsQueue!Leave(a)
  BY DEF IsQueue!Leave, IsQueue!Released, IsQueue!Nobody, Releases, Gives, Settles, Asks

LEMMA ForgetIs ==
    ASSUME NEW a \in AllAsks, Settles(settled', Asks') = [Settles(settled, Asks) EXCEPT ![a] = {}],
           sent' = sent, Gives(procs') = Gives(procs)
    PROVE  IsQueue!Forget(a)
  BY DEF IsQueue!Forget, Gives, Settles, Asks

\* A step of the promise, or none.
Promised == IsQueue!Next \/ UNCHANGED IsQueue!vars

\* Any of them is a step of the promise.
LEMMA PromisedIs ==
    /\ IsQueue!Send /\ Gives(procs') = Gives(procs) => Promised
    /\ \A a \in AllAsks : IsQueue!Receive(a) \/ IsQueue!Acknowledge(a) \/ IsQueue!Leave(a) \/ IsQueue!Forget(a)
           => Promised
    /\ sent' = sent /\ Gives(procs') = Gives(procs) /\ Settles(settled', Asks') = Settles(settled, Asks)
           => Promised
  <1>1. IsQueue!Send /\ Gives(procs') = Gives(procs) => Promised
    BY DEF Promised, IsQueue!Next, Gives, Asks
  <1>2. ASSUME NEW a \in AllAsks,
               IsQueue!Receive(a) \/ IsQueue!Acknowledge(a) \/ IsQueue!Leave(a) \/ IsQueue!Forget(a)
        PROVE  Promised
    BY <1>2 DEF Promised, IsQueue!Next
  <1>3. sent' = sent /\ Gives(procs') = Gives(procs) /\ Settles(settled', Asks') = Settles(settled, Asks)
            => Promised
    BY DEF Promised, IsQueue!vars, Gives, Settles, Asks
  <1> QED BY <1>1, <1>2, <1>3

-----------------------------------------------------------------------------
(* Queues: every action keeps the promise *)

\* What is put was sent, for the promise.
LEMMA PutSends ==
    ASSUME QueuesInv, plan' = plan, NEW key \in Sendable(plan), Put(key),
           Settles(settled', Asks') = Settles(settled, Asks)
    PROVE  IsQueue!Send
  <1> PICK S : S = Sendable(plan)
    OBVIOUS
  <1>1. sent \in Seq(S) /\ sent' = Append(sent, key) /\ Len(sent') = Len(sent) + 1
    BY PutGrows DEF QueuesInv, SentOK
  <1>2. SubSeq(sent', 1, Len(sent)) = sent
    <2> PICK s \in Seq(S) : s = sent
      BY <1>1
    <2> PICK t : t = sent' /\ t = Append(s, key)
      BY <1>1
    <2> PICK r : r = SubSeq(t, 1, Len(s))
      OBVIOUS
    <2>1. t \in Seq(S) /\ Len(t) = Len(s) + 1 /\ Len(s) \in Nat /\ \A i \in 1..Len(s) : t[i] = s[i]
      BY AppendProperties, SeqElement
    <2>2. r \in Seq(S) /\ Len(r) = Len(s) /\ \A i \in 1..Len(s) : r[i] = t[i]
      BY <2>1, SubSeqProperties
    <2>3. r = s
      BY <2>1, <2>2, SeqEqual
    <2> QED BY <2>3
  <1> QED BY <1>1, <1>2, SendIs

\* What nobody acknowledged is as settled as before.
LEMMA SettlesSame ==
    ASSUME settled' = settled, DOMAIN procs' = DOMAIN procs
    PROVE  Settles(settled', Asks') = Settles(settled, Asks)
  BY DEF Settles, Asks

\* What the promise sees of a process.
LEMMA AskGives ==
    ASSUME QueuesInv, NEW a \in Asks
    PROVE  /\ a \in AllAsks /\ a \in AsksOf(plan) /\ a \in DOMAIN procs /\ ProcOK(a) /\ QueueOK(a)
           /\ Gives(procs)[a] = Given(procs[a]) /\ Settles(settled, Asks)[a] = settled[a]
           /\ procs[a].at \in AtRest => Gives(procs)[a] = [message |-> 0, key |-> [kind |-> "none"]]
           /\ procs[a].at \in Holding =>
                  /\ Gives(procs)[a] # [message |-> 0, key |-> [kind |-> "none"]]
                  /\ Gives(procs)[a].message = procs[a].message
  <1>1. a \in AllAsks /\ a \in AsksOf(plan) /\ a \in DOMAIN procs /\ ProcOK(a) /\ QueueOK(a)
    BY AskIn DEF QueuesInv
  <1>2. Gives(procs)[a] = Given(procs[a]) /\ Settles(settled, Asks)[a] = settled[a]
    BY <1>1 DEF Gives, Settles, Asks
  <1>3. procs[a].at \in AtRest => Gives(procs)[a] = [message |-> 0, key |-> [kind |-> "none"]]
    BY <1>1, <1>2 DEF ProcOK, Given, Unparsed
  <1>4. ASSUME procs[a].at \in Holding
        PROVE  /\ Gives(procs)[a] # [message |-> 0, key |-> [kind |-> "none"]]
               /\ Gives(procs)[a].message = procs[a].message
    <2>1. procs[a].message \in DOMAIN sent
      BY <1>1, <1>4 DEF ProcOK
    <2>2. procs[a].message # 0
      BY <2>1, LengthIs
    <2> QED BY <1>2, <2>2 DEF Given
  <1> QED BY <1>1, <1>2, <1>3, <1>4

\* One lemma for each action: it is a step of the promise, or none.
LEMMA CallPromised == ASSUME QueuesInv, NEW a \in Asks, Call(a) \/ CallFails(a) PROVE Promised
  <1>1. PICK at \in AtRest : procs' = [procs EXCEPT ![a].at = at]
    BY DEF Call, CallFails, AtRest
  <1>2. a \in Callers /\ settled' = settled /\ plan' = plan
        /\ \/ Sends(plan.backend, CallOf(a).kind) /\ Put(CallOf(a))
           \/ sent' = sent
    BY DEF Call, CallFails
  <1>3. Gives(procs') = Gives(procs)
    <2>1. ProcOK(a)
      BY AskGives
    <2> PICK x : x = [procs[a] EXCEPT !.at = at]
      OBVIOUS
    <2>2. procs' = [procs EXCEPT ![a] = x] /\ x.message = procs[a].message /\ x.key = procs[a].key
      BY <1>1, <2>1 DEF ProcOK
    <2> QED BY <2>2, GivesTo
  <1>4. Settles(settled', Asks') = Settles(settled, Asks)
    BY <1>1, <1>2, SettlesSame
  <1>5. CASE Sends(plan.backend, CallOf(a).kind) /\ Put(CallOf(a))
    <2>1. IsQueue!Send
      BY <1>2, <1>4, <1>5, CallSendable, PutSends
    <2> QED BY <1>3, <2>1, PromisedIs
  <1>6. CASE sent' = sent
    BY <1>3, <1>4, <1>6, PromisedIs
  <1> QED BY <1>2, <1>5, <1>6

LEMMA NotifyPromised == ASSUME QueuesInv, NEW key \in plan.notices, Notify(key) PROVE Promised
  <1>1. Put(key) /\ UNCHANGED <<plan, procs, settled>>
    BY DEF Notify
  <1>2. key \in Sendable(plan)
    BY AsksAre, QueuesConstants, AmqpFormatsAre DEF Sendable, IsNotice, Sends, AmqpKinds
  <1>3. Settles(settled', Asks') = Settles(settled, Asks) /\ Gives(procs') = Gives(procs)
    BY <1>1, SettlesSame
  <1>4. IsQueue!Send
    BY <1>1, <1>2, <1>3, PutSends
  <1> QED BY <1>3, <1>4, PromisedIs

\* A step that leaves the promise where it is.
LEMMA RestPromised ==
    ASSUME QueuesInv, sent' = sent, settled' = settled,
           \/ procs' = procs
           \/ \E a \in Asks, at \in AtRest : procs' = [procs EXCEPT ![a].at = at]
    PROVE  Promised
  <1>1. CASE procs' = procs
    BY <1>1, SettlesSame, PromisedIs
  <1>2. CASE \E a \in Asks, at \in AtRest : procs' = [procs EXCEPT ![a].at = at]
    <2> PICK a \in Asks, at \in AtRest : procs' = [procs EXCEPT ![a].at = at]
      BY <1>2
    <2>1. ProcOK(a)
      BY AskGives
    <2> PICK x : x = [procs[a] EXCEPT !.at = at]
      OBVIOUS
    <2>2. procs' = [procs EXCEPT ![a] = x] /\ x.message = procs[a].message /\ x.key = procs[a].key
      BY <2>1 DEF ProcOK
    <2>3. Gives(procs') = Gives(procs)
      BY <2>2, GivesTo
    <2>4. DOMAIN procs' = DOMAIN procs
      OBVIOUS
    <2> QED BY <2>3, <2>4, SettlesSame, PromisedIs
  <1> QED BY <1>1, <1>2

\* A receive hands out a message, or is a step of the receiver alone.
LEMMA HandPromised ==
    ASSUME QueuesInv, NEW a \in Asks, procs[a].at = "ready", NEW i \in DOMAIN sent, i \notin settled[a],
           Wanted(plan, a, sent[i]), Hand(a, i), UNCHANGED <<plan, sent, settled>>,
           plan.backend = "memory" => i \notin kept'
    PROVE  Promised
  <1>1. /\ a \in AllAsks /\ a \in AsksOf(plan) /\ ProcOK(a) /\ Settles(settled, Asks)[a] = settled[a]
        /\ Gives(procs)[a] = [message |-> 0, key |-> [kind |-> "none"]]
    BY AskGives DEF AtRest
  <1>2. \/ /\ procs' = [procs EXCEPT ![a] = [at |-> "busy", message |-> i, key |-> sent[i]]]
           /\ \/ a.kind = "any"
              \/ a.kind = sent[i].kind /\ \A f \in DOMAIN a.names : sent[i].names[f] = a.names[f]
        \/ procs' = [procs EXCEPT ![a] = procs[a]]
        \/ procs' = [procs EXCEPT ![a].at = "done"]
    BY <1>1, HandIs
  <1>3. DOMAIN procs' = DOMAIN procs
    BY <1>2
  <1>4. Settles(settled', Asks') = Settles(settled, Asks)
    BY <1>3, SettlesSame
  <1>5. CASE /\ procs' = [procs EXCEPT ![a] = [at |-> "busy", message |-> i, key |-> sent[i]]]
             /\ \/ a.kind = "any"
                \/ a.kind = sent[i].kind /\ \A f \in DOMAIN a.names : sent[i].names[f] = a.names[f]
    <2> PICK x : x = [at |-> "busy", message |-> i, key |-> sent[i]]
      OBVIOUS
    <2>1. Gives(procs') = [Gives(procs) EXCEPT ![a] = Given(x)]
      BY <1>5, GivesTo
    <2>2. Given(x) = [message |-> i, key |-> sent[i]]
      BY DEF Given
    <2>3. IsQueue!Receive(a)
      BY <1>1, <1>4, <1>5, <2>1, <2>2, ReceiveIs
    <2> QED BY <1>1, <2>3, PromisedIs
  <1>6. CASE procs' = [procs EXCEPT ![a] = procs[a]]
    <2>1. Gives(procs') = Gives(procs)
      BY <1>6, GivesTo
    <2> QED BY <1>4, <2>1, PromisedIs
  <1>7. CASE procs' = [procs EXCEPT ![a].at = "done"]
    BY <1>7, RestPromised DEF AtRest
  <1> QED BY <1>2, <1>5, <1>6, <1>7

LEMMA FetchPromised ==
    ASSUME QueuesInv, NEW a \in Asks, NEW i \in DOMAIN sent,
           Fetch(a, i) \/ FetchAgain(a, i) \/ FetchDropped(a, i) \/ TakeKept(a, i)
    PROVE  Promised
  <1>1. QueueOK(a)
    BY AskGives
  <1>2. CASE Fetch(a, i)
    <2>1. /\ plan.backend # "memory" /\ procs[a].at = "ready" /\ i \in queues[a].todo /\ Hand(a, i)
          /\ UNCHANGED <<plan, sent, settled>>
      BY <1>2 DEF Fetch, Broker, Oldest
    <2>2. i \notin settled[a] /\ Wanted(plan, a, sent[i])
      BY <1>1, <2>1 DEF QueueOK
    <2> QED BY <2>1, <2>2, HandPromised
  <1>3. CASE FetchAgain(a, i)
    <2>1. /\ plan.backend # "memory" /\ procs[a].at = "ready" /\ i \in queues[a].owed /\ Hand(a, i)
          /\ UNCHANGED <<plan, sent, settled>>
      BY <1>3 DEF FetchAgain
    <2>2. i \notin settled[a] /\ Wanted(plan, a, sent[i])
      BY <1>1, <2>1 DEF QueueOK
    <2> QED BY <2>1, <2>2, HandPromised
  <1>4. CASE TakeKept(a, i)
    <2>1. /\ plan.backend = "memory" /\ procs[a].at = "ready" /\ i \in kept /\ Hand(a, i)
          /\ kept' = kept \ {i} /\ Wants(a, sent[i]) /\ UNCHANGED <<plan, sent, settled>>
      BY <1>4 DEF TakeKept, Broker
    <2>2. i \notin settled[a] /\ Wanted(plan, a, sent[i])
      BY <1>1, <2>1 DEF QueueOK, Wants, Wanted
    <2> QED BY <2>1, <2>2, HandPromised
  <1>5. CASE FetchDropped(a, i)
    BY <1>5, RestPromised DEF FetchDropped
  <1> QED BY <1>2, <1>3, <1>4, <1>5

\* A process that gives its message up, or keeps it.
LEMMA ReleasesIs ==
    ASSUME QueuesInv, NEW a \in Asks, NEW x, procs' = [procs EXCEPT ![a] = x],
           \/ x.message = 0 /\ x.key = Unparsed
           \/ x.message = procs[a].message /\ x.key = procs[a].key
    PROVE  Releases(a)
  <1>1. CASE x.message = 0 /\ x.key = Unparsed
    <2>1. Given(x) = [message |-> 0, key |-> [kind |-> "none"]]
      BY <1>1 DEF Given, Unparsed
    <2> QED BY <2>1, GivesTo DEF Releases
  <1>2. CASE x.message = procs[a].message /\ x.key = procs[a].key
    BY <1>2, GivesTo DEF Releases
  <1> QED BY <1>1, <1>2

LEMMA RespondPromised == ASSUME QueuesInv, NEW a \in Asks, Respond(a) \/ RespondFails(a) PROVE Promised
  <1>1. PICK next : /\ procs' = [procs EXCEPT ![a] = next]
                    /\ \/ next = After(a, IF AcksFirst(a) THEN "ready" ELSE "replied")
                       \/ next = Idle
    BY DEF Respond, RespondFails
  <1>2. MustAnswer(a) /\ settled' = settled /\ plan' = plan
        /\ (Put(Reply(procs[a].key)) \/ (sent' = sent /\ kept' = kept))
    BY DEF Respond, RespondFails
  <1>3. a \in AllAsks /\ ProcOK(a) /\ plan \in Plans
    BY AskGives, AsksAre
  <1>4. procs[a].at \in Holding /\ Answered(procs[a].key)
    BY <1>2 DEF MustAnswer, Holding
  <1>5. procs[a].key \in Sendable(plan)
    BY <1>3, <1>4, SeqElement DEF ProcOK, QueuesInv, SentOK
  <1>6. Reply(procs[a].key) \in Sendable(plan)
    BY <1>3, <1>4, <1>5, ReplySendable
  <1>7. SentGrows
    BY <1>2, <1>6, PutGrows DEF SentGrows
  <1>8. \/ next.message = 0 /\ next.key = Unparsed
        \/ next.message = procs[a].message /\ next.key = procs[a].key
    BY <1>1, <1>2, <1>7, AnswersIs
  <1>9. Releases(a)
    BY <1>1, <1>8, ReleasesIs
  <1>10. Settles(settled', Asks') = Settles(settled, Asks)
    BY <1>1, <1>2, SettlesSame
  <1>11. IsQueue!Send \/ sent' = sent
    BY <1>2, <1>6, <1>10, PutSends
  <1>12. IsQueue!Leave(a)
    BY <1>3, <1>9, <1>10, <1>11, LeaveIs
  <1> QED BY <1>3, <1>12, PromisedIs

LEMMA AckPromised == ASSUME QueuesInv, NEW a \in Asks, Ack(a) PROVE Promised
  <1> PICK next : next = IF AfterAck(a) = "done" THEN [Idle EXCEPT !.at = "done"] ELSE After(a, AfterAck(a))
    OBVIOUS
  <1>1. /\ AtAck(a) /\ UNCHANGED <<plan, sent, kept>> /\ procs' = [procs EXCEPT ![a] = next]
        /\ \/ settled' = [settled EXCEPT ![a] =
                 IF procs[a].message \in queues[a].owed \/ ~Broker THEN @ \cup {procs[a].message} ELSE @]
           \/ settled' = settled
    BY DEF Ack
  <1>2. SentGrows
    BY <1>1 DEF SentGrows
  <1>3. /\ procs[a].at \in Holding
        /\ \/ procs'[a].message = 0 /\ procs'[a].key = Unparsed
           \/ procs'[a].message = procs[a].message /\ procs'[a].key = procs[a].key
    BY <1>1, <1>2, AckProc
  <1>4. /\ a \in AllAsks /\ a \in AsksOf(plan) /\ a \in DOMAIN procs /\ Settles(settled, Asks)[a] = settled[a]
        /\ Gives(procs)[a] # [message |-> 0, key |-> [kind |-> "none"]]
        /\ Gives(procs)[a].message = procs[a].message
    BY <1>3, AskGives
  <1>5. procs'[a] = next /\ DOMAIN procs' = DOMAIN procs
    BY <1>1, <1>4
  <1>6. Releases(a)
    BY <1>1, <1>3, <1>5, ReleasesIs
  <1>7. \/ Settles(settled', Asks') = Settles(settled, Asks)
        \/ Settles(settled', Asks') = [Settles(settled, Asks) EXCEPT ![a] = @ \cup {Gives(procs)[a].message}]
    <2> PICK S : S = IF procs[a].message \in queues[a].owed \/ ~Broker
                     THEN settled[a] \cup {procs[a].message} ELSE settled[a]
      OBVIOUS
    <2>1. CASE settled' = settled
      BY <1>5, <2>1, SettlesSame
    <2>2. CASE settled' = [settled EXCEPT ![a] = S]
      <3>1. Asks' = Asks /\ a \in Asks /\ Asks = DOMAIN settled
        BY <1>4, <1>5, AskIn DEF Asks, QueuesInv, SentOK
      <3>2. Settles(settled', Asks') = [Settles(settled, Asks) EXCEPT ![a] = S]
        BY <1>4, <2>2, <3>1 DEF Settles
      <3>3. CASE S = settled[a]
        <4>1. Settles(settled', Asks') = Settles(settled, Asks)
          BY <2>2, <3>1, <3>3 DEF Settles
        <4> QED BY <4>1
      <3>4. CASE S = settled[a] \cup {procs[a].message}
        BY <1>4, <3>2, <3>4
      <3> QED BY <3>3, <3>4
    <2> QED BY <1>1, <2>1, <2>2
  <1>8. IsQueue!Acknowledge(a)
    BY <1>1, <1>4, <1>6, <1>7, AcknowledgeIs
  <1> QED BY <1>4, <1>8, PromisedIs

LEMMA CrashPromised == ASSUME QueuesInv, NEW a \in Asks, Crash(a) PROVE Promised
  <1>1. procs' = [procs EXCEPT ![a] = Idle] /\ sent' = sent /\ settled' = settled
    BY DEF Crash
  <1>2. a \in AllAsks
    BY AskGives
  <1>3. Releases(a)
    BY <1>1, ReleasesIs DEF Idle
  <1>4. Settles(settled', Asks') = Settles(settled, Asks)
    BY <1>1, SettlesSame
  <1>5. IsQueue!Leave(a)
    BY <1>1, <1>2, <1>3, <1>4, LeaveIs
  <1> QED BY <1>2, <1>5, PromisedIs

LEMMA ExpirePromised == ASSUME QueuesInv, NEW a \in Asks, Expire(a) PROVE Promised
  <1>1. settled' = [settled EXCEPT ![a] = {}] /\ procs' = procs /\ sent' = sent
    BY DEF Expire
  <1>2. a \in AllAsks /\ Asks = DOMAIN settled /\ Asks' = Asks
    BY <1>1, AskIn, AskGives DEF QueuesInv, SentOK, Asks
  <1>3. Settles(settled', Asks') = [Settles(settled, Asks) EXCEPT ![a] = {}]
    <2> PICK none : none = {}
      OBVIOUS
    <2>1. settled' = [settled EXCEPT ![a] = none]
      BY <1>1
    <2>2. Settles(settled', Asks') = [Settles(settled, Asks) EXCEPT ![a] = none]
      BY <1>2, <2>1 DEF Settles
    <2> QED BY <2>2
  <1>4. Gives(procs') = Gives(procs)
    BY <1>1
  <1>5. IsQueue!Forget(a)
    BY <1>1, <1>2, <1>3, <1>4, ForgetIs
  <1> QED BY <1>2, <1>5, PromisedIs

\* Every step of a process is one of the promise,
LEMMA ProcessPromised == ASSUME QueuesInv, NEW a \in Asks, Process(a) PROVE Promised
  <1>1. CASE Call(a) \/ CallFails(a)
    BY <1>1, CallPromised
  <1>2. CASE Declare(a)
    BY <1>2, RestPromised DEF Declare
  <1>3. ASSUME NEW i \in DOMAIN sent, Fetch(a, i) \/ FetchDropped(a, i) \/ FetchAgain(a, i) \/ TakeKept(a, i)
        PROVE  Promised
    BY <1>3, FetchPromised
  <1>4. CASE TimesOut(a) \/ ReceiveFails(a)
    BY <1>4, RestPromised DEF TimesOut, ReceiveFails, GivesUp, AtRest
  <1>5. CASE Start(a)
    BY <1>5, RestPromised DEF Start, AtRest
  <1>6. CASE Respond(a) \/ RespondFails(a)
    BY <1>6, RespondPromised
  <1>7. CASE Ack(a)
    BY <1>7, AckPromised
  <1>8. CASE Crash(a)
    BY <1>8, CrashPromised
  <1>9. CASE Expire(a)
    BY <1>9, ExpirePromised
  <1> QED BY <1>1, <1>2, <1>3, <1>4, <1>5, <1>6, <1>7, <1>8, <1>9 DEF Process

\* and so is every step.
LEMMA NextPromised == ASSUME QueuesInv, [QueuesNext]_queuesVars PROVE [IsQueue!Next]_IsQueue!vars
  <1>1. CASE \E a \in Asks : Process(a)
    BY <1>1, ProcessPromised DEF Promised
  <1>2. CASE \E key \in plan.notices : Notify(key)
    BY <1>2, NotifyPromised DEF Promised
  <1>3. CASE Discard
    <2>1. Promised
      BY <1>3, RestPromised DEF Discard
    <2> QED BY <2>1 DEF Promised
  <1>4. CASE UNCHANGED queuesVars
    <2>1. Promised
      BY <1>4, RestPromised DEF queuesVars
    <2> QED BY <2>1 DEF Promised
  <1> QED BY <1>1, <1>2, <1>3, <1>4 DEF QueuesNext

\* The initial states are those of the promise.
LEMMA InitPromised == ASSUME QueuesInit PROVE IsQueue!Init
  <1>1. Asks = AsksOf(plan) /\ \A a \in Asks : procs[a] = Idle /\ settled[a] = {}
    BY DEF QueuesInit, Asks
  <1>2. Given(Idle) = [message |-> 0, key |-> [kind |-> "none"]]
    BY DEF Given, Idle, Unparsed
  <1> QED BY <1>1, <1>2 DEF QueuesInit, IsQueue!Init, IsQueue!Nobody

(* The NATS, AMQP and in-memory queues implement the message queue: whoever is handed a message asked *)
(* for it and is told the key it was sent under, whatever is formatted, filtered and parsed between,  *)
(* and nobody is handed what it has acknowledged (MessageQueue, the traits of queue/mod.rs).          *)
THEOREM QueuesKeepPromise == QueuesSpec => KeepsPromise
  BY InitPromised, NextPromised, QueuesInvariant, PTL DEF QueuesSpec, KeepsPromise, IsQueue!Spec
==============================================================================
