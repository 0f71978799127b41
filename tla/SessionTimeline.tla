--------------------------- MODULE SessionTimeline ---------------------------
(***************************************************************************)
(* Sessions, branches and the content-addressed DAG of messages: what the  *)
(* CLI commands `agent run', `session ensure', `session fork' and          *)
(* `session promote', the harness and the RecordingQueue outbox do to the  *)
(* shared DagStore.                                                        *)
(*                                                                         *)
(* Every command is a client of the store and talks to it in separate gRPC *)
(* calls, so each call is a step of its own here and the calls of several  *)
(* commands interleave freely.  A command keeps what it has read in its    *)
(* context ctx[c] and acts on it later, however stale it is by then.  No   *)
(* fairness is assumed: a client that never moves again is a crashed one.  *)
(*                                                                         *)
(* Identifiers: a DAG node is its position in `dag' (insertion order, which*)
(* is also the order of created_at), 0 is DagNodeId::root().  A branch id  *)
(* is its position in `branches' (AUTOINCREMENT).                          *)
(***************************************************************************)
EXTENDS Naturals, Sequences

CONSTANTS Clients,      \* concurrently running CLI commands
          Sessions,     \* session ids (UUIDs)
          NoSession,
          ExternalIds,  \* user-supplied session names
          ForkNames,    \* branch names a user passes to `session fork'
          SealedNames,  \* names broken-<timestamp>, one per second
          MainName,     \* "main"
          StateHashes,  \* KV state commits an agent can end a turn with
          NoState,      \* message without a state: None or the empty string
          MaxNodes,     \* bound: recorded DAG nodes
          MaxBranches   \* bound: created branches

ASSUME SentinelsDistinct ==
    /\ NoSession \notin Sessions
    /\ NoState \notin StateHashes
    /\ MaxNodes \in Nat
    /\ MaxBranches \in Nat

VARIABLES dag,       \* table dag_nodes with its typed message tables
          branches,  \* table branches
          default,   \* sessions.default_branch; 0 = no row for this session
          external,  \* unique index on sessions.external_id: the holder of each
          pc,        \* what each client does next
          ctx        \* what each client has read or chosen so far

vars == <<dag, branches, default, external, pc, ctx>>

Names == {MainName} \cup ForkNames \cup SealedNames
MaybeState == StateHashes \cup {NoState}
root == 0

NodeType == {"invoke", "complete", "fork", "promote"}

\* A DAG node: the Merkle fields, the routing columns and the state the typed
\* message carries.  The snapshot column is the subject of MessageStore.
Node == [type: NodeType, session: Sessions, branch: Nat, parent: Nat,
         body: Nat, state: MaybeState]

\* What the hash covers besides parent, type and session.  An invoke is hashed
\* with its fresh message id; a fork and a promote with nothing; a complete with
\* the agent's output or with the error text of a failed dispatch.
EmptyBody == 0
ErrorBody == 0
OutputBody == 1
FreshBody == Len(dag) + 1

Branch == [name: Names, session: Sessions, fork_point: Nat, sealed: BOOLEAN]

Context == [session: Sessions \cup {NoSession}, branch: Nat, parent: Nat,
            state: MaybeState, sent: Nat, old: Nat,
            name: Names \cup ExternalIds, repl: BOOLEAN]

NoContext == [session |-> NoSession, branch |-> 0, parent |-> root,
              state |-> NoState, sent |-> root, old |-> 0, name |-> MainName,
              repl |-> FALSE]

PC == {"idle",
       "starting", "registered", "branched",            \* start_session
       "tip", "harnessTip", "ready", "waiting",         \* agent run
       "forking", "forked",                             \* session fork
       "promoting", "lookup", "seal", "renameOld", "renameNew", "setDefault"}

-----------------------------------------------------------------------------
(* The store: reads *)

Registered(s) == default[s] # 0
BranchIds == DOMAIN branches

\* get_branch_by_name: SELECT ... WHERE name = ? LIMIT 1, over all sessions and
\* without an order, so any branch of that name may be the row returned.
BranchesNamed(name) == {b \in BranchIds : branches[b].name = name}

NodesOn(b) == {n \in DOMAIN dag : dag[n].branch = b}

\* latest_node_on_branch: the newest by created_at, if there is one.  An Option
\* of the code is a set of at most one element here.
LatestOn(b) == {n \in NodesOn(b) : \A m \in NodesOn(b) : m <= n}
OrElse(option, value) == IF option = {} THEN {value} ELSE option

\* The state a node's own message carries; only invoke and complete have one.
MessageState(n) == IF n \in DOMAIN dag /\ dag[n].type \in {"invoke", "complete"}
                   THEN dag[n].state ELSE NoState

-----------------------------------------------------------------------------
(* The store: writes *)

\* hash_dag_node covers payload, parent, type, diagnostics and session, and
\* neither the branch nor the state of a complete.
SameHash(m, n) == /\ m.type = n.type
                  /\ m.body = n.body
                  /\ m.parent = n.parent
                  /\ m.session = n.session

\* Mutant: foreign keys are not enforced (SQLite's own default).
InsertedUnchecked(n) == \A m \in DOMAIN dag : ~SameHash(dag[m], n)

\* INSERT OR IGNORE: a second node of the same hash is dropped, and a foreign
\* key that names no row makes the insert fail, which is only logged.
Inserted(n) == /\ Registered(n.session)
               /\ n.branch \in BranchIds
               /\ \A m \in DOMAIN dag : ~SameHash(dag[m], n)

Record(n) == dag' = IF Inserted(n) THEN Append(dag, n) ELSE dag

\* A node recorded under parent p.
NewNode(type, s, b, p, body, st) ==
    [type |-> type, session |-> s, branch |-> b,
     parent |-> p, body |-> body, state |-> st]

\* UNIQUE(name, session_id) on the branches table.
NameFree(name, s) == \A b \in BranchIds : ~(branches[b].name = name /\ branches[b].session = s)

NewBranch(name, s, fork) ==
    [name |-> name, session |-> s, fork_point |-> fork, sealed |-> FALSE]

\* Mutant: the row is written anew under its new name.
RenameByRewrite(b, name) ==
    branches' = [branches EXCEPT ![b] = NewBranch(name, @.session, @.fork_point)]

Rename(b, name) ==
    branches' = IF branches[b].name = name \/ NameFree(name, branches[b].session)
                THEN [branches EXCEPT ![b].name = name] ELSE branches

Seal(b) == branches' = [branches EXCEPT ![b].sealed = TRUE]

\* The bounds of the model.
NodeRoom == Len(dag) < MaxNodes
BranchRoom == Len(branches) < MaxBranches

Goto(c, label, context) == /\ pc' = [pc EXCEPT ![c] = label]
                           /\ ctx' = [ctx EXCEPT ![c] = context]
Finish(c) == Goto(c, "idle", NoContext)

-----------------------------------------------------------------------------
(* start_session: `agent run' without --session, `session ensure', fleet run *)

\* `session ensure' looks the external id up; `agent run' takes a fresh one.
EnsureSession(c, e) ==
    /\ pc[c] = "idle"
    /\ external[e] = NoSession
    /\ Goto(c, "starting", [NoContext EXCEPT !.name = e])
    /\ UNCHANGED <<dag, branches, default, external>>

\* A fresh session id; the row is ignored when the external id is taken by now.
\* The row's default branch is the placeholder 1 until UpdateDefault.
CreateSession(c, s) ==
    /\ pc[c] = "starting"
    /\ ~Registered(s)
    /\ \A d \in Clients : ctx[d].session # s
    /\ IF external[ctx[c].name] = NoSession
       THEN /\ external' = [external EXCEPT ![ctx[c].name] = s]
            /\ default' = [default EXCEPT ![s] = 1]
       ELSE UNCHANGED <<external, default>>
    /\ Goto(c, "registered", [NoContext EXCEPT !.session = s])
    /\ UNCHANGED <<dag, branches>>

\* The branch row needs its session row; on an error the branch is taken to be 1.
CreateMain(c) ==
    LET s == ctx[c].session IN
    /\ pc[c] = "registered"
    /\ BranchRoom
    /\ IF Registered(s) /\ NameFree(MainName, s)
       THEN /\ branches' = Append(branches, NewBranch(MainName, s, root))
            /\ Goto(c, "branched", [ctx[c] EXCEPT !.branch = Len(branches) + 1])
       ELSE /\ Goto(c, "branched", [ctx[c] EXCEPT !.branch = 1])
            /\ UNCHANGED branches
    /\ UNCHANGED <<dag, default, external>>

\* `agent run' then runs from the root of its new session.
UpdateDefault(c, repl) ==
    LET s == ctx[c].session IN
    /\ pc[c] = "branched"
    /\ default' = IF Registered(s) THEN [default EXCEPT ![s] = ctx[c].branch] ELSE default
    /\ Goto(c, "ready", [ctx[c] EXCEPT !.repl = repl])
    /\ UNCHANGED <<dag, branches, external>>

-----------------------------------------------------------------------------
(* agent run: resolve the branch, read its tip, then invoke and await *)

\* --session: the session's default branch, refused when it is sealed.  The
\* CLI and run_agent_with_messages look the branch up alike.
ResolveDefault(c, s, label) ==
    /\ pc[c] = "idle"
    /\ default[s] \in BranchIds
    /\ ~branches[default[s]].sealed
    /\ Goto(c, label, [NoContext EXCEPT !.session = s, !.branch = default[s]])
    /\ UNCHANGED <<dag, branches, default, external>>

\* --branch: any branch of that name, with the session it belongs to.
ResolveBranch(c, b) ==
    /\ pc[c] = "idle"
    /\ ~branches[b].sealed
    /\ Goto(c, "tip", [NoContext EXCEPT !.session = branches[b].session, !.branch = b])
    /\ UNCHANGED <<dag, branches, default, external>>

\* resolve_branch_tip: continue from the tip, else from the fork point, with the
\* state of that node.  The REPL keeps this context for all its turns.
ReadTip(c, repl) ==
    LET b == ctx[c].branch IN
    /\ pc[c] = "tip"
    /\ \E p \in OrElse(LatestOn(b), branches[b].fork_point) :
         Goto(c, "ready", [ctx[c] EXCEPT !.parent = p, !.state = MessageState(p), !.repl = repl])
    /\ UNCHANGED <<dag, branches, default, external>>

\* resolve_session_context of the harness: as above, but no state from a fork point.
ReadTipInHarness(c) ==
    LET b == ctx[c].branch IN
    /\ pc[c] = "harnessTip"
    /\ \E p \in OrElse(LatestOn(b), branches[b].fork_point) :
         Goto(c, "ready", [ctx[c] EXCEPT !.parent = p,
                           !.state = IF LatestOn(b) = {} THEN NoState ELSE MessageState(p)])
    /\ UNCHANGED <<dag, branches, default, external>>

\* Mutant: the parent is always looked up, also when the client has one.
SendInvokeFromTip(c) ==
    LET x == ctx[c] IN
    /\ pc[c] = "ready"
    /\ NodeRoom
    /\ \E p \in OrElse(LatestOn(x.branch), root) :
         LET n == NewNode("invoke", x.session, x.branch, p, FreshBody, x.state) IN
         /\ Record(n)
         /\ Goto(c, "waiting", [x EXCEPT !.sent = IF Inserted(n) THEN Len(dag) + 1 ELSE root])
    /\ UNCHANGED <<branches, default, external>>

\* send_invoke: record, then publish.  Without a dag_parent the parent is looked
\* up on the branch.
SendInvoke(c) ==
    LET x == ctx[c]
        parents == IF x.parent = root THEN OrElse(LatestOn(x.branch), root) ELSE {x.parent}
    IN  /\ pc[c] = "ready"
        /\ NodeRoom
        /\ \E p \in parents :
             LET n == NewNode("invoke", x.session, x.branch, p, FreshBody, x.state) IN
             /\ Record(n)
             /\ Goto(c, "waiting", [x EXCEPT !.sent = IF Inserted(n) THEN Len(dag) + 1 ELSE root])
        /\ UNCHANGED <<branches, default, external>>

\* What the client does once the complete has arrived.
Return(c) == \/ ctx[c].repl /\ Goto(c, "ready", [ctx[c] EXCEPT !.sent = root])
             \/ Finish(c)

\* Mutant: the invoke is redelivered and the agent answers it once more.
CompleteTurnAgain(c, st) ==
    /\ pc[c] = "waiting"
    /\ NodeRoom
    /\ \E body \in {OutputBody, OutputBody + 1} :
         Record(NewNode("complete", ctx[c].session, ctx[c].branch, ctx[c].sent, body, st))
    /\ Return(c) \/ UNCHANGED <<pc, ctx>>
    /\ UNCHANGED <<branches, default, external>>

\* The agent ran: its complete hangs off the invoke (its service calls are left
\* to module ProviderChain).  A state, once seeded, is only ever replaced.
CompleteTurn(c, st) ==
    /\ pc[c] = "waiting"
    /\ NodeRoom
    /\ ctx[c].state # NoState => st # NoState
    /\ Record(NewNode("complete", ctx[c].session, ctx[c].branch, ctx[c].sent, OutputBody, st))
    /\ Return(c)
    /\ UNCHANGED <<branches, default, external>>

\* The dispatch failed: the sidecar answers "[error] ...", without state or parent.
FailTurn(c) ==
    /\ pc[c] = "waiting"
    /\ NodeRoom
    /\ Record(NewNode("complete", ctx[c].session, ctx[c].branch, root, ErrorBody, NoState))
    /\ Return(c)
    /\ UNCHANGED <<branches, default, external>>

\* The user leaves, or `session ensure' is done.
Leave(c) == /\ pc[c] = "ready"
            /\ Finish(c)
            /\ UNCHANGED <<dag, branches, default, external>>

-----------------------------------------------------------------------------
(* session fork *)

\* find_agent_name: fork and promote need an invoke in the session.
HasInvoke(s) == \E n \in DOMAIN dag : dag[n].session = s /\ dag[n].type = "invoke"

\* The CLI checks that the node is of the session the user named.
Fork(c, s, n, name) ==
    /\ pc[c] = "idle"
    /\ dag[n].session = s
    /\ HasInvoke(s)
    /\ Goto(c, "forking", [NoContext EXCEPT !.session = s, !.parent = n, !.name = name])
    /\ UNCHANGED <<dag, branches, default, external>>

\* record_fork: the branch column is looked up by name before the branch exists,
\* and is 1 when no branch has that name.
RecordFork(c) ==
    LET x == ctx[c] IN
    /\ pc[c] = "forking"
    /\ NodeRoom
    /\ \E b \in OrElse(BranchesNamed(x.name), 1) :
         Record(NewNode("fork", x.session, b, x.parent, EmptyBody, NoState))
    /\ Goto(c, "forked", x)
    /\ UNCHANGED <<branches, default, external>>

CreateForkBranch(c) ==
    LET x == ctx[c] IN
    /\ pc[c] = "forked"
    /\ BranchRoom
    /\ branches' = IF NameFree(x.name, x.session)
                   THEN Append(branches, NewBranch(x.name, x.session, x.parent))
                   ELSE branches
    /\ Finish(c)
    /\ UNCHANGED <<dag, default, external>>

-----------------------------------------------------------------------------
(* session promote *)

\* Mutant: the branch found by name is taken for one of the session.
PromoteAnyBranch(c, s, b) ==
    /\ pc[c] = "idle"
    /\ HasInvoke(s)
    /\ Goto(c, "promoting", [NoContext EXCEPT !.session = s, !.branch = b])
    /\ UNCHANGED <<dag, branches, default, external>>

\* The CLI checks that the branch it found by name is of the named session.
Promote(c, s, b) ==
    /\ pc[c] = "idle"
    /\ branches[b].session = s
    /\ HasInvoke(s)
    /\ Goto(c, "promoting", [NoContext EXCEPT !.session = s, !.branch = b])
    /\ UNCHANGED <<dag, branches, default, external>>

RecordPromote(c) ==
    LET x == ctx[c] IN
    /\ pc[c] = "promoting"
    /\ NodeRoom
    /\ \E p \in OrElse(LatestOn(x.branch), root) :
         Record(NewNode("promote", x.session, x.branch, p, EmptyBody, NoState))
    /\ Goto(c, "lookup", x)
    /\ UNCHANGED <<branches, default, external>>

\* Mutant: any session's main is taken for this session's.
LookupAnyMain(c) ==
    LET x == ctx[c] IN
    /\ pc[c] = "lookup"
    /\ \E m \in OrElse(BranchesNamed(MainName), 0) :
         IF m # 0 THEN Goto(c, "seal", [x EXCEPT !.old = m]) ELSE Goto(c, "renameNew", x)
    /\ UNCHANGED <<dag, branches, default, external>>

\* The branch found under the name "main" counts only if it is of this session.
LookupMain(c) ==
    LET x == ctx[c] IN
    /\ pc[c] = "lookup"
    /\ \E m \in OrElse(BranchesNamed(MainName), 0) :
         IF m # 0 /\ branches[m].session = x.session
         THEN Goto(c, "seal", [x EXCEPT !.old = m])
         ELSE Goto(c, "renameNew", x)
    /\ UNCHANGED <<dag, branches, default, external>>

SealMain(c) ==
    /\ pc[c] = "seal"
    /\ Seal(ctx[c].old)
    /\ Goto(c, "renameOld", ctx[c])
    /\ UNCHANGED <<dag, default, external>>

\* Mutant: the promote only moves the default once the old main is renamed.
RenameMainOnly(c, name) ==
    /\ pc[c] = "renameOld"
    /\ Rename(ctx[c].old, name)
    /\ Goto(c, "setDefault", ctx[c])
    /\ UNCHANGED <<dag, default, external>>

\* The sealed name carries the second of the promote.
RenameMain(c, name) ==
    /\ pc[c] = "renameOld"
    /\ Rename(ctx[c].old, name)
    /\ Goto(c, "renameNew", ctx[c])
    /\ UNCHANGED <<dag, default, external>>

RenamePromoted(c) ==
    /\ pc[c] = "renameNew"
    /\ Rename(ctx[c].branch, MainName)
    /\ Goto(c, "setDefault", ctx[c])
    /\ UNCHANGED <<dag, default, external>>

\* Mutant: the default is kept as a branch name.
SetDefaultByName(c) ==
    /\ pc[c] = "setDefault"
    /\ default' = [default EXCEPT ![ctx[c].session] = branches[ctx[c].branch].name]
    /\ Finish(c)
    /\ UNCHANGED <<dag, branches, external>>

SetDefault(c) ==
    /\ pc[c] = "setDefault"
    /\ default' = [default EXCEPT ![ctx[c].session] = ctx[c].branch]
    /\ Finish(c)
    /\ UNCHANGED <<dag, branches, external>>

-----------------------------------------------------------------------------
Init == /\ dag = <<>>
        /\ branches = <<>>
        /\ default = [s \in Sessions |-> 0]
        /\ external = [e \in ExternalIds |-> NoSession]
        /\ pc = [c \in Clients |-> "idle"]
        /\ ctx = [c \in Clients |-> NoContext]

StartSession(c) == \/ \E e \in ExternalIds : EnsureSession(c, e)
                   \/ \E s \in Sessions : CreateSession(c, s)
                   \/ CreateMain(c)
                   \/ \E repl \in BOOLEAN : UpdateDefault(c, repl)

RunAgent(c) == \/ \E s \in Sessions, label \in {"tip", "harnessTip"} : ResolveDefault(c, s, label)
               \/ \E b \in BranchIds : ResolveBranch(c, b)
               \/ \E repl \in BOOLEAN : ReadTip(c, repl)
               \/ ReadTipInHarness(c)
               \/ SendInvoke(c)
               \/ \E st \in MaybeState : CompleteTurn(c, st)
               \/ FailTurn(c)
               \/ Leave(c)

ForkTimeline(c) ==
    \/ \E s \in Sessions, n \in DOMAIN dag, name \in ForkNames : Fork(c, s, n, name)
    \/ RecordFork(c)
    \/ CreateForkBranch(c)

PromoteTimeline(c) == \/ \E s \in Sessions, b \in BranchIds : Promote(c, s, b)
                      \/ RecordPromote(c)
                      \/ LookupMain(c)
                      \/ SealMain(c)
                      \/ \E name \in SealedNames : RenameMain(c, name)
                      \/ RenamePromoted(c)
                      \/ SetDefault(c)

Next == \E c \in Clients :
            StartSession(c) \/ RunAgent(c) \/ ForkTimeline(c) \/ PromoteTimeline(c)

Spec == Init /\ [][Next]_vars

-----------------------------------------------------------------------------
(* Properties *)

\* Every variable has its type.
TypeOK == /\ dag \in Seq(Node)
          /\ branches \in Seq(Branch)
          /\ default \in [Sessions -> Nat]
          /\ external \in [ExternalIds -> Sessions \cup {NoSession}]
          /\ pc \in [Clients -> PC]
          /\ ctx \in [Clients -> Context]

\* Every id a row stores names an existing row, and a node is younger than its
\* parent: the foreign keys, and no cycle in the Merkle chain.
References ==
    /\ \A n \in DOMAIN dag : /\ dag[n].parent \in 0..(n - 1)
                             /\ dag[n].branch \in BranchIds
                             /\ Registered(dag[n].session)
    /\ \A b \in BranchIds : /\ branches[b].fork_point \in 0..Len(dag)
                             /\ Registered(branches[b].session)

\* A node filed under a branch of another session.
Foreign(n) == branches[dag[n].branch].session # dag[n].session

\* Messages are filed on branches of their own session, with two exceptions that
\* the fallbacks of the code make: a fork node, whose branch is looked up by
\* name across sessions before it exists, and branch 1, the placeholder that
\* start_session uses until the session's own branch is known.
LeakConfined ==
    \A n \in DOMAIN dag : Foreign(n) => dag[n].type = "fork" \/ dag[n].branch = 1

\* Following parent_hash one leaves a session only at a node that is itself filed
\* on a foreign branch: no other read of the store mixes sessions.
SessionChange ==
    \A n \in DOMAIN dag :
        LET p == dag[n].parent IN
        p # root /\ dag[p].session # dag[n].session => Foreign(n) \/ Foreign(p)

\* A branch is forked from a node of its own session, whichever session's branch
\* that node is filed on (the CLI checks the node, not its branch).
ForkPointOfSession ==
    \A b \in BranchIds :
        branches[b].fork_point # root => dag[branches[b].fork_point].session = branches[b].session

\* A session's default branch is its own, or still the placeholder.
DefaultOfSession ==
    \A s \in Sessions :
        \/ default[s] \in {0, 1}
        \/ default[s] \in BranchIds /\ branches[default[s]].session = s

\* An agent is never started from a state taken from elsewhere in the DAG than
\* the node it continues: dag_parent and initial_state stem from one node,
\* through the REPL's cached context as well.
StateFromParent ==
    \A n \in DOMAIN dag :
        dag[n].type = "invoke" /\ dag[n].state # NoState =>
            dag[n].parent # root /\ MessageState(dag[n].parent) = dag[n].state

\* The name "main" is never lost: a session that got its main branch has a branch
\* of that name whatever promotes overlap or stop half-way, except between the
\* two renames of a promote (which a crash leaves open).
MainNameKept ==
    \A b \in BranchIds :
        branches[b].fork_point = root =>
            \/ ~NameFree(MainName, branches[b].session)
            \/ \E c \in Clients : pc[c] = "renameNew" /\ ctx[c].session = branches[b].session

\* A turn is answered at most once: no two completes hang off one invoke, even
\* though identical completes are told apart only by their parent.
OneCompletePerInvoke ==
    \A m, n \in DOMAIN dag :
        /\ dag[m].type = "complete" /\ dag[n].type = "complete"
        /\ dag[m].parent = dag[n].parent /\ dag[m].parent # root
        => m = n

\* What a client has read stays true of the store for as long as it acts on it,
\* whatever other clients do meanwhile: ids name rows of the client's session,
\* but for the placeholder branch 1 and for a parent reached through a branch
\* that two sessions share; the state is the one of the parent.
Consistent(label, x) ==
    /\ label \notin {"idle", "starting"} => x.session \in Sessions
    /\ \/ x.branch \in {0, 1}
       \/ x.branch \in BranchIds /\ branches[x.branch].session = x.session
    /\ label \in {"registered", "branched"} => x.parent = root
    /\ label \in {"branched", "ready", "waiting"} => x.branch # 0
    /\ label \in {"tip", "harnessTip"} => x.branch \in BranchIds
    /\ x.parent # root =>
         /\ x.parent \in DOMAIN dag
         /\ \/ dag[x.parent].session = x.session
            \/ Foreign(x.parent)
            \/ x.branch \in BranchIds /\ branches[x.branch].session # x.session
    /\ label \in {"forking", "forked"} =>
         x.parent \in DOMAIN dag /\ dag[x.parent].session = x.session /\ x.name \in ForkNames
    /\ x.state # NoState => x.parent # root /\ MessageState(x.parent) = x.state
    /\ x.sent # root => x.sent \in DOMAIN dag /\ dag[x.sent].session = x.session
    /\ label \in {"promoting", "lookup", "seal", "renameOld", "renameNew", "setDefault"} =>
         x.branch \in BranchIds /\ branches[x.branch].session = x.session
    /\ label \in {"seal", "renameOld"} =>
         x.old \in BranchIds /\ branches[x.old].session = x.session

ClientsOK == \A c \in Clients : Consistent(pc[c], ctx[c])

\* The store is an append-only ledger of content-addressed messages whose
\* timelines are never moved, deleted or unsealed; names and default branches
\* are pointers beside it (docs/time-travel-demo.md: "sealed, never deleted").
timelines == [b \in BranchIds |-> [session |-> branches[b].session,
                                    fork_point |-> branches[b].fork_point,
                                    sealed |-> branches[b].sealed]]
Ledger == INSTANCE TimelineLedger WITH nodes <- dag
IsLedger == Ledger!LedgerSpec
=============================================================================
