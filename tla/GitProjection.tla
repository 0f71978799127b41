---------------------------- MODULE GitProjection ----------------------------
(***************************************************************************)
(* The git projection: run_dag_git_worker takes every message of the       *)
(* stream, the handlers of GitDagWorker commit it to the conversations     *)
(* repository, and only then is it acknowledged.                           *)
(*                                                                         *)
(* The worker keeps nothing between two messages: the number and the       *)
(* canonical parent of a message are read from the tree of HEAD.  Fork and *)
(* promote move branches after their commit, in steps of their own.        *)
(***************************************************************************)
EXTENDS JetStream, SequencesExt

CONSTANTS Pools,     \* bound: sets of workers; workers.dag_git of them, each in a thread
          Streams,   \* bound: what the stream may hold
          Limit,     \* bound: the largest number of three digits (999)
          Names,     \* bound: the names that sealed branches get, one per second
          MaxFaults  \* bound: stops and lost acknowledgements

Data == {"invoke", "complete", "request", "response", "svc_request", "svc_response"}
Kinds == Data \cup {"fork", "promote"}

ASSUME GitProjectionConstants ==
    /\ \A pool \in Pools : IsFiniteSet(pool)
    /\ Limit \in Nat \ {0} /\ MaxFaults \in Nat
    /\ Names \in Seq(STRING) /\ "main" \notin ToSet(Names)
    /\ \A s \in Streams : /\ s \in Seq(ToSet(s))
                         /\ \A i \in DOMAIN s : s[i].kind \in Kinds

VARIABLES commits,  \* commits in the order they were made; the first is the empty one
          refs,     \* the branches
          head,     \* the branch that HEAD names
          tree,     \* the tree of HEAD's commit; the others are not read
          worktree, \* the commit that is checked out
          workers,  \* what each worker of the pool does, for which message
          lost,     \* messages whose commit was refused
          faults

vars == <<log, consumers, commits, refs, head, tree, worktree, workers, lost, faults>>

All == [kind |-> "any", run |-> 0] \* the consumer of "vlinder.>", which the workers share
Workers == DOMAIN workers
Idle == [at |-> "idle", msg |-> 0, base |-> 0, commit |-> 0]

\* The map with one entry written, which may be a new one.
With(map, key, value) ==
    [k \in DOMAIN map \cup {key} |-> IF k = key THEN value ELSE map[k]]

\* A message directory lies under its agent and session.
Place(m) == <<m.agent, m.run>>
Sealed(second) == Names[second] \* broken-<date>-<time>
Seconds == DOMAIN Names

-----------------------------------------------------------------------------
(* The tree: a message directory has a name and the canonical hash of its message, which *)
(* stands for the messages it was chained from.                                          *)

EmptyTree == [dirs |-> {}, index |-> <<>>, active |-> <<>>]
Name(d) == <<d.number, d.from, d.kind>>

\* Mutant: the messages of all sessions of the agent count.
CountedOfAgent(place) == {d \in tree.dirs : d.place[1] = place[1] /\ d.number <= Limit}

\* session_message_count: a directory counts if its name begins with three digits and a dash.
Counted(place) == {d \in tree.dirs : d.place = place /\ d.number <= Limit}

\* session_canonical_hash_from_tree: that of the last counted directory by name.
CanonicalHash(place) ==
    LET counted == Counted(place) IN
    IF counted = {} THEN <<>>
    ELSE (CHOOSE d \in counted : \A e \in counted : e.number <= d.number).hash

\* The lines of an index file; one that does not exist has none.
Lines(file) == IF file \in DOMAIN tree.index THEN tree.index[file] ELSE <<>>

\* The timelines of the session: a line more for the active one.
Indexed(place, timeline, name) ==
    [tree EXCEPT
        !.index = With(@, <<place, timeline>>, Append(Lines(<<place, timeline>>), name)),
        !.active = With(@, place, timeline)]

\* Numbers the message and nests its directory into the tree; one of that name is replaced.
Nested(i, from, timeline, parent) ==
    LET m == log[i]
        d == [place |-> Place(m), number |-> Cardinality(Counted(Place(m))) + 1,
              from |-> from, kind |-> m.kind, msg |-> i, hash |-> Append(parent, i)]
        kept == {e \in tree.dirs : e.place # d.place \/ Name(e) # Name(d)} IN
    [Indexed(Place(m), timeline, Name(d)) EXCEPT !.dirs = kept \cup {d}]

-----------------------------------------------------------------------------
(* One message *)

At(w, at) == workers[w].at = at
To(w, at) == workers' = [workers EXCEPT ![w].at = at]
Message(w) == log[workers[w].msg]

\* No two workers have the same message at a time: a handler is done long before ack_wait ends.
Held(i) == \E w \in Workers : ~At(w, "idle") /\ workers[w].msg = i

\* receive_any; the handler reads HEAD for the commit that the new one will follow.
Take(w, i) ==
    /\ At(w, "idle") /\ Delivers(All, i) /\ ~Held(i)
    /\ Fetch(All, i, FALSE)
    /\ workers' = [workers EXCEPT ![w] =
                      [at |-> "handling", msg |-> i, base |-> refs[head], commit |-> 0]]
    /\ UNCHANGED <<log, commits, refs, head, tree, worktree, lost, faults>>

\* Mutant: the new commit is written to the branch whatever its tip is.
CommitAnyway(w, from, timeline) ==
    /\ LET base == workers[w].base
           i == workers[w].msg
           parent == CanonicalHash(Place(log[i])) IN
       /\ commits' = Append(commits, [parent |-> base, msg |-> i])
       /\ tree' = Nested(i, from, timeline, parent)
       /\ refs' = [refs EXCEPT ![head] = Len(commits) + 1]
       /\ workers' = [workers EXCEPT ![w].at = "committed", ![w].commit = Len(commits) + 1]
       /\ UNCHANGED lost
    /\ UNCHANGED <<log, consumers, head, worktree, faults>>

\* nest_and_commit, up to the commit: libgit2 refuses it if the branch of HEAD has moved on;
\* the handler logs that, and the message is acknowledged all the same.
Commit(w, from, timeline) ==
    /\ LET base == workers[w].base
           i == workers[w].msg
           parent == CanonicalHash(Place(log[i])) IN
       \/ /\ base = refs[head]
          /\ commits' = Append(commits, [parent |-> base, msg |-> i])
          /\ tree' = Nested(i, from, timeline, parent)
          /\ refs' = [refs EXCEPT ![head] = Len(commits) + 1]
          /\ workers' = [workers EXCEPT ![w].at = "committed", ![w].commit = Len(commits) + 1]
          /\ UNCHANGED lost
       \/ /\ base # refs[head]
          /\ To(w, "handled") /\ lost' = lost \cup {i}
          /\ UNCHANGED <<commits, refs, tree>>
    /\ UNCHANGED <<log, consumers, head, worktree, faults>>

Handles(w, kind) == At(w, "handling") /\ Message(w).kind = kind
OnInvoke(w) == Handles(w, "invoke") /\ Commit(w, "harness", "main")
OnComplete(w) == Handles(w, "complete") /\ Commit(w, Message(w).agent, "main")
OnRequest(w) == Handles(w, "request") /\ Commit(w, Message(w).agent, "main")
OnResponse(w) == Handles(w, "response") /\ Commit(w, "service", "main")
OnSvcRequest(w) == Handles(w, "svc_request") /\ Commit(w, Message(w).agent, "main")
OnSvcResponse(w) == Handles(w, "svc_response") /\ Commit(w, "service", "main")

\* Only the fork message itself goes into the index file of its branch.
OnFork(w) == Handles(w, "fork") /\ Commit(w, "platform", Message(w).branch)
OnPromote(w) == Handles(w, "promote") /\ Commit(w, "platform", "main")

\* Mutant: a name that is taken is tried again.
CreateBranchRetries(w) ==
    /\ At(w, "committed") /\ Message(w).kind = "fork"
    /\ Message(w).branch \notin DOMAIN refs
    /\ To(w, "moved") /\ refs' = With(refs, Message(w).branch, workers[w].commit)
    /\ UNCHANGED <<log, consumers, commits, head, tree, worktree, lost, faults>>

\* The branch of a fork; HEAD stays where it is.  A name that is taken, by whatever session,
\* is an error, and the working tree is left behind.
CreateBranch(w) ==
    /\ At(w, "committed") /\ Message(w).kind = "fork"
    /\ IF Message(w).branch \in DOMAIN refs
       THEN To(w, "handled") /\ UNCHANGED refs
       ELSE To(w, "moved") /\ refs' = With(refs, Message(w).branch, workers[w].commit)
    /\ UNCHANGED <<log, consumers, commits, head, tree, worktree, lost, faults>>

\* Mutant: HEAD does not follow the branch that is renamed.
SealLeavesHead(w, second) ==
    /\ At(w, "committed") /\ Message(w).kind = "promote"
    /\ "main" \in DOMAIN refs /\ Sealed(second) \notin DOMAIN refs
    /\ To(w, "sealed")
    /\ refs' = [b \in (DOMAIN refs \ {"main"}) \cup {Sealed(second)} |->
                   IF b = Sealed(second) THEN refs["main"] ELSE refs[b]]
    /\ UNCHANGED <<log, consumers, commits, head, tree, worktree, lost, faults>>

\* Promote renames main, and HEAD goes with it if it was there.  The new name has a
\* resolution of a second: a second promote within one fails.
Seal(w, second) ==
    /\ At(w, "committed") /\ Message(w).kind = "promote"
    /\ \A t \in Seconds : Sealed(t) \in DOMAIN refs => t <= second
    /\ CASE "main" \notin DOMAIN refs -> To(w, "sealed") /\ UNCHANGED <<refs, head>>
         [] "main" \in DOMAIN refs /\ Sealed(second) \in DOMAIN refs ->
                To(w, "handled") /\ UNCHANGED <<refs, head>>
         [] OTHER ->
                /\ To(w, "sealed")
                /\ refs' = [b \in (DOMAIN refs \ {"main"}) \cup {Sealed(second)} |->
                               IF b = Sealed(second) THEN refs["main"] ELSE refs[b]]
                /\ head' = IF head = "main" THEN Sealed(second) ELSE head
    /\ UNCHANGED <<log, consumers, commits, tree, worktree, lost, faults>>

\* Then main is made at the commit of the promote.
PromoteBranch(w) ==
    /\ At(w, "sealed")
    /\ refs' = With(refs, "main", workers[w].commit)
    /\ To(w, "moved")
    /\ UNCHANGED <<log, consumers, commits, head, tree, worktree, lost, faults>>

\* checkout_head
Checkout(w) ==
    /\ At(w, "moved") \/ (At(w, "committed") /\ Message(w).kind \in Data)
    /\ worktree' = refs[head]
    /\ To(w, "handled")
    /\ UNCHANGED <<log, consumers, commits, refs, head, tree, lost, faults>>

Fault == faults < MaxFaults /\ faults' = faults + 1

\* Mutant: the message is acknowledged before it is handled.
AckEarly(w) ==
    /\ At(w, "handling") \/ At(w, "handled")
    /\ Acknowledge(All, workers[w].msg)
    /\ (IF At(w, "handled") THEN workers' = [workers EXCEPT ![w] = Idle] ELSE UNCHANGED workers)
    /\ UNCHANGED <<log, commits, refs, head, tree, worktree, lost, faults>>

\* The acknowledgement follows whatever the handler did; one that fails is ignored.
Ack(w) ==
    /\ At(w, "handled")
    /\ \/ Acknowledge(All, workers[w].msg) /\ UNCHANGED faults
       \/ Fault /\ UNCHANGED consumers
    /\ workers' = [workers EXCEPT ![w] = Idle]
    /\ UNCHANGED <<log, commits, refs, head, tree, worktree, lost>>

-----------------------------------------------------------------------------
(* Stops *)

\* The daemon stops at any point and opens the repository again, with HEAD where it was.
\* When it was away for five minutes the server has forgotten the consumer.
DaemonRestarts ==
    /\ Fault
    /\ workers' = [w \in Workers |-> Idle]
    /\ UNCHANGED consumers \/ Expire(All)
    /\ UNCHANGED <<log, commits, refs, head, tree, worktree, lost>>

\* GitDagWorker::open on a fresh directory: an empty commit on main.
Init == /\ log \in Streams /\ consumers = [c \in {All} |-> Unmade]
        /\ commits = <<[parent |-> 0, msg |-> 0]>> /\ tree = EmptyTree
        /\ refs = [b \in {"main"} |-> 1] /\ head = "main" /\ worktree = 1
        /\ workers \in {[w \in pool |-> Idle] : pool \in Pools}
        /\ lost = {} /\ faults = 0

Worker(w) == \/ \E i \in DOMAIN log : Take(w, i)
             \/ OnInvoke(w) \/ OnComplete(w) \/ OnRequest(w) \/ OnResponse(w)
             \/ OnSvcRequest(w) \/ OnSvcResponse(w) \/ OnFork(w) \/ OnPromote(w)
             \/ CreateBranch(w) \/ (\E s \in Seconds : Seal(w, s)) \/ PromoteBranch(w)
             \/ Checkout(w) \/ Ack(w)

Next == DaemonRestarts \/ \E w \in Workers : Worker(w)

\* run_dag_git_worker loops, and its handlers wait for nobody.
Fairness == \A w \in UNION Pools : WF_vars(w \in Workers /\ Worker(w))
Spec == Init /\ [][Next]_vars /\ Fairness

-----------------------------------------------------------------------------
(* Properties *)

Messages == DOMAIN log
Branch == {"main"} \cup {log[i].branch : i \in {j \in Messages : log[j].kind = "fork"}}
                   \cup ToSet(Names)

\* The types of stream, repository and workers.
TypeOK ==
    /\ consumers \in [{All} -> [made : BOOLEAN, seen : 0..Len(log), owed : SUBSET Messages]]
    /\ commits \in Seq([parent : Nat, msg : 0..Len(log)])
    /\ \A d \in tree.dirs : d.number \in 1..(Limit + 1) /\ d.msg \in Messages
    /\ DOMAIN refs \subseteq Branch /\ head \in DOMAIN refs
    /\ \A b \in DOMAIN refs : refs[b] \in DOMAIN commits
    /\ worktree \in DOMAIN commits
    /\ Workers \in Pools
    /\ workers \in [Workers ->
           [at : {"idle", "handling", "committed", "sealed", "moved", "handled"},
            msg : 0..Len(log), base : 0..Len(commits), commit : 0..Len(commits)]]
    /\ lost \subseteq Messages /\ faults \in 0..MaxFaults

\* A branch that HEAD is not on stays at the commit it was made for: the fork of its name, or
\* a promote.  So main, once promoted, has the promote and all before, and what follows goes
\* to the branch that was sealed.  (While a promote has renamed main and not yet made it again,
\* another worker may make a branch of that name for a fork, which the next promote seals.)
BranchesMark ==
    \A b \in DOMAIN refs \ {head} :
        LET m == log[commits[refs[b]].msg] IN
        \/ m.kind = "promote" /\ b \in {"main"} \cup ToSet(Names)
        \/ m.kind = "fork" /\ (m.branch = b \/ (m.branch = "main" /\ b \in ToSet(Names)))

Committed(i) == \E n \in DOMAIN commits : commits[n].msg = i
Taken(i) == i <= consumers[All].seen /\ i \notin consumers[All].owed

\* No message is acknowledged that is not in the history of HEAD, wherever the daemon stopped,
\* but for one that met the commit of another worker; and a single worker that is never
\* interrupted commits the stream once and in its order.
NothingMissed ==
    /\ \A i \in Messages : Taken(i) => Committed(i) \/ i \in lost
    /\ Cardinality(Workers) = 1 => lost = {}
    /\ Cardinality(Workers) = 1 /\ faults = 0 =>
           \A n \in DOMAIN commits : commits[n].msg = n - 1

\* The commits of a place, and their order: the message of the j-th is i.
Commits(place) == {n \in DOMAIN commits : /\ commits[n].msg # 0
                                          /\ Place(log[commits[n].msg]) = place}
Rank(place, n) == Cardinality({m \in Commits(place) : m <= n})
Nth(place, j, i) == \E n \in Commits(place) : Rank(place, n) = j /\ commits[n].msg = i

Places == {Place(log[i]) : i \in Messages}
Small(place) == Cardinality(Commits(place)) <= Limit
Entries(place) == {d \in tree.dirs : d.place = place}
Files(place) == {f \in DOMAIN tree.index : f[1] = place}

\* The canonical hash of a message chains the messages of its agent and session in the order
\* of the commits, and its number is its place in it: both are read back from the tree by
\* different code, and agree as long as numbers have three digits.  Every message directory
\* is a line of exactly one index file, in that order, and ACTIVE names the file of the last.
TreeIsHistory ==
    \A place \in Places : Small(place) =>
        LET size == Cardinality(Commits(place)) IN
        /\ Cardinality(Entries(place)) = size
        /\ {d.number : d \in Entries(place)} = 1..size
        /\ \A d \in Entries(place) : /\ Len(d.hash) = d.number
                                     /\ \A j \in 1..d.number : Nth(place, j, d.hash[j])
        /\ UNION {ToSet(tree.index[f]) : f \in Files(place)} = {Name(d) : d \in Entries(place)}
        /\ \A f, g \in Files(place) :
               \A j \in DOMAIN tree.index[f], k \in DOMAIN tree.index[g] :
                   /\ f = g /\ j < k => tree.index[f][j][1] < tree.index[g][k][1]
                   /\ tree.index[f][j] = tree.index[g][k] => f = g
        /\ Files(place) # {} => Last(tree.index[<<place, tree.active[place]>>])[1] = size

\* "Standard git commands (log, checkout, diff) work as expected": however many workers
\* commit, and wherever HEAD was moved by a promote, the commits are one line that ends at
\* HEAD, each adds a message to the tree of the one before, and the other branches are marks
\* on that line.
LinearHistory == /\ \A n \in DOMAIN commits : commits[n].parent = n - 1
                 /\ refs[head] = Len(commits)
                 /\ BranchesMark /\ TreeIsHistory

\* Every message of the stream is committed in the end, or met another worker's commit.
Projected == \A i \in UNION {DOMAIN s : s \in Streams} :
                 <>(i \in Messages => Committed(i) \/ i \in lost)
=============================================================================
