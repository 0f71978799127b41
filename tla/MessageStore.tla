----------------------------- MODULE MessageStore -----------------------------
(* The state service: every process that sends a message records it as a node of *)
(* the DAG, through a gRPC client, the server of the state service and the SQLite *)
(* store behind it, and reads nodes and messages back the same way.               *)
(*                                                                               *)
(* A recording is two calls with the process's own clock read in between: the      *)
(* parent is looked up, then the node and its typed row are inserted. Recorders    *)
(* interleave at every call. A hash is the index of the node in nodes.             *)
EXTENDS Integers, Sequences, FiniteSets, SequencesExt

CONSTANTS Recorders,   \* processes that record what they send
          Sessions,    \* sequence of the sessions, each created with a branch "main"
          Bodies,      \* payloads with their diagnostics, manifests, branch names
          StateWith,   \* function from Bodies: the state a message with this body carries
          States,      \* state hashes of the key-value service
          NoState,     \* an absent state, and the empty snapshot
          NoSession,   \* the session of the infra plane: NULL in the table
          MaxSent,     \* bound: messages recorded
          MaxLosses    \* bound: failed calls

ASSUME StoreAssumption ==
    /\ Sessions \in Seq(Range(Sessions)) /\ IsInjective(Sessions)
    /\ NoSession \notin Range(Sessions)
    /\ NoState \notin States /\ StateWith \in [Bodies -> States \cup {NoState}]
    /\ MaxSent \in Nat /\ MaxLosses \in Nat

VARIABLES nodes,      \* dag_nodes, in the order of their insertion
          rows,       \* the typed row of each node
          branches,   \* sequence of [name, session]
          recorders,  \* what each process is recording
          sent,       \* the recordings that ended, with what the process was told
          now,        \* the time, the same for all
          losses
storeVars == <<nodes, rows, branches, recorders, sent, now, losses>>

Root == 0
Missing == -1          \* the hash of a node whose insert failed
Infra == {"deploy-agent", "delete-agent"}
Answers == {"request", "response", "complete", "svc_request", "svc_response"}
Kinds == {"invoke", "fork", "promote"} \cup Answers \cup Infra
IdleRecorder == [at |-> "idle"]
NoRow == [row |-> "none"]   \* of a node whose typed row is missing

-----------------------------------------------------------------------------
(* The tables, as the queries of the service read them *)

\* The content that is hashed: all of an invoke and of a call of a service; payload and
\* diagnostics of the other data messages; of the infra plane the agent's name only, and
\* of a fork or promote nothing.
Content(m) == CASE m.kind \in {"invoke", "svc_request", "svc_response"} -> m.data
                [] m.kind \in {"complete", "request", "response"} -> m.data.body
                [] OTHER -> NoState

\* The nodes with the hash of a new one: none, or one.
SameHash(n) == {i \in DOMAIN nodes :
    \A f \in {"kind", "parent", "session", "content"} : nodes[i][f] = n[f]}

\* Mutant: the fork is put on the branch that is created after it.
ForkBranchesNext(name) == {Len(branches) + 1}

\* get_branch_by_name takes a branch of any session; a fork without one goes on branch 1.
ForkBranches(name) == LET named == {b \in DOMAIN branches : branches[b].name = name}
                      IN IF named = {} THEN {1} ELSE named

\* Nodes by their created_at, from the one clock of the recorders; nodes that have the same
\* come in the order of the table.
Before(i, j) == \/ nodes[i].created < nodes[j].created
                \/ nodes[i].created = nodes[j].created /\ i < j

\* Each node stands where it has the nodes before it in front of it.
ByCreation(ids) ==
    [k \in 1..Cardinality(ids) |->
        CHOOSE i \in ids : Cardinality({j \in ids : Before(j, i)}) = k - 1]

SessionNodes(s) == ByCreation({i \in DOMAIN nodes : nodes[i].session = s})
SubmissionNodes(u) == ByCreation({i \in DOMAIN nodes : nodes[i].submission = u})
NodesOnBranch(b) == ByCreation({i \in DOMAIN nodes : nodes[i].branch = b})
LatestOnBranch(b) ==
    LET on == {i \in DOMAIN nodes : nodes[i].branch = b}
    IN IF on = {} THEN Root ELSE Last(ByCreation(on))

\* A node on the wire has no snapshot; the client gives it the empty one.
NodeOffWire(n) == [n EXCEPT !.snapshot = NoState]

\* get_node of a hash the store may not have.
Found(h) == IF h \in DOMAIN nodes THEN h ELSE Root

-----------------------------------------------------------------------------
(* The calls of one insert: what the client puts on the wire, what the server makes *)
(* of it and the columns of the typed row. data: [id, state, dag_parent, body, link] *)
(* where link is the correlation id, tool call or checkpoint, a fork's fork point.   *)

\* A data message as its JSON text, which keeps all of it.
WithText(d) == [message_id |-> d.id, state |-> d.state, payload |-> d]

\* The message the server builds from columns: the parent it names is left out.
Rebuilt(id, state, body, link) ==
    [id |-> id, state |-> state, dag_parent |-> Root, body |-> body, link |-> link]

InvokeCall(d) == WithText(d)
InvokeServed(w) == w.payload
InvokeRow(d) == WithText(d)

CompleteCall(d) == WithText(d)
CompleteServed(w) == w.payload
CompleteRow(d) == WithText(d)

RequestCall(d) ==
    [message_id |-> d.id, state |-> d.state, payload |-> d.body, checkpoint |-> d.link]
RequestServed(w) == Rebuilt(w.message_id, w.state, w.payload, w.checkpoint)
RequestRow(d) ==
    [message_id |-> d.id, state |-> d.state, payload |-> d.body, checkpoint |-> d.link]

ResponseCall(d) ==
    [message_id |-> d.id, state |-> d.state, payload |-> d.body, correlation_id |-> d.link]
ResponseServed(w) == Rebuilt(w.message_id, w.state, w.payload, w.correlation_id)
ResponseRow(d) ==
    [message_id |-> d.id, state |-> d.state, payload |-> d.body, correlation_id |-> d.link]

SvcRequestCall(d) ==
    [message_id |-> d.id, state |-> d.state, arguments |-> d.body, tool_call_id |-> d.link]
SvcRequestServed(w) == Rebuilt(w.message_id, w.state, w.arguments, w.tool_call_id)
SvcRequestRow(d) ==
    [message_id |-> d.id, state |-> d.state, arguments |-> d.body, tool_call_id |-> d.link]

SvcResponseCall(d) ==
    [message_id |-> d.id, state |-> d.state, payload |-> d.body, correlation_id |-> d.link]
SvcResponseServed(w) == Rebuilt(w.message_id, w.state, w.payload, w.correlation_id)
SvcResponseRow(d) ==
    [message_id |-> d.id, state |-> d.state, payload |-> d.body, correlation_id |-> d.link]

ForkCall(d) == [message_id |-> d.id, branch_name |-> d.body, fork_point |-> d.link]
ForkServed(w) == Rebuilt(w.message_id, NoState, w.branch_name, w.fork_point)
ForkRow(d) == [message_id |-> d.id, branch_name |-> d.body, fork_point |-> d.link]

PromoteCall(d) == [message_id |-> d.id, branch_id |-> d.link]
PromoteServed(w) == Rebuilt(w.message_id, NoState, NoState, w.branch_id)
PromoteRow(d) == [message_id |-> d.id, branch_id |-> d.link]

DeployCall(d) == [message_id |-> d.id, manifest |-> d.body]
DeployServed(w) == Rebuilt(w.message_id, NoState, w.manifest, Root)
DeployRow(d) == [message_id |-> d.id, manifest_json |-> d.body]

DeleteCall(d) == [message_id |-> d.id]
DeleteServed(w) == Rebuilt(w.message_id, NoState, NoState, Root)
DeleteRow(d) == [message_id |-> d.id]

\* The typed row that an insert of a message writes.
RowOf(m) ==
    CASE m.kind = "invoke" -> InvokeRow(InvokeServed(InvokeCall(m.data)))
      [] m.kind = "complete" -> CompleteRow(CompleteServed(CompleteCall(m.data)))
      [] m.kind = "request" -> RequestRow(RequestServed(RequestCall(m.data)))
      [] m.kind = "response" -> ResponseRow(ResponseServed(ResponseCall(m.data)))
      [] m.kind = "svc_request" -> SvcRequestRow(SvcRequestServed(SvcRequestCall(m.data)))
      [] m.kind = "svc_response" -> SvcResponseRow(SvcResponseServed(SvcResponseCall(m.data)))
      [] m.kind = "fork" -> ForkRow(ForkServed(ForkCall(m.data)))
      [] m.kind = "promote" -> PromoteRow(PromoteServed(PromoteCall(m.data)))
      [] m.kind = "deploy-agent" -> DeployRow(DeployServed(DeployCall(m.data)))
      [] m.kind = "delete-agent" -> DeleteRow(DeleteServed(DeleteCall(m.data)))

-----------------------------------------------------------------------------
(* The calls of one read: the store's message of a row, the server's answer, the *)
(* client's message. InvokeText and its like are the reads of a message alone.   *)

ReadInvokeRow(row) == row.payload
InvokeAnswer(d) == WithText(d)
ReadInvoke(w) == w.payload

ReadCompleteRow(row) == row.payload
CompleteAnswer(d) == WithText(d)
ReadComplete(w) == w.payload

ReadRequestRow(row) == Rebuilt(row.message_id, row.state, row.payload, row.checkpoint)
RequestAnswer(d) ==
    [message_id |-> d.id, state |-> d.state, payload |-> d.body, checkpoint |-> d.link]
ReadRequest(w) == Rebuilt(w.message_id, w.state, w.payload, w.checkpoint)

ReadResponseRow(row) == Rebuilt(row.message_id, row.state, row.payload, row.correlation_id)
ResponseAnswer(d) ==
    [message_id |-> d.id, state |-> d.state, payload |-> d.body, correlation_id |-> d.link]
ReadResponse(w) == Rebuilt(w.message_id, w.state, w.payload, w.correlation_id)

ReadSvcRequestRow(row) == Rebuilt(row.message_id, row.state, row.arguments, row.tool_call_id)
SvcRequestAnswer(d) ==
    [message_id |-> d.id, state |-> d.state, arguments |-> d.body, tool_call_id |-> d.link]
ReadSvcRequest(w) == Rebuilt(w.message_id, w.state, w.arguments, w.tool_call_id)

ReadSvcResponseRow(row) == Rebuilt(row.message_id, row.state, row.payload, row.correlation_id)
SvcResponseAnswer(d) ==
    [message_id |-> d.id, state |-> d.state, payload |-> d.body, correlation_id |-> d.link]
ReadSvcResponse(w) == Rebuilt(w.message_id, w.state, w.payload, w.correlation_id)

\* get_request_v2 and its like: no key, and the message goes as its text.
InvokeText(row) == row.payload
CompleteText(row) == row.payload
RequestText(row) == Rebuilt(row.message_id, row.state, row.arguments, row.tool_call_id)
ResponseText(row) == Rebuilt(row.message_id, row.state, row.payload, row.correlation_id)
InvokeOnWire(d) == [id |-> d.id, payload |-> d]
CompleteOnWire(d) == [id |-> d.id, payload |-> d]
RequestOnWire(d) == [id |-> d.id, payload |-> d]
ResponseOnWire(d) == [id |-> d.id, payload |-> d]
InvokeOffWire(w) == w.payload
CompleteOffWire(w) == w.payload
RequestOffWire(w) == w.payload
ResponseOffWire(w) == w.payload

\* The message that get_invoke_node and its like return for a row.
ReadNode(kind, row) ==
    CASE kind = "invoke" -> ReadInvoke(InvokeAnswer(ReadInvokeRow(row)))
      [] kind = "complete" -> ReadComplete(CompleteAnswer(ReadCompleteRow(row)))
      [] kind = "request" -> ReadRequest(RequestAnswer(ReadRequestRow(row)))
      [] kind = "response" -> ReadResponse(ResponseAnswer(ReadResponseRow(row)))
      [] kind = "svc_request" -> ReadSvcRequest(SvcRequestAnswer(ReadSvcRequestRow(row)))
      [] kind = "svc_response" -> ReadSvcResponse(SvcResponseAnswer(ReadSvcResponseRow(row)))

\* The message that get_invoke_message and its like return; there is none for the
\* requests and responses of a container.
ReadText(kind, row) ==
    CASE kind = "invoke" -> InvokeOffWire(InvokeOnWire(InvokeText(row)))
      [] kind = "complete" -> CompleteOffWire(CompleteOnWire(CompleteText(row)))
      [] kind = "svc_request" -> RequestOffWire(RequestOnWire(RequestText(row)))
      [] kind = "svc_response" -> ResponseOffWire(ResponseOnWire(ResponseText(row)))

-----------------------------------------------------------------------------
(* What a process records *)

Message(kind, s, u, b, data) ==
    [kind |-> kind, key |-> [session |-> s, submission |-> u, branch |-> b], data |-> data]
Data(id, state, parent, body, link) ==
    [id |-> id, state |-> state, dag_parent |-> parent, body |-> body, link |-> link]

Recording == {r \in Recorders : recorders[r].at \in {"looked", "called"}}
NewId == Len(sent) + Cardinality(Recording) + 1
NodesOf(s) == {i \in DOMAIN nodes : nodes[i].session = s}

\* The runs the store is told about, and the hashes their processes have been given.
Runs == {i \in DOMAIN sent : sent[i].kind = "invoke"}
Given(u) == {Root} \cup {sent[i].hash : i \in {j \in DOMAIN sent : sent[j].key.submission = u}}

\* An invoke begins a submission, on from a node of its session or from the branch's tip.
Invokes == {Message("invoke", branches[b].session, NewId, b, Data(NewId, st, p, NoState, 0)) :
                b \in DOMAIN branches, st \in States \cup {NoState},
                p \in {Root} \cup DOMAIN nodes}
\* What follows carries the invoke's key and names a node of the run, or none.
Following(i) == {Message(k, sent[i].key.session, sent[i].key.submission, sent[i].key.branch,
                         Data(NewId, StateWith[b], p, b, p)) :
                     k \in Answers, p \in Given(sent[i].key.submission), b \in Bodies}
Forks(s) == {Message("fork", s, NewId, 0, Data(NewId, NoState, Root, name, p)) :
                 name \in Bodies, p \in NodesOf(s)}
Promotes(s) == {Message("promote", s, NewId, b, Data(NewId, NoState, Root, NoState, b)) :
                    b \in {c \in DOMAIN branches : branches[c].session = s}}
InfraMessages == {Message(k, NoSession, NewId, 0, Data(NewId, NoState, Root, m, 0)) :
                      k \in Infra, m \in Bodies}
\* A response of a service is recorded where it is received, again if it comes again.
Redelivered == {[kind |-> sent[i].kind, key |-> sent[i].key, data |-> sent[i].data] :
                    i \in {j \in DOMAIN sent : sent[j].kind = "svc_response"}}

NewMessages == {m \in Invokes : m.data.dag_parent \in {Root} \cup NodesOf(m.key.session)}
               \cup (UNION {Following(i) : i \in Runs})
               \cup (UNION {Forks(s) \cup Promotes(s) : s \in Range(Sessions)})
               \cup InfraMessages \cup Redelivered

-----------------------------------------------------------------------------
(* The recorders *)

\* An invoke goes on from the node it names or else from the tip of its branch, a promote
\* from the tip, a fork from its fork point, the others from the node that they name.
Parent(m) == CASE m.kind = "invoke" /\ m.data.dag_parent = Root -> LatestOnBranch(m.key.branch)
               [] m.kind = "promote" -> LatestOnBranch(m.key.branch)
               [] m.kind = "fork" -> Found(m.data.link)
               [] m.kind \in Infra -> Root
               [] OTHER -> Found(m.data.dag_parent)

\* The state of the message, or what the client says that the parent had.
Snapshot(m, parent) == IF m.data.state # NoState THEN m.data.state
                       ELSE IF parent = Root THEN NoState
                       ELSE NodeOffWire(nodes[parent]).snapshot

Looked(r, m, parent) ==
    recorders' = [recorders EXCEPT ![r] = [at |-> "looked", message |-> m, parent |-> parent,
                                           snapshot |-> Snapshot(m, parent)]]

\* The first call: the parent is looked up.
Look(r, m) == /\ recorders[r] = IdleRecorder /\ NewId <= MaxSent
              /\ Looked(r, m, Parent(m))
              /\ UNCHANGED <<nodes, rows, branches, sent, now, losses>>

\* It fails, which is only logged: the node begins a chain.
LookFails(r, m) == /\ recorders[r] = IdleRecorder /\ NewId <= MaxSent
                   /\ m.kind \notin Infra /\ losses < MaxLosses
                   /\ Looked(r, m, Root)
                   /\ losses' = losses + 1
                   /\ UNCHANGED <<nodes, rows, branches, sent, now>>

\* The process reads its clock and makes the second call.
Stamp(r) ==
    /\ recorders[r].at = "looked"
    /\ now' = now + 1
    /\ LET m == recorders[r].message IN
       recorders' = [recorders EXCEPT ![r] =
           [at |-> "called", message |-> m,
            node |-> [kind |-> m.kind, parent |-> recorders[r].parent,
                      session |-> m.key.session, submission |-> m.key.submission,
                      branch |-> m.key.branch, created |-> now,
                      snapshot |-> recorders[r].snapshot, content |-> Content(m)]]]
    /\ UNCHANGED <<nodes, rows, branches, sent, losses>>

\* Mutant: INSERT OR REPLACE into dag_nodes.
InsertNodeOver(n) == /\ nodes' = IF SameHash(n) = {} THEN Append(nodes, n)
                                ELSE [i \in DOMAIN nodes |-> IF i \in SameHash(n) THEN n ELSE nodes[i]]
                     /\ UNCHANGED branches

\* INSERT OR IGNORE into dag_nodes.
InsertNode(n) == /\ nodes' = IF SameHash(n) = {} THEN Append(nodes, n) ELSE nodes
                 /\ UNCHANGED branches

HashOf(n) == IF SameHash(n) = {} THEN Len(nodes) + 1 ELSE CHOOSE i \in SameHash(n) : TRUE

\* Mutant: INSERT OR REPLACE into the typed table.
InsertRowOver(n, row) ==
    LET h == HashOf(n)
        old == IF h \in DOMAIN rows THEN rows ELSE Append(rows, NoRow)
    IN rows' = [old EXCEPT ![h] = row]

\* INSERT OR IGNORE into the typed table of the node, whose message_id is UNIQUE.
InsertRow(n, row) ==
    LET h == HashOf(n)
        old == IF h \in DOMAIN rows THEN rows ELSE Append(rows, NoRow)
        taken == \E i \in DOMAIN rows : /\ rows[i] # NoRow /\ nodes[i].kind = n.kind
                                       /\ rows[i].message_id = row.message_id
    IN rows' = IF old[h] # NoRow \/ taken THEN old ELSE [old EXCEPT ![h] = row]

\* The recording ends as the process sees it; after a fork it has the branch to create.
RecordingEnds(r, hash, ok) ==
    LET m == recorders[r].message IN
    /\ sent' = Append(sent, [kind |-> m.kind, key |-> m.key, data |-> m.data,
                             hash |-> hash, ok |-> ok])
    /\ recorders' = [recorders EXCEPT ![r] =
           IF m.kind = "fork"
           THEN [at |-> "branching", name |-> m.data.body, session |-> m.key.session]
           ELSE IdleRecorder]

\* The nodes that the store may be asked to insert; it looks up the branch of a fork.
NodesFor(r) == LET n == recorders[r].node IN
               IF n.kind = "fork" THEN {[n EXCEPT !.branch = b] : b \in ForkBranches(recorders[r].message.data.body)}
               ELSE {n}

\* The store inserts both, and the process hears of it or not.
Insert(r) == \E n \in NodesFor(r), heard \in BOOLEAN :
    /\ InsertNode(n)
    /\ InsertRow(n, RowOf(recorders[r].message))
    /\ RecordingEnds(r, HashOf(n), heard)
    /\ losses' = IF heard THEN losses ELSE losses + 1

\* The service stops between the two inserts.
InsertHalf(r) == \E n \in NodesFor(r) :
    /\ InsertNode(n)
    /\ rows' = IF HashOf(n) \in DOMAIN rows THEN rows ELSE Append(rows, NoRow)
    /\ RecordingEnds(r, HashOf(n), FALSE)
    /\ losses' = losses + 1

\* The call does not reach the service: the hash is given out all the same.
InsertFails(r) == /\ RecordingEnds(r, IF SameHash(recorders[r].node) = {} THEN Missing
                              ELSE HashOf(recorders[r].node), FALSE)
                  /\ losses' = losses + 1
                  /\ UNCHANGED <<nodes, rows, branches>>

Serve(r) == /\ recorders[r].at = "called"
            /\ Insert(r) \/ InsertHalf(r) \/ InsertFails(r)
            /\ losses' <= MaxLosses
            /\ UNCHANGED now

\* create_branch of a name that the session has is an error, which is only logged.
CreateBranch(r) ==
    /\ recorders[r].at = "branching"
    /\ LET branch == [name |-> recorders[r].name, session |-> recorders[r].session] IN
       branches' = IF branch \in Range(branches) THEN branches ELSE Append(branches, branch)
    /\ recorders' = [recorders EXCEPT ![r] = IdleRecorder]
    /\ UNCHANGED <<nodes, rows, sent, now, losses>>

StoreInit == /\ nodes = <<>> /\ rows = <<>> /\ sent = <<>>
             /\ branches = [i \in DOMAIN Sessions |-> [name |-> "main", session |-> Sessions[i]]]
             /\ recorders = [r \in Recorders |-> IdleRecorder]
             /\ now = 0 /\ losses = 0

StoreNext == \E r \in Recorders :
    \/ \E m \in NewMessages : Look(r, m) \/ LookFails(r, m)
    \/ Stamp(r) \/ Serve(r) \/ CreateBranch(r)

StoreSpec == StoreInit /\ [][StoreNext]_storeVars

-----------------------------------------------------------------------------
(* Properties *)

\* The tables keep step: every node has its place among the typed rows, a row of the
\* message's own shape or none, its parent stands before it in the same table, and what
\* the recorders hold refers to what is there (schema of dag_store.rs:52).
StoreTypeOK ==
    /\ DOMAIN rows = DOMAIN nodes
    /\ \A i \in DOMAIN nodes :
          /\ nodes[i].kind \in Kinds /\ nodes[i].parent \in 0..(i - 1)
          /\ nodes[i].session \in Range(Sessions) \cup {NoSession}
          /\ nodes[i].session = NoSession <=> nodes[i].kind \in Infra
          /\ nodes[i].branch \in DOMAIN branches \cup {0}
          /\ nodes[i].snapshot \in States \cup {NoState}
    /\ \A i \in DOMAIN sent : sent[i].hash \in {Missing} \cup DOMAIN nodes
    /\ \A r \in Recording : recorders[r].message.kind \in Kinds
    /\ \A r \in Recorders : recorders[r].at \in {"idle", "looked", "called", "branching"}
    /\ losses \in 0..MaxLosses /\ Len(sent) <= MaxSent

\* The first recording of a data message, and the first under its hash.
FirstOf(i) == /\ sent[i].kind \in Answers \cup {"invoke"} /\ sent[i].ok
              /\ \A j \in 1..(i - 1) : sent[j].hash # sent[i].hash /\ sent[j].data.id # sent[i].data.id

\* What a read gives of a message: only the texts keep the parent it named.
AsRead(i) == IF sent[i].kind \in {"invoke", "complete"} THEN sent[i].data
             ELSE [sent[i].data EXCEPT !.dag_parent = Root]

\* What the service acknowledged can be read back through it, whatever was recorded, lost
\* or recorded again since: the message and key of its first recording, the first under its hash
\* (the insert and get functions of dag_store.rs, server.rs and client.rs).
ReadBack ==
    \A i \in DOMAIN sent : FirstOf(i) =>
        LET h == sent[i].hash IN
        /\ rows[h] # NoRow
        /\ ReadNode(sent[i].kind, rows[h]) = AsRead(i)
        /\ sent[i].kind \notin {"request", "response"} => ReadText(sent[i].kind, rows[h]) = AsRead(i)
        /\ \A f \in DOMAIN sent[i].key : nodes[h][f] = sent[i].key[f]

\* The clocks are read between the two calls of a recording and the inserts may come in
\* another order, yet every list in the order of created_at has a node after its parent,
\* and so the latest node of a branch has no child on the branch
\* (get_session_nodes, get_nodes_by_submission and latest_node_on_branch in dag_store.rs).
ParentsFirst(list) == \A i, j \in DOMAIN list : nodes[list[j]].parent = list[i] => i < j
CreatedInOrder ==
    /\ \A s \in Range(Sessions) : ParentsFirst(SessionNodes(s))
    /\ \A u \in 1..MaxSent : ParentsFirst(SubmissionNodes(u))
    /\ \A b \in DOMAIN branches :
          \A i \in Range(NodesOnBranch(b)) : nodes[i].parent # LatestOnBranch(b)

\* The store gives back what it was given, and in an order that has causes before effects.
StoreFaithful == ReadBack /\ CreatedInOrder
=============================================================================
