----------------------------- MODULE Conversation -----------------------------
(***************************************************************************)
(* What an agent is told of the conversation it takes part in.  The        *)
(* messages of a run are recorded in the DAG store as they are sent; when  *)
(* an invoke is dispatched, the sidecar reads every node of the branch in  *)
(* the order of their creation and makes the conversation of them.  The    *)
(* store may refuse a node, half of one, or a read: this is only logged.   *)
(*                                                                         *)
(* Clients share one branch.  A terminal session resolves the tip of the   *)
(* branch once and asks several times; a request of the API or a single    *)
(* prompt resolves it each time it asks.  What the queue may do with the   *)
(* messages is the subject of ToolTurns.                                   *)
(***************************************************************************)
EXTENDS Naturals, FiniteSets, Sequences, SequencesExt

CONSTANTS Clients,
          Lists,     \* bound: what a completion may call
          MaxSent,   \* bound: messages
          MaxFailures  \* bound: refused inserts and reads, calls and dispatches that fail

ASSUME ConversationConstants ==
    /\ Lists \subseteq Seq({"tool", "delegate"}) \ {<<>>}
    /\ MaxSent \in Nat /\ MaxFailures \in Nat

VARIABLES sent,   \* every message sent, recorded or not
          dag,    \* dag_nodes: the ids of the nodes, in the order of created_at
          typed,  \* ids with a row in the table of their message type
          runs,   \* run_agent, one per run
          bases,  \* the parent and the state that a client found
          failures

conversationVars == <<sent, dag, typed, runs, bases, failures>>

Root == 0
None == 0
NoCalls == <<>>
NoOf == <<0, 0>>
Nodes == 0..MaxSent

\* of: what the message follows: a completion its invoke, a request the completion and the
\* index of its call, a response its request, a re-invoke the completion before it.
Sent == [type : {"invoke", "complete", "request", "response"}, id : Nodes, parent : Nodes,
         run : Nodes, of : Nodes \X Nat, calls : Lists \cup {NoCalls}, state : Nodes,
         error : BOOLEAN]

Recorded(id) == id \in ToSet(dag)

-----------------------------------------------------------------------------
(* Recording *)

\* hash_dag_node: an invoke, a request and a response are hashed with their message id, the
\* completion of an agent with its parent and what was measured.  The completions that report
\* the same error have the same text, no parent and no measurements.
Hash(error, parent) ==
    LET equal == {i \in DOMAIN sent : sent[i].error /\ sent[i].parent = parent}
    IN IF error /\ equal # {} THEN sent[CHOOSE i \in equal : TRUE].id ELSE Len(sent) + 1

\* latest_node_on_branch takes the place of a parent that an invoke does not name.
Wanted(type, after) == IF type = "invoke" /\ after = Root /\ dag # <<>> THEN Last(dag) ELSE after

\* A parent that is not there, or cannot be read, is the root.
Parent(type, after, found) ==
    IF found /\ Recorded(Wanted(type, after)) THEN Wanted(type, after) ELSE Root

\* What an insert may come to in the state service.  Its client only learns whether it failed.
Outcomes == {"both", "node", "none"}

\* Mutant: the second row is inserted when the first is refused.
InsertRest(id, kept) ==
    /\ dag' = IF kept = "none" \/ Recorded(id) THEN dag ELSE Append(dag, id)
    /\ typed' = IF kept = "node" THEN typed ELSE typed \cup {id}

\* The node, then the row of its type, each unless its id is known.
Insert(id, kept) ==
    /\ dag' = IF kept = "none" \/ Recorded(id) THEN dag ELSE Append(dag, id)
    /\ typed' = IF kept = "both" THEN typed \cup {id} ELSE typed

Cost(found, kept) == (IF found THEN 0 ELSE 1) + (IF kept = "both" THEN 0 ELSE 1)

\* The RecordingQueue records a message; the store may fail to look the parent up, and to
\* insert the node or its second row.  The id goes on with the message all the same.
Record(type, r, after, of, calls, state, error) ==
    \E found \in BOOLEAN, kept \in Outcomes :
        /\ ~found => Wanted(type, after) # Root
        /\ failures + Cost(found, kept) <= MaxFailures
        /\ failures' = failures + Cost(found, kept)
        /\ LET parent == Parent(type, after, found)
               id == Hash(error, parent)
           IN /\ Insert(id, kept)
              /\ sent' = Append(sent, [type |-> type, id |-> id, parent |-> parent, run |-> r,
                                       of |-> of, calls |-> calls, state |-> state,
                                       error |-> error])

RecordInvoke(r, after, of, state) == Record("invoke", r, after, of, NoCalls, state, FALSE)
RecordComplete(r, after, calls, state, error) ==
    Record("complete", r, after, <<runs[r].invoke, 0>>, calls, state, error)
RecordRequest(r, after, call) == Record("request", r, after, call, NoCalls, None, FALSE)
RecordResponse(r, after, request) ==
    Record("response", r, after, <<request, 0>>, NoCalls, None, FALSE)

\* The id that a message gets which is no error.
NewId == Len(sent) + 1

-----------------------------------------------------------------------------
(* The conversation: walk_chain_to_messages *)

User(id) == [by |-> "user", from |-> id, call |-> NoOf]
Agent(id) == [by |-> "agent", from |-> id, call |-> NoOf]
Tool(id, call) == [by |-> "tool", from |-> id, call |-> call]

\* Mutant: a re-invoke carries the results of the calls before it.
InputWithResults(id) ==
    IF sent[id].of = NoOf THEN <<User(id)>>
    ELSE SetToSeq({Tool(i, sent[sent[i].of[1]].of) :
                       i \in {j \in 1..(id - 1) : /\ sent[j].type = "response"
                                                  /\ sent[sent[j].of[1]].of[1] = sent[id].of[1]}})

\* current_input: what the user says, in the first turn of a run only.
Input(id) == IF sent[id].of = NoOf THEN <<User(id)>> ELSE <<>>

\* The request of a response is the node that the response has as its parent.
Answered(id) == sent[id].parent # Root /\ sent[sent[id].parent].type = "request"
                                       /\ sent[id].parent \in typed

\* A node is passed over if its message cannot be had.
Project(id) ==
    CASE id \notin typed -> <<>>
      [] id \in typed /\ sent[id].type = "invoke" -> Input(id)
      [] id \in typed /\ sent[id].type = "complete" -> <<Agent(id)>>
      [] id \in typed /\ sent[id].type = "response" /\ Answered(id)
           -> <<Tool(id, sent[sent[id].parent].of)>>
      [] OTHER -> <<>>

\* No read fails, or that of one node.
Reads == {Root} \cup ToSet(dag)

\* The nodes of the branch without one that could not be read.
Conversation(unread) ==
    FlattenSeq([k \in DOMAIN dag |-> IF dag[k] = unread THEN <<>> ELSE Project(dag[k])])

-----------------------------------------------------------------------------
(* The transcript of the terminal: walk_chain_to_entries *)

CallsOf(id) == {<<id, k>> : k \in DOMAIN sent[id].calls}

\* Mutant: the calls are forgotten with the first answer.
ShowAndClear(shown, id) ==
    CASE sent[id].type = "invoke" ->
             [shown EXCEPT !.entries = IF id \in typed THEN @ \o Input(id) ELSE @, !.pending = {}]
      [] sent[id].type = "complete" /\ id \in typed ->
             [shown EXCEPT !.entries = IF sent[id].error THEN @ ELSE Append(@, Agent(id)),
                           !.pending = IF sent[id].calls = NoCalls THEN @ ELSE CallsOf(id)]
      [] sent[id].type = "response" ->
             [shown EXCEPT !.fails = @ \/ id \notin typed \/ ~Answered(id), !.pending = {},
                           !.entries = IF Answered(id) /\ sent[sent[id].parent].of \in shown.pending
                                       THEN Append(@, Tool(id, sent[sent[id].parent].of))
                                       ELSE Append(@, Tool(id, NoOf))]
      [] OTHER -> shown

\* An invoke ends what the last completion asked for.  An answer is shown under the name of
\* its call if that is still pending; without its request the whole walk fails.
Show(shown, id) ==
    CASE sent[id].type = "invoke" ->
             [shown EXCEPT !.entries = IF id \in typed THEN @ \o Input(id) ELSE @, !.pending = {}]
      [] sent[id].type = "complete" /\ id \in typed ->
             [shown EXCEPT !.entries = IF sent[id].error THEN @ ELSE Append(@, Agent(id)),
                           !.pending = IF sent[id].calls = NoCalls THEN @ ELSE CallsOf(id)]
      [] sent[id].type = "response" ->
             [shown EXCEPT !.fails = @ \/ id \notin typed \/ ~Answered(id),
                           !.entries = IF Answered(id) /\ sent[sent[id].parent].of \in shown.pending
                                       THEN Append(@, Tool(id, sent[sent[id].parent].of))
                                       ELSE Append(@, Tool(id, NoOf))]
      [] OTHER -> shown

Transcript == FoldLeft(Show, [entries |-> <<>>, pending |-> {}, fails |-> FALSE], dag)

-----------------------------------------------------------------------------
(* Clients and runs *)

\* given: what the agent was given; upto: what had been sent then.
Run(by) == [by |-> by, at |-> "invoked", invoke |-> NewId, answer |-> 0, next |-> 0,
            head |-> NewId, given |-> <<>>, upto |-> 0]

Set(r, run) == runs' = [runs EXCEPT ![r] = run]

\* A client takes its next input when the last one is answered.
Ready(c) == \A r \in DOMAIN runs : runs[r].by = c => runs[r].at = "done"

\* resolve_branch_tip, and the API's resolve_session_context: the state is read from an
\* invoke or a completion, never from the snapshot of the node.
Tip == IF dag = <<>> THEN [parent |-> Root, state |-> None]
       ELSE [parent |-> Last(dag),
             state |-> IF sent[Last(dag)].type \in {"invoke", "complete"} /\ Last(dag) \in typed
                       THEN sent[Last(dag)].state ELSE None]

Start(c, base) ==
    /\ Ready(c) /\ Len(sent) < MaxSent
    /\ RecordInvoke(Len(runs) + 1, base.parent, NoOf, base.state)
    /\ runs' = Append(runs, Run(c))
    /\ bases' = [bases EXCEPT ![c] = base]

\* The first input of a terminal session, a single prompt, or a request of the API.
Open(c) == Start(c, Tip)

\* A further input of a terminal session is run with what its first one began with.
Ask(c) == (\E r \in DOMAIN runs : runs[r].by = c) /\ Start(c, bases[c])

\* dispatch_invoke: the conversation is read, but for one node, and posted to the agent.
Dispatch(r) ==
    /\ runs[r].at = "invoked"
    /\ \E unread \in Reads :
          /\ failures + (IF unread = Root THEN 0 ELSE 1) <= MaxFailures
          /\ failures' = failures + (IF unread = Root THEN 0 ELSE 1)
          /\ Set(r, [runs[r] EXCEPT !.at = "dispatched", !.given = Conversation(unread),
                                    !.upto = Len(sent)])
    /\ UNCHANGED <<sent, dag, typed, bases>>

\* process_turn_tool_calls goes on with the next call, or the turn ends.
Proceed(run) == IF run.next < Len(sent[run.answer].calls)
                THEN [run EXCEPT !.at = "calling", !.next = @ + 1]
                ELSE [run EXCEPT !.at = "ended"]

\* A run ends with its answer.  A delegated one gives it to its caller, whose chain goes on
\* from where it was.
Finish(r) ==
    LET by == runs[r].by
        done == [runs EXCEPT ![r].at = "done", ![r].given = <<>>]
    IN runs' = IF by \in Clients THEN done ELSE [done EXCEPT ![by] = Proceed(@)]

\* The dispatch fails: the completion tells of it and names no parent.
DispatchFails(r) ==
    /\ runs[r].at = "invoked" /\ Len(sent) < MaxSent
    /\ RecordComplete(r, Root, NoCalls, None, TRUE)
    /\ Finish(r)
    /\ UNCHANGED bases

\* The agent answers, with the state of its turn.
Answer(r) ==
    /\ runs[r].at = "dispatched" /\ Len(sent) < MaxSent
    /\ \/ /\ RecordComplete(r, runs[r].invoke, NoCalls, NewId, FALSE)
          /\ Finish(r)
       \/ \E calls \in Lists :
            /\ RecordComplete(r, runs[r].invoke, calls, NewId, FALSE)
            /\ Set(r, [runs[r] EXCEPT !.at = "calling", !.answer = NewId, !.head = NewId,
                                      !.next = 1, !.given = <<>>])
    /\ UNCHANGED bases

Asks(r, what) == runs[r].at = "calling" /\ sent[runs[r].answer].calls[runs[r].next] = what

\* dispatch_service_call records its request with the head of the chain as the parent.
CallTool(r) ==
    /\ Asks(r, "tool") /\ Len(sent) < MaxSent
    /\ RecordRequest(r, runs[r].head, <<runs[r].answer, runs[r].next>>)
    /\ Set(r, [runs[r] EXCEPT !.at = "waiting", !.head = NewId])
    /\ UNCHANGED bases

\* Mutant: the worker hands on the parent of the request.
ReceiveAsSibling(r) ==
    /\ runs[r].at = "waiting" /\ Len(sent) < MaxSent
    /\ RecordResponse(r, sent[runs[r].head].parent, runs[r].head)
    /\ Set(r, Proceed([runs[r] EXCEPT !.head = NewId]))
    /\ UNCHANGED bases

\* The worker's response names the request as its parent; who receives it records it.
Receive(r) ==
    /\ runs[r].at = "waiting" /\ Len(sent) < MaxSent
    /\ RecordResponse(r, runs[r].head, runs[r].head)
    /\ Set(r, Proceed([runs[r] EXCEPT !.head = NewId]))
    /\ UNCHANGED bases

\* No response in time: the error goes into the trace of the run, not into the chain.
CallFails(r) ==
    /\ runs[r].at = "waiting" /\ failures < MaxFailures
    /\ failures' = failures + 1
    /\ Set(r, Proceed(runs[r]))
    /\ UNCHANGED <<sent, dag, typed, bases>>

\* delegate_agent: a run of another agent, from the head of the chain and with no state.
Delegate(r) ==
    /\ Asks(r, "delegate") /\ Len(sent) < MaxSent
    /\ RecordInvoke(Len(runs) + 1, runs[r].head, NoOf, None)
    /\ runs' = Append([runs EXCEPT ![r].at = "delegating"], Run(r))
    /\ UNCHANGED bases

\* build_reinvoke: the next turn, from the head of the chain.
Reinvoke(r) ==
    /\ runs[r].at = "ended" /\ Len(sent) < MaxSent
    /\ RecordInvoke(r, runs[r].head, <<runs[r].answer, 0>>, sent[runs[r].answer].state)
    /\ Set(r, [runs[r] EXCEPT !.at = "invoked", !.invoke = NewId, !.head = NewId])
    /\ UNCHANGED bases

ConversationInit ==
    /\ sent = <<>> /\ dag = <<>> /\ typed = {} /\ runs = <<>> /\ failures = 0
    /\ bases = [c \in Clients |-> [parent |-> Root, state |-> None]]

ConversationNext ==
    \/ \E c \in Clients : Open(c) \/ Ask(c)
    \/ \E r \in DOMAIN runs :
          \/ Dispatch(r) \/ DispatchFails(r) \/ Answer(r)
          \/ CallTool(r) \/ Receive(r) \/ CallFails(r)
          \/ Delegate(r) \/ Reinvoke(r)

ConversationSpec == ConversationInit /\ [][ConversationNext]_conversationVars

-----------------------------------------------------------------------------
(* Properties *)

Said == [by : {"user", "agent", "tool"}, from : Nodes, call : Nodes \X Nat]

ConversationTypeOK ==
    /\ sent \in Seq(Sent) /\ dag \in Seq(Nodes) /\ typed \subseteq ToSet(dag)
    /\ \A r \in DOMAIN runs :
          /\ runs[r].by \in Clients \cup DOMAIN runs
          /\ runs[r].at \in {"invoked", "dispatched", "calling", "waiting", "delegating",
                            "ended", "done"}
          /\ runs[r].given \in Seq(Said)
    /\ bases \in [Clients -> [parent : Nodes, state : Nodes]]
    /\ failures \in 0..MaxFailures

\* What an agent is given is in the order in which it was said, nothing of it twice, and a
\* result under the call that it answers.  Runs of other clients and of delegates go on in
\* between, nodes and reads are lost, and the parents of nodes are cut.  Only an error that
\* was reported before and lost then may come late.
GivenInOrder ==
    \A r \in DOMAIN runs : LET given == runs[r].given IN
        /\ \A j, k \in DOMAIN given :
              j < k => \/ given[j].from < given[k].from
                       \/ given[j].from > given[k].from /\ sent[given[k].from].error
        /\ \A k \in DOMAIN given :
              given[k].by = "tool" => given[k].call = sent[sent[given[k].from].of[1]].of

\* What is said with a message: the results of tools that came in time are said too.
Says(i) == CASE sent[i].type = "invoke" -> sent[i].of = NoOf
             [] sent[i].type = "request" -> FALSE
             [] OTHER -> TRUE

Repeats == {i \in DOMAIN sent : sent[i].id # i}

Forgotten(r) ==
    {i \in 1..runs[r].upto : /\ Says(i) /\ i \notin Repeats
                             /\ \A k \in DOMAIN runs[r].given : runs[r].given[k].from # i}

\* A refused insert, a parent that was not found or a failed read takes at most one message
\* from what the agent is given; nothing else does.
OneFaultOneMessage ==
    \A r \in DOMAIN runs :
        runs[r].at = "dispatched" => Cardinality(Forgotten(r)) <= failures

\* An agent is given what was said, in order and once, but for one message per fault.
GivenAsSaid == GivenInOrder /\ OneFaultOneMessage

\* The terminal shows every answer under the name of its call, as long as nothing of another
\* run, such as a delegate's, was sent between the call and its answer.
AnswersNamed ==
    LET shown == Transcript IN
    ~shown.fails => \A k \in DOMAIN shown.entries :
        LET e == shown.entries[k]
            request == sent[e.from].of[1]
        IN e.by = "tool" /\ e.call = NoOf
             => \/ sent[request].of[1] \notin typed
                \/ \E i \in sent[request].of[1]..e.from : sent[i].run # sent[e.from].run

-----------------------------------------------------------------------------
(* What a document of the repository says, and the code does not do *)

\* docs/TIMELINE_WALKTHROUGH.md: each input of a session, typed one after the other, is
\* run with the state that the answer to the last one left.
ResumesLast ==
    \A i \in DOMAIN sent :
        sent[i].type = "invoke" /\ sent[i].of = NoOf /\ runs[sent[i].run].by \in Clients
          => \A j \in 1..(i - 1) :
                 /\ sent[j].type = "complete" /\ sent[j].calls = NoCalls /\ ~sent[j].error
                 /\ runs[sent[j].run].by \in Clients
                 => sent[i].state >= sent[j].state
===============================================================================
