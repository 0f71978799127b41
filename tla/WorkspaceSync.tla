---------------------------- MODULE WorkspaceSync ----------------------------
(***************************************************************************)
(* A Lambda agent with files.  The invoke task of the daemon takes the     *)
(* invokes one by one and calls the function; Lambda runs the call in an   *)
(* environment, whose adapter checks the session's workspace out of S3,    *)
(* lets the agent work in it, commits it and completes the invoke with the *)
(* version of the manifest: the state that the next turn starts from.      *)
(*                                                                         *)
(* An environment lives on after a call, and its directory with it.  A     *)
(* call may outlive the task that waits for it, so two environments may    *)
(* work for one session.  The agents here keep files and call no service.  *)
(***************************************************************************)
EXTENDS Naturals, Sequences, FiniteSets

CONSTANTS Sessions,
          Files,       \* paths in a workspace
          Envs,        \* bound: environments that Lambda keeps of the function
          Edits,       \* bound: what a turn may do to the files
          Budget       \* bound: turns, and failures, lost answers, kills and stops, together

ASSUME WorkspaceSyncConstants ==
    /\ Edits \subseteq [Files -> {"keep", "write", "remove"}]
    /\ Envs \cap {"idle", "taken", "failed", "down"} = {}
    /\ Budget \in Nat

VARIABLES invokes,    \* invokes sent, each with the state it starts from
          pending,    \* those the queue still has to deliver
          tip,        \* the state in the last node of each session
          awaits,     \* the invoke each session waits for, 0 for none
          task,       \* the invoke task
          envs,       \* the environments, with /tmp/vlinder
          objects,    \* versions of files in the bucket
          manifests,  \* versions of the manifests; a state is the number of one
          completes,
          dropped,    \* invokes acknowledged whose task or completion was lost
          faults

vars == <<invokes, pending, tip, awaits, task, envs, objects, manifests, completes,
          dropped, faults>>
harnessVars == <<invokes, tip, awaits>>
answerVars == <<tip, awaits, completes, dropped>>
bucket == <<objects, manifests>>

None == 0
Resting == [at |-> "idle", invoke |-> 0]
Empty == [f \in Files |-> 0]  \* no file, or none uploaded
Keep == [f \in Files |-> "keep"]

\* dir has the invoke that wrote each file; clean: the directory was emptied for this call.
Fresh == [at |-> "idle", invoke |-> 0, dir |-> Empty, todo |-> {}, edit |-> Keep,
          uploaded |-> Empty, state |-> None, clean |-> TRUE]

SessionOf(i) == invokes[i].session
Present(dir) == {f \in Files : dir[f] # 0}

\* What the files of a state contain.
Content(state) ==
    [f \in Files |-> IF state = None \/ manifests[state].files[f] = 0 THEN 0
                     ELSE objects[manifests[state].files[f]].content]

\* Who did what to which file.
Edited(dir, edit, by) ==
    [f \in Files |-> CASE edit[f] = "keep" -> dir[f]
                       [] edit[f] = "write" -> by
                       [] edit[f] = "remove" -> 0]

Affordable == Len(invokes) + faults < Budget
Fault == Affordable /\ faults' = faults + 1

-----------------------------------------------------------------------------
(* The harness *)

\* resolve_session_context: a turn starts from the state of the session's last node, which
\* is an invoke or a completion.
SendInvoke(s) ==
    /\ awaits[s] = 0 /\ Affordable
    /\ invokes' = Append(invokes, [session |-> s, state |-> tip[s]])
    /\ awaits' = [awaits EXCEPT ![s] = Len(invokes) + 1]
    /\ pending' = pending \cup {Len(invokes) + 1}
    /\ UNCHANGED <<tip, task, envs, bucket, completes, dropped, faults>>

\* The caller stops waiting.
GiveUp(s) ==
    /\ awaits[s] # 0 /\ Fault
    /\ awaits' = [awaits EXCEPT ![s] = 0]
    /\ UNCHANGED <<invokes, pending, tip, task, envs, bucket, completes, dropped>>

\* A completion is recorded as the last node of its session, and answers the harness; or the
\* queue refuses it, which is only logged.
Complete(i, state) ==
    \/ /\ completes' = Append(completes, [invoke |-> i, state |-> state])
       /\ tip' = [tip EXCEPT ![SessionOf(i)] = state]
       /\ awaits' = [awaits EXCEPT ![SessionOf(i)] = IF @ = i THEN 0 ELSE @]
       /\ UNCHANGED <<dropped, faults>>
    \/ /\ Fault /\ dropped' = dropped \cup {i}
       /\ UNCHANGED <<completes, tip, awaits>>

-----------------------------------------------------------------------------
(* The invoke task of LambdaRuntime *)

\* Acknowledged at once; an acknowledgement that fails is ignored, and the invoke comes again.
Take(i) ==
    /\ task.at = "idle" /\ i \in pending
    /\ \/ pending' = pending \ {i} /\ UNCHANGED faults
       \/ Fault /\ UNCHANGED pending
    /\ task' = [at |-> "taken", invoke |-> i]
    /\ UNCHANGED <<invokes, tip, awaits, envs, bucket, completes, dropped>>

\* invoke_function: Lambda hands the call to an environment that has none.
Call(e) ==
    /\ task.at = "taken" /\ envs[e].at = "idle"
    /\ task' = [task EXCEPT !.at = e]
    /\ envs' = [envs EXCEPT ![e] = [Fresh EXCEPT !.at = "received", !.invoke = task.invoke,
                                                 !.dir = envs[e].dir]]
    /\ UNCHANGED <<harnessVars, pending, bucket, completes, dropped, faults>>

\* The call fails before Lambda has it, or its answer is lost while the function runs on.
CallFails ==
    /\ task.at \in Envs \cup {"taken"} /\ Fault
    /\ task' = [task EXCEPT !.at = "failed"]
    /\ UNCHANGED <<harnessVars, pending, envs, bucket, completes, dropped>>

\* Mutant: a failed call is only logged.
LogFailure ==
    /\ task.at = "failed"
    /\ task' = Resting
    /\ UNCHANGED <<invokes, pending, envs, bucket, answerVars, faults>>

\* A failed call is completed by the task, with no state.
AnswerFailure ==
    /\ task.at = "failed"
    /\ Complete(task.invoke, None)
    /\ task' = Resting
    /\ UNCHANGED <<invokes, pending, envs, bucket>>

\* After a stop of the daemon nobody takes the invokes of a Live agent: tasks are spawned
\* only when the agent is deployed.
DaemonStops ==
    /\ task.at # "down" /\ Fault
    /\ task' = [at |-> "down", invoke |-> 0]
    /\ dropped' = dropped \cup (IF task.at = "idle" THEN {} ELSE {task.invoke})
    /\ UNCHANGED <<harnessVars, pending, envs, bucket, completes>>

Redeploy ==
    /\ task.at = "down"
    /\ task' = Resting
    /\ UNCHANGED <<harnessVars, pending, envs, bucket, completes, dropped, faults>>

-----------------------------------------------------------------------------
(* The adapter: dispatch_loop *)

At(e, at) == envs[e].at = at
Invoke(e) == invokes[envs[e].invoke]
Set(e, env) == envs' = [envs EXCEPT ![e] = env]
To(e, at) == Set(e, [envs[e] EXCEPT !.at = at])
Rest(e) == Set(e, [Fresh EXCEPT !.dir = envs[e].dir])
Only(e) == UNCHANGED <<harnessVars, pending, task, completes, dropped>>

\* Any step up to the commit may fail, on the queue, the registry, S3 or the agent.
Fails(e) ==
    /\ envs[e].at \in {"received", "checkout", "committing"} /\ Fault
    /\ To(e, "failing")
    /\ Only(e) /\ UNCHANGED bucket

\* Mutant: a workspace without a parent state is left as it is.
ClearForParent(e) ==
    /\ At(e, "received")
    /\ Set(e, [envs[e] EXCEPT
                  !.at = "checkout",
                  !.dir = IF Invoke(e).state = None THEN @ ELSE Empty,
                  !.todo = Present(Content(Invoke(e).state))])
    /\ Only(e) /\ UNCHANGED <<bucket, faults>>

\* checkout: connected, the adapter removes the directory and reads the manifest.  The
\* result of the removal is ignored.
Clear(e) ==
    /\ At(e, "received")
    /\ LET env == [envs[e] EXCEPT !.at = "checkout",
                                  !.todo = Present(Content(Invoke(e).state))] IN
       \/ Set(e, [env EXCEPT !.dir = Empty]) /\ UNCHANGED faults
       \/ Set(e, [env EXCEPT !.clean = FALSE]) /\ Fault
    /\ Only(e) /\ UNCHANGED bucket

\* download_version, of the version that the manifest of the parent state has.
Download(e, f) ==
    /\ At(e, "checkout") /\ f \in envs[e].todo
    /\ Set(e, [envs[e] EXCEPT !.dir[f] = Content(Invoke(e).state)[f], !.todo = @ \ {f}])
    /\ Only(e) /\ UNCHANGED <<bucket, faults>>

\* The agent works in the directory, and answers or fails with its work half done.
Run(e, edit) ==
    /\ At(e, "checkout") /\ envs[e].todo = {}
    /\ LET dir == Edited(envs[e].dir, edit, envs[e].invoke)
           done == [envs[e] EXCEPT !.at = "committing", !.dir = dir, !.edit = edit,
                                   !.todo = Present(dir)] IN
       \/ Set(e, done) /\ UNCHANGED faults
       \/ Fault /\ Set(e, [done EXCEPT !.at = "failing"])
    /\ Only(e) /\ UNCHANGED bucket

\* Mutant: an upload that fails is only logged.
UploadFails(e, f) ==
    /\ At(e, "committing") /\ f \in envs[e].todo
    /\ Set(e, [envs[e] EXCEPT !.todo = @ \ {f}, !.uploaded[f] = Len(objects) + 1])
    /\ Only(e) /\ UNCHANGED <<bucket, faults>>

\* upload_file: a new version of the session's file.
Upload(e, f) ==
    /\ At(e, "committing") /\ f \in envs[e].todo
    /\ objects' = Append(objects, [session |-> Invoke(e).session, file |-> f,
                                   content |-> envs[e].dir[f]])
    /\ Set(e, [envs[e] EXCEPT !.todo = @ \ {f}, !.uploaded[f] = Len(objects) + 1])
    /\ Only(e) /\ UNCHANGED <<manifests, faults>>

\* The manifest last: a commit that fails before leaves versions that no manifest has.
PutManifest(e) ==
    /\ At(e, "committing") /\ envs[e].todo = {}
    /\ manifests' = Append(manifests, [session |-> Invoke(e).session, by |-> envs[e].invoke,
                                       files |-> envs[e].uploaded, edit |-> envs[e].edit,
                                       clean |-> envs[e].clean])
    /\ Set(e, [envs[e] EXCEPT !.at = "committed", !.state = Len(manifests) + 1])
    /\ Only(e) /\ UNCHANGED <<objects, faults>>

\* The directory of a committed workspace is removed, if it can be.
CleanUp(e) ==
    /\ At(e, "committed")
    /\ \/ Set(e, [envs[e] EXCEPT !.at = "answering", !.dir = Empty]) /\ UNCHANGED faults
       \/ To(e, "answering") /\ Fault
    /\ Only(e) /\ UNCHANGED bucket

SendComplete(e) ==
    /\ At(e, "answering")
    /\ Complete(envs[e].invoke, envs[e].state)
    /\ To(e, "acking")
    /\ UNCHANGED <<invokes, pending, task, bucket>>

\* send_error_result: a completion without a state, over a new connection.
SendError(e) ==
    /\ At(e, "failing")
    /\ Complete(envs[e].invoke, None)
    /\ To(e, "acking")
    /\ UNCHANGED <<invokes, pending, task, bucket>>

\* The response: the call returns to the task, if it still waits for it.
Ack(e) ==
    /\ At(e, "acking")
    /\ Rest(e)
    /\ task' = IF task.at = e /\ task.invoke = envs[e].invoke THEN Resting ELSE task
    /\ UNCHANGED <<harnessVars, pending, bucket, completes, dropped, faults>>

\* The function runs out of time, or the response cannot be posted: Lambda resets the
\* environment, whose directory stays, and the call fails.
Kill(e) ==
    /\ ~At(e, "idle") /\ Fault
    /\ Rest(e)
    /\ task' = IF task.at = e /\ task.invoke = envs[e].invoke
               THEN [task EXCEPT !.at = "failed"] ELSE task
    /\ UNCHANGED <<harnessVars, pending, bucket, completes, dropped>>

-----------------------------------------------------------------------------

Init == /\ invokes = <<>> /\ pending = {} /\ tip = [s \in Sessions |-> None]
        /\ awaits = [s \in Sessions |-> 0]
        /\ task = Resting /\ envs = [e \in Envs |-> Fresh]
        /\ objects = <<>> /\ manifests = <<>> /\ completes = <<>> /\ dropped = {} /\ faults = 0

Task == (\E i \in DOMAIN invokes : Take(i)) \/ (\E e \in Envs : Call(e)) \/ AnswerFailure

Adapter(e) == \/ Clear(e) \/ (\E f \in Files : Download(e, f) \/ Upload(e, f))
              \/ (\E edit \in Edits : Run(e, edit)) \/ PutManifest(e) \/ CleanUp(e)
              \/ SendComplete(e) \/ SendError(e) \/ Ack(e)

Next == \/ \E s \in Sessions : SendInvoke(s) \/ GiveUp(s)
        \/ Task \/ CallFails \/ DaemonStops \/ Redeploy
        \/ \E e \in Envs : Adapter(e) \/ Fails(e) \/ Kill(e)

\* The task and the adapters loop; that the agent answers is up to Lambda's limit otherwise.
Fairness == WF_vars(Task) /\ \A e \in Envs : WF_vars(Adapter(e))
Spec == Init /\ [][Next]_vars /\ Fairness

-----------------------------------------------------------------------------
(* Properties *)

State == 0..Len(manifests)
Phase == {"idle", "received", "checkout", "committing", "committed", "answering", "failing",
          "acking"}
Edit == [Files -> {"keep", "write", "remove"}]
Env == [at : Phase, invoke : Nat, dir : [Files -> Nat], todo : SUBSET Files, edit : Edit,
        uploaded : [Files -> Nat], state : Nat, clean : BOOLEAN]

\* The types of messages, task, environments and bucket, and that what they refer to exists.
TypeOK ==
    /\ invokes \in Seq([session : Sessions, state : Nat])
    /\ \A i \in DOMAIN invokes : invokes[i].state \in State
    /\ pending \subseteq DOMAIN invokes /\ dropped \subseteq DOMAIN invokes
    /\ tip \in [Sessions -> State] /\ awaits \in [Sessions -> 0..Len(invokes)]
    /\ task \in [at : Envs \cup {"idle", "taken", "failed", "down"}, invoke : 0..Len(invokes)]
    /\ task.at \notin {"idle", "down"} => task.invoke # 0
    /\ envs \in [Envs -> Env]
    /\ \A e \in Envs : /\ envs[e].invoke \in 0..Len(invokes)
                       /\ ~At(e, "idle") => envs[e].invoke # 0
                       /\ \A f \in Files : envs[e].uploaded[f] \in 0..Len(objects)
    /\ objects \in Seq([session : Sessions, file : Files, content : Nat])
    /\ manifests \in Seq([session : Sessions, by : Nat, files : [Files -> Nat], edit : Edit,
                          clean : BOOLEAN])
    /\ \A n \in DOMAIN manifests : /\ manifests[n].by \in DOMAIN invokes
                                   /\ \A f \in Files : manifests[n].files[f] \in 0..Len(objects)
    /\ completes \in Seq([invoke : Nat, state : Nat])
    /\ \A c \in DOMAIN completes : /\ completes[c].invoke \in DOMAIN invokes
                                   /\ completes[c].state \in State
    /\ faults \in 0..Budget

\* A manifest has the files of the state its turn began with, as that turn changed them and
\* nothing else: whatever other calls, of whatever session, were killed or failed in the same
\* directory, and whatever other environments uploaded for the same session meanwhile.  The
\* exception is a directory that could not be removed before the checkout.
EditedOnly ==
    \A n \in DOMAIN manifests :
        LET m == manifests[n] IN
        m.clean => Content(n) = Edited(Content(invokes[m.by].state), m.edit, m.by)

\* And the state of a completion is the manifest that its own call committed; all that it
\* names is in the bucket, under the keys of its session.
OwnSnapshot ==
    \A c \in DOMAIN completes : completes[c].state # None =>
        LET m == manifests[completes[c].state] IN
        /\ m.by = completes[c].invoke /\ m.session = SessionOf(m.by)
        /\ \A f \in Files : m.files[f] # 0 => /\ objects[m.files[f]].session = m.session
                                              /\ objects[m.files[f]].file = f

\* What a completion hands on is the workspace of its own turn, in both senses.
SnapshotOfTurn == EditedOnly /\ OwnSnapshot

\* Whatever fails in the adapter, in S3, in Lambda or between: when nothing is under way any
\* more, every invoke has been completed, but for one whose completion the queue refused or
\* that the task had in hand when the daemon stopped.
AnsweredAtRest ==
    (pending = {} /\ task.at \in {"idle", "down"} /\ \A e \in Envs : At(e, "idle")) =>
        \A i \in DOMAIN invokes :
            i \in dropped \/ \E c \in DOMAIN completes : completes[c].invoke = i
=============================================================================
