-------------------------- MODULE WorkspaceSyncProofs --------------------------
(***************************************************************************)
(* Theorems about WorkspaceSync, for all sessions, files, environments and *)
(* edits, and any number of turns and failures.                            *)
(***************************************************************************)
EXTENDS WorkspaceSync, SequenceTheorems, TLAPS
-----------------------------------------------------------------------------
(* Sequences *)

\* Elements of a sequence of S are in S.
LEMMA SeqElement ==
    ASSUME NEW S, NEW q \in Seq(S)
    PROVE  /\ \A i \in DOMAIN q : q[i] \in S
           /\ DOMAIN q = 1..Len(q)
           /\ Len(q) \in Nat
  BY LenProperties

\* Appending keeps every element where it is and adds one at the end.
LEMMA SeqAppend ==
    ASSUME NEW S, NEW q \in Seq(S), NEW x \in S
    PROVE  /\ Append(q, x) \in Seq(S)
           /\ Len(Append(q, x)) = Len(q) + 1
           /\ DOMAIN Append(q, x) = DOMAIN q \cup {Len(q) + 1}
           /\ \A i \in DOMAIN q : Append(q, x)[i] = q[i]
           /\ Append(q, x)[Len(q) + 1] = x
  BY AppendProperties, LenProperties

\* A sequence that keeps the elements of another.
Continues(r, q) == DOMAIN q \subseteq DOMAIN r /\ \A i \in DOMAIN q : r[i] = q[i]

LEMMA AppendContinues ==
    ASSUME NEW S, NEW q \in Seq(S), NEW x \in S
    PROVE  Continues(Append(q, x), q)
  BY SeqAppend DEF Continues

LEMMA SelfContinues == ASSUME NEW q PROVE Continues(q, q)
  BY DEF Continues

-----------------------------------------------------------------------------
(* The inductive invariant *)

\* A version of a file, as an environment uploaded it.
IsUpload(version, session, f) ==
    version # 0 => objects[version].session = session /\ objects[version].file = f

\* A manifest names versions of the files of its session.
ManifestOK(n) ==
    LET m == manifests[n] IN
    /\ m.session = SessionOf(m.by)
    /\ \A f \in Files : IsUpload(m.files[f], m.session, f)
    /\ m.clean => Content(n) = Edited(Content(invokes[m.by].state), m.edit, m.by)
ManifestsOK == \A n \in DOMAIN manifests : ManifestOK(n)

\* The state that the invoke of an environment starts from.
Parent(env) == invokes[env.invoke].state

\* While it checks out, a directory that was emptied has the files of the parent state that
\* have been downloaded, and nothing else.
CheckedOut(env) ==
    env.at = "checkout" /\ env.clean =>
        \A f \in Files : env.dir[f] = IF f \in env.todo THEN 0 ELSE Content(Parent(env))[f]

\* Then those of the turn, which are uploaded one by one.
UploadedOf(env, f) ==
    LET version == env.uploaded[f] IN
    IF f \in env.todo \/ env.dir[f] = 0 THEN version = 0
    ELSE /\ version # 0 /\ objects[version].content = env.dir[f]
         /\ IsUpload(version, SessionOf(env.invoke), f)
Uploading(env) ==
    env.at = "committing" =>
        /\ env.todo \subseteq Present(env.dir)
        /\ env.clean => env.dir = Edited(Content(Parent(env)), env.edit, env.invoke)
        /\ \A f \in Files : UploadedOf(env, f)

\* Then the environment has the manifest it has put, and at last its completion is sent.
EnvOK(env) ==
    /\ env.at \in {"received", "checkout"} => env.uploaded = Empty
    /\ CheckedOut(env) /\ Uploading(env)
    /\ env.at \in {"committed", "answering"} =>
           env.state \in DOMAIN manifests /\ manifests[env.state].by = env.invoke
    /\ env.at = "acking" => \/ env.invoke \in dropped
                            \/ \E c \in DOMAIN completes : completes[c].invoke = env.invoke
EnvsOK == \A e \in Envs : EnvOK(envs[e])

\* The state of a completion is the manifest of its invoke.
CompletesOK == \A c \in DOMAIN completes :
                   completes[c].state # None =>
                       manifests[completes[c].state].by = completes[c].invoke

\* An invoke waits in the queue or is with the task until it is answered or lost.
Answered(i) == i \in dropped \/ \E c \in DOMAIN completes : completes[c].invoke = i
InvokesKept == \A i \in DOMAIN invokes :
                   \/ i \in pending \/ Answered(i)
                   \/ task.at \notin {"idle", "down"} /\ task.invoke = i

IInv == TypeOK /\ ManifestsOK /\ EnvsOK /\ CompletesOK /\ InvokesKept

-----------------------------------------------------------------------------
(* Types, part by part *)

InvokeRecord == [session : Sessions, state : Nat]
CompleteRecord == [invoke : Nat, state : Nat]
ObjectRecord == [session : Sessions, file : Files, content : Nat]
ManifestRecord == [session : Sessions, by : Nat, files : [Files -> Nat], edit : Edit,
                   clean : BOOLEAN]
TaskRecord == [at : Envs \cup {"idle", "taken", "failed", "down"}, invoke : 0..Len(invokes)]

InvokesTyped == /\ invokes \in Seq(InvokeRecord)
                /\ \A i \in DOMAIN invokes : invokes[i].state \in State
                /\ pending \subseteq DOMAIN invokes
HarnessTyped == tip \in [Sessions -> State] /\ awaits \in [Sessions -> 0..Len(invokes)]
CompletesTyped == /\ completes \in Seq(CompleteRecord)
                  /\ \A c \in DOMAIN completes : /\ completes[c].invoke \in DOMAIN invokes
                                                 /\ completes[c].state \in State
                  /\ dropped \subseteq DOMAIN invokes
TaskTyped == task \in TaskRecord /\ (task.at \notin {"idle", "down"} => task.invoke # 0)
EnvsTyped == /\ envs \in [Envs -> Env]
             /\ \A e \in Envs : /\ envs[e].invoke \in 0..Len(invokes)
                                /\ ~At(e, "idle") => envs[e].invoke # 0
                                /\ \A f \in Files : envs[e].uploaded[f] \in 0..Len(objects)
ObjectsTyped == objects \in Seq(ObjectRecord)
ManifestsTyped ==
    /\ manifests \in Seq(ManifestRecord)
    /\ \A n \in DOMAIN manifests : /\ manifests[n].by \in DOMAIN invokes
                                   /\ \A f \in Files : manifests[n].files[f] \in 0..Len(objects)

LEMMA TypeParts ==
    TypeOK <=> /\ InvokesTyped /\ HarnessTyped /\ CompletesTyped /\ TaskTyped /\ EnvsTyped
               /\ ObjectsTyped /\ ManifestsTyped /\ faults \in 0..Budget
  BY DEF TypeOK, InvokesTyped, HarnessTyped, CompletesTyped, TaskTyped, EnvsTyped, ObjectsTyped,
         ManifestsTyped, InvokeRecord, CompleteRecord, ObjectRecord, ManifestRecord, TaskRecord

LEMMA TypePartsNext ==
    ASSUME InvokesTyped', HarnessTyped', CompletesTyped', TaskTyped', EnvsTyped',
           ObjectsTyped', ManifestsTyped', faults' \in 0..Budget
    PROVE  TypeOK'
  BY DEF TypeOK, InvokesTyped, HarnessTyped, CompletesTyped, TaskTyped, EnvsTyped, ObjectsTyped,
         ManifestsTyped, InvokeRecord, CompleteRecord, ObjectRecord, ManifestRecord, TaskRecord

LEMMA Lengths ==
    ASSUME TypeOK
    PROVE  /\ DOMAIN invokes = 1..Len(invokes) /\ Len(invokes) \in Nat
           /\ DOMAIN completes = 1..Len(completes) /\ Len(completes) \in Nat
           /\ DOMAIN objects = 1..Len(objects) /\ Len(objects) \in Nat
           /\ DOMAIN manifests = 1..Len(manifests) /\ Len(manifests) \in Nat
           /\ \A i \in DOMAIN invokes : invokes[i] \in InvokeRecord
           /\ \A n \in DOMAIN manifests : manifests[n] \in ManifestRecord
           /\ \A n \in DOMAIN objects : objects[n] \in ObjectRecord
           /\ \A n \in DOMAIN completes : completes[n] \in CompleteRecord
  <1>1. /\ invokes \in Seq(InvokeRecord) /\ completes \in Seq(CompleteRecord)
        /\ objects \in Seq(ObjectRecord) /\ manifests \in Seq(ManifestRecord)
    BY TypeParts DEF InvokesTyped, CompletesTyped, ObjectsTyped, ManifestsTyped
  <1> QED BY <1>1, SeqElement

\* The environment of a call.
LEMMA EnvType ==
    ASSUME TypeOK, NEW e \in Envs
    PROVE  /\ envs[e] \in Env /\ envs[e].invoke \in 0..Len(invokes)
           /\ ~At(e, "idle") => /\ envs[e].invoke \in DOMAIN invokes
                                /\ Invoke(e) \in InvokeRecord /\ Invoke(e).state \in State
           /\ \A f \in Files : envs[e].uploaded[f] \in 0..Len(objects)
  <1>1. /\ envs[e] \in Env /\ envs[e].invoke \in 0..Len(invokes)
        /\ ~At(e, "idle") => envs[e].invoke # 0
        /\ \A f \in Files : envs[e].uploaded[f] \in 0..Len(objects)
    BY TypeParts DEF EnvsTyped
  <1>2. ~At(e, "idle") => envs[e].invoke \in DOMAIN invokes
    BY <1>1, Lengths
  <1> QED BY <1>1, <1>2, Lengths, TypeParts DEF Invoke, InvokesTyped

LEMMA SetStep ==
    ASSUME TypeOK, NEW e \in Envs, NEW env \in Env, Set(e, env)
    PROVE  /\ envs' \in [Envs -> Env] /\ envs'[e] = env
           /\ \A x \in Envs : x # e => envs'[x] = envs[x]
  <1>1. envs \in [Envs -> Env]
    BY TypeParts DEF EnvsTyped
  <1> QED BY <1>1 DEF Set

-----------------------------------------------------------------------------
(* What is said of earlier messages, versions and manifests stays true *)

Grows == /\ Continues(invokes', invokes) /\ Continues(objects', objects)
         /\ Continues(manifests', manifests) /\ Continues(completes', completes)
         /\ dropped \subseteq dropped'

LEMMA ContentKept ==
    ASSUME TypeOK, Grows, NEW state \in State
    PROVE  Content(state)' = Content(state)
  <1>1. CASE state = None
    BY <1>1 DEF Content
  <1>2. CASE state # None
    <2>1. state \in DOMAIN manifests
      BY <1>2, Lengths DEF State, None
    <2>2. manifests'[state] = manifests[state]
      BY <2>1 DEF Grows, Continues
    <2>3. \A f \in Files : manifests[state].files[f] # 0 =>
              objects'[manifests[state].files[f]] = objects[manifests[state].files[f]]
      BY <2>1, Lengths, TypeParts DEF ManifestsTyped, Grows, Continues
    <2> QED BY <2>2, <2>3 DEF Content
  <1> QED BY <1>1, <1>2

LEMMA UploadKept ==
    ASSUME TypeOK, Grows, NEW version \in 0..Len(objects), NEW session, NEW f,
           IsUpload(version, session, f)
    PROVE  IsUpload(version, session, f)' /\ (version # 0 => objects'[version] = objects[version])
  BY Lengths DEF IsUpload, Grows, Continues

LEMMA ManifestKept ==
    ASSUME TypeOK, Grows, NEW n \in DOMAIN manifests, ManifestOK(n)
    PROVE  ManifestOK(n)'
  <1>1. manifests'[n] = manifests[n] /\ n \in State
    BY Lengths DEF Grows, Continues, State
  <1>2. PICK m : m = manifests[n]
    OBVIOUS
  <1>3. /\ m.by \in DOMAIN invokes
        /\ \A f \in Files : m.files[f] \in 0..Len(objects)
    BY <1>2, TypeParts DEF ManifestsTyped
  <1>4. PICK parent : parent = invokes[m.by].state
    OBVIOUS
  <1>5. invokes'[m.by] = invokes[m.by] /\ parent \in State
    BY <1>3, <1>4, TypeParts DEF Grows, Continues, InvokesTyped
  <1>6. Content(n)' = Content(n) /\ Content(parent)' = Content(parent)
    BY <1>1, <1>5, ContentKept
  <1>7. \A f \in Files : IsUpload(m.files[f], m.session, f) => IsUpload(m.files[f], m.session, f)'
    BY <1>3, UploadKept
  <1>8. /\ m.session = invokes[m.by].session
        /\ \A f \in Files : IsUpload(m.files[f], m.session, f)
        /\ m.clean => Content(n) = Edited(Content(parent), m.edit, m.by)
    BY <1>2, <1>4 DEF ManifestOK, SessionOf
  <1>9. (/\ m.session = invokes[m.by].session
         /\ \A f \in Files : IsUpload(m.files[f], m.session, f)
         /\ m.clean => Content(n) = Edited(Content(parent), m.edit, m.by))'
    BY <1>5, <1>6, <1>7, <1>8 DEF Edited
  <1> QED BY <1>1, <1>2, <1>4, <1>5, <1>9 DEF ManifestOK, SessionOf

\* What an environment may refer to.
EnvTyped(env) == /\ env \in Env /\ env.invoke \in 0..Len(invokes)
                 /\ env.at # "idle" => env.invoke # 0
                 /\ \A f \in Files : env.uploaded[f] \in 0..Len(objects)

\* An environment that does nothing.
LEMMA EnvKept ==
    ASSUME TypeOK, Grows, NEW env, EnvTyped(env), EnvOK(env)
    PROVE  EnvOK(env)'
  <1>1. CASE env.at = "idle"
    BY <1>1 DEF EnvOK, CheckedOut, Uploading
  <1>2. CASE env.at # "idle"
    <2>1. PICK i \in DOMAIN invokes : i = env.invoke
      BY <1>2, Lengths DEF EnvTyped
    <2>2. PICK parent \in State : parent = invokes[i].state
      BY TypeParts DEF InvokesTyped
    <2>3. invokes'[i] = invokes[i] /\ Content(parent)' = Content(parent)
      BY ContentKept DEF Grows, Continues
    <2>4. CheckedOut(env)'
      BY <2>1, <2>2, <2>3 DEF EnvOK, CheckedOut, Parent
    <2>5. Uploading(env)'
      <3> SUFFICES ASSUME env.at = "committing"
                   PROVE  /\ env.todo \subseteq Present(env.dir)
                          /\ env.clean => env.dir = Edited(Content(parent)', env.edit, env.invoke)
                          /\ \A f \in Files : UploadedOf(env, f)'
        BY <2>1, <2>2, <2>3 DEF Uploading, Parent
      <3>1. env.clean => env.dir = Edited(Content(parent)', env.edit, env.invoke)
        BY <2>1, <2>2, <2>3 DEF EnvOK, Uploading, Parent
      <3>2. ASSUME NEW f \in Files
            PROVE  UploadedOf(env, f)'
        <4>1. PICK version \in 0..Len(objects) : version = env.uploaded[f]
          BY DEF EnvTyped
        <4>2. PICK session : session = SessionOf(i)
          OBVIOUS
        <4>3. session = SessionOf(i)'
          BY <2>3, <4>2 DEF SessionOf
        <4>4. UploadedOf(env, f)
          BY DEF EnvOK, Uploading
        <4> QED BY <2>1, <4>1, <4>2, <4>3, <4>4, UploadKept DEF UploadedOf
      <3>3. env.todo \subseteq Present(env.dir)
        BY DEF EnvOK, Uploading
      <3> QED BY <3>1, <3>2, <3>3
    <2>6. env.at \in {"committed", "answering"} =>
              env.state \in DOMAIN manifests' /\ manifests'[env.state].by = env.invoke
      BY DEF EnvOK, Grows, Continues
    <2>7. env.at = "acking" => \/ env.invoke \in dropped'
                               \/ \E c \in DOMAIN completes' : completes'[c].invoke = env.invoke
      BY DEF EnvOK, Grows, Continues
    <2>8. env.at \in {"received", "checkout"} => env.uploaded = Empty
      BY DEF EnvOK
    <2> QED BY <2>4, <2>5, <2>6, <2>7, <2>8 DEF EnvOK, Empty
  <1> QED BY <1>1, <1>2

LEMMA EnvIsTyped == ASSUME TypeOK, NEW e \in Envs PROVE EnvTyped(envs[e])
  BY TypeParts DEF EnvsTyped, EnvTyped, At

\* It is enough to look at what a step adds.
LEMMA Kept ==
    ASSUME IInv, Grows,
           \A n \in DOMAIN manifests' : n \notin DOMAIN manifests => ManifestOK(n)',
           \A e \in Envs : envs'[e] = envs[e] \/ EnvOK(envs[e])',
           \A c \in DOMAIN completes' : c \notin DOMAIN completes =>
               (completes'[c].state # None =>
                    manifests'[completes'[c].state].by = completes'[c].invoke),
           InvokesKept'
    PROVE  ManifestsOK' /\ EnvsOK' /\ CompletesOK' /\ InvokesKept'
  <1>1. ManifestsOK'
    BY ManifestKept DEF IInv, ManifestsOK
  <1>2. EnvsOK'
    <2> SUFFICES ASSUME NEW e \in Envs, NEW env, env = envs[e], envs'[e] = env
                 PROVE  EnvOK(env)'
      BY DEF EnvsOK
    <2> QED BY EnvIsTyped, EnvKept DEF IInv, EnvsOK
  <1>3. ASSUME NEW c \in DOMAIN completes, completes'[c].state # None
        PROVE  manifests'[completes'[c].state].by = completes'[c].invoke
    <2>1. completes'[c] = completes[c] /\ completes[c].state \in State
      BY TypeParts DEF IInv, Grows, Continues, CompletesTyped
    <2>2. completes[c].state \in DOMAIN manifests
      BY <1>3, <2>1, Lengths DEF IInv, State, None
    <2> QED BY <1>3, <2>1, <2>2 DEF IInv, CompletesOK, Grows, Continues
  <1>4. CompletesOK'
    BY <1>3 DEF CompletesOK
  <1> QED BY <1>1, <1>2, <1>4

LEMMA AnsweredKept == ASSUME Grows, NEW i, Answered(i) PROVE Answered(i)'
  BY DEF Answered, Grows, Continues

\* The invokes that are held in the queue or by the task, when neither changes.
LEMMA HeldKept ==
    ASSUME IInv, Grows, UNCHANGED <<pending, task>>, DOMAIN invokes' = DOMAIN invokes
    PROVE  InvokesKept'
  BY AnsweredKept DEF IInv, InvokesKept

\* An environment goes on, and perhaps the task.
LEMMA EnvMoves ==
    ASSUME IInv, NEW e \in Envs, NEW env \in Env, Set(e, env),
           UNCHANGED <<harnessVars, pending, bucket, completes, dropped>>,
           EnvTyped(env), EnvOK(env), TaskTyped', faults' \in 0..Budget, InvokesKept'
    PROVE  IInv'
  <1>1. /\ UNCHANGED <<invokes, tip, awaits, pending, objects, manifests, completes, dropped>>
        /\ TypeOK
    BY DEF harnessVars, bucket, IInv
  <1>2. Grows
    BY <1>1, SelfContinues DEF Grows
  <1>3. /\ envs' \in [Envs -> Env] /\ envs'[e] = env
        /\ \A x \in Envs : x # e => envs'[x] = envs[x]
    BY <1>1, SetStep
  <1>4. EnvsTyped'
    BY <1>1, <1>3, TypeParts DEF EnvsTyped, EnvTyped, At
  <1>5. InvokesTyped' /\ HarnessTyped' /\ CompletesTyped' /\ ObjectsTyped' /\ ManifestsTyped'
    BY <1>1, TypeParts DEF InvokesTyped, HarnessTyped, CompletesTyped, ObjectsTyped,
                           ManifestsTyped, State
  <1>6. TypeOK'
    BY <1>4, <1>5, TypePartsNext
  <1>7. EnvOK(env)'
    BY <1>1, <1>2, EnvKept
  <1>8. EnvOK(envs[e])'
    BY <1>3, <1>7
  <1> QED BY <1>1, <1>2, <1>3, <1>6, <1>8, Kept DEF IInv

\* Most of what an environment does is its own affair.
LEMMA EnvAlone ==
    ASSUME IInv, NEW e \in Envs, NEW env \in Env, Set(e, env), Only(e), UNCHANGED bucket,
           env.invoke = envs[e].invoke, env.uploaded = envs[e].uploaded, ~At(e, "idle"),
           EnvOK(env), faults' \in 0..Budget
    PROVE  IInv'
  <1>1. /\ UNCHANGED <<harnessVars, pending, bucket, completes, dropped>> /\ task' = task
        /\ invokes' = invokes
    BY DEF Only, harnessVars
  <1>2. Grows
    BY <1>1, SelfContinues DEF Grows, harnessVars, bucket
  <1>3. InvokesKept'
    BY <1>1, <1>2, HeldKept DEF harnessVars
  <1>4. TaskTyped'
    BY <1>1, TypeParts DEF IInv, TaskTyped, TaskRecord
  <1>5. EnvTyped(env)
    BY EnvIsTyped DEF IInv, EnvTyped, At
  <1> QED BY <1>1, <1>3, <1>4, <1>5, EnvMoves

LEMMA FaultType == ASSUME TypeOK, Fault PROVE faults' \in 0..Budget
  BY Lengths, TypeParts, WorkspaceSyncConstants DEF Fault, Affordable

LEMMA FaultsKept == ASSUME TypeOK, UNCHANGED faults PROVE faults' \in 0..Budget
  BY TypeParts

-----------------------------------------------------------------------------
(* The adapter, step by step *)

LEMMA BusyInvoke ==
    ASSUME TypeOK, NEW e \in Envs, ~At(e, "idle")
    PROVE  envs[e].invoke \in DOMAIN invokes /\ Parent(envs[e]) \in State
           /\ Invoke(e) = invokes[envs[e].invoke] /\ Invoke(e).state = Parent(envs[e])
  BY EnvType, TypeParts DEF Invoke, Parent, InvokesTyped

LEMMA ContentType ==
    ASSUME TypeOK, NEW state \in State
    PROVE  Content(state) \in [Files -> Nat]
  <1>1. ASSUME NEW f \in Files, state # None, manifests[state].files[f] # 0
        PROVE  objects[manifests[state].files[f]].content \in Nat
    <2>1. state \in DOMAIN manifests
      BY <1>1, Lengths DEF State, None
    <2>2. manifests[state].files[f] \in DOMAIN objects
      BY <1>1, <2>1, Lengths, TypeParts DEF ManifestsTyped
    <2> QED BY <2>2, Lengths DEF ObjectRecord
  <1> QED BY <1>1 DEF Content

LEMMA ClearInv == ASSUME IInv, NEW e \in Envs, Clear(e) PROVE IInv'
  <1> DEFINE todo == Present(Content(Invoke(e).state))
             gone == [envs[e] EXCEPT !.at = "checkout", !.todo = todo, !.dir = Empty]
             left == [envs[e] EXCEPT !.at = "checkout", !.todo = todo, !.clean = FALSE]
  <1>1. envs[e] \in Env /\ EnvOK(envs[e]) /\ At(e, "received") /\ ~At(e, "idle")
    BY EnvType DEF IInv, EnvsOK, Clear, At
  <1>2. todo \subseteq Files /\ Empty \in [Files -> Nat] /\ "checkout" \in Phase
    BY DEF Present, Empty, Phase
  <1>3. gone \in Env /\ left \in Env
    BY <1>1, <1>2 DEF Env
  <1>4. /\ gone.at = "checkout" /\ gone.todo = todo /\ gone.dir = Empty
        /\ gone.invoke = envs[e].invoke /\ gone.uploaded = envs[e].uploaded
        /\ left.at = "checkout" /\ left.clean = FALSE
        /\ left.invoke = envs[e].invoke /\ left.uploaded = envs[e].uploaded
    BY <1>1 DEF Env
  <1>5. envs[e].uploaded = Empty
    BY <1>1 DEF EnvOK, At
  <1>6. EnvOK(left)
    BY <1>4, <1>5 DEF EnvOK, CheckedOut, Uploading
  <1>7. EnvOK(gone)
    <2>1. \A f \in Files : f \notin todo => Content(Parent(gone))[f] = 0
      BY <1>1, <1>4, BusyInvoke DEF IInv, Present, Parent
    <2>2. CheckedOut(gone)
      BY <1>4, <2>1 DEF CheckedOut, Empty
    <2> QED BY <1>4, <1>5, <2>2 DEF EnvOK, Uploading
  <1>8. Only(e) /\ UNCHANGED bucket
    BY DEF Clear
  <1>9. CASE Set(e, gone) /\ UNCHANGED faults
    <2>1. faults' \in 0..Budget
      BY <1>9, FaultsKept DEF IInv
    <2> HIDE DEF gone
    <2> QED BY <1>1, <1>3, <1>4, <1>7, <1>8, <1>9, <2>1, EnvAlone
  <1>10. CASE Set(e, left) /\ Fault
    <2>1. faults' \in 0..Budget
      BY <1>10, FaultType DEF IInv
    <2> HIDE DEF left
    <2> QED BY <1>1, <1>3, <1>4, <1>6, <1>8, <1>10, <2>1, EnvAlone
  <1> QED BY <1>9, <1>10 DEF Clear

LEMMA DownloadInv ==
    ASSUME IInv, NEW e \in Envs, NEW f \in Files, Download(e, f) PROVE IInv'
  <1> DEFINE parent == Content(Parent(envs[e]))
             env == [envs[e] EXCEPT !.dir[f] = parent[f], !.todo = @ \ {f}]
  <1>1. envs[e] \in Env /\ EnvOK(envs[e]) /\ At(e, "checkout") /\ ~At(e, "idle")
    BY EnvType DEF IInv, EnvsOK, Download, At
  <1>2. parent \in [Files -> Nat]
    BY <1>1, BusyInvoke, ContentType DEF IInv
  <1>3. env \in Env
    BY <1>1, <1>2 DEF Env
  <1>4. /\ env.at = "checkout" /\ env.invoke = envs[e].invoke /\ env.uploaded = envs[e].uploaded
        /\ env.clean = envs[e].clean /\ env.todo = envs[e].todo \ {f}
        /\ env.dir = [envs[e].dir EXCEPT ![f] = parent[f]]
        /\ envs[e].dir \in [Files -> Nat]
    BY <1>1 DEF Env, At
  <1>5. CheckedOut(env)
    <2>1. envs[e].clean =>
              \A g \in Files : envs[e].dir[g] = IF g \in envs[e].todo THEN 0 ELSE parent[g]
      BY <1>1 DEF EnvOK, CheckedOut, At
    <2>2. Content(Parent(env)) = parent
      BY <1>4 DEF Parent
    <2> HIDE DEF env, parent
    <2> QED BY <1>4, <2>1, <2>2 DEF CheckedOut
  <1>6. EnvOK(env)
    BY <1>1, <1>4, <1>5 DEF EnvOK, Uploading, At
  <1>7. Set(e, env) /\ Only(e) /\ UNCHANGED bucket /\ UNCHANGED faults
    BY <1>1, BusyInvoke DEF Download, IInv
  <1>8. faults' \in 0..Budget
    BY <1>7, FaultsKept DEF IInv
  <1> HIDE DEF env
  <1> QED BY <1>1, <1>3, <1>4, <1>6, <1>7, <1>8, EnvAlone

LEMMA EditedType ==
    ASSUME NEW dir \in [Files -> Nat], NEW edit \in Edit, NEW by \in Nat
    PROVE  Edited(dir, edit, by) \in [Files -> Nat]
  <1>1. \A f \in Files : edit[f] \in {"keep", "write", "remove"}
    BY DEF Edit
  <1>2. ASSUME NEW f \in Files
        PROVE  (CASE edit[f] = "keep" -> dir[f]
                  [] edit[f] = "write" -> by
                  [] edit[f] = "remove" -> 0) \in Nat
    BY <1>1
  <1> QED BY <1>2 DEF Edited

\* An environment that failed has nothing to keep to.
LEMMA FailingOK == ASSUME NEW env, env.at = "failing" PROVE EnvOK(env)
  BY DEF EnvOK, CheckedOut, Uploading

LEMMA RunInv ==
    ASSUME IInv, NEW e \in Envs, NEW edit \in Edits, Run(e, edit) PROVE IInv'
  <1> DEFINE dir == Edited(envs[e].dir, edit, envs[e].invoke)
             done == [envs[e] EXCEPT !.at = "committing", !.dir = dir, !.edit = edit,
                                     !.todo = Present(dir)]
             failed == [done EXCEPT !.at = "failing"]
  <1>1. /\ envs[e] \in Env /\ EnvOK(envs[e]) /\ At(e, "checkout") /\ ~At(e, "idle")
        /\ envs[e].todo = {} /\ envs[e].at = "checkout"
    BY EnvType DEF IInv, EnvsOK, Run, At
  <1>2. edit \in Edit /\ envs[e].dir \in [Files -> Nat] /\ envs[e].invoke \in Nat
    BY <1>1, WorkspaceSyncConstants DEF Edit, Env
  <1>3. dir \in [Files -> Nat] /\ Present(dir) \subseteq Files
    BY <1>2, EditedType DEF Present
  <1>4. done \in Env /\ failed \in Env
    <2> HIDE DEF dir
    <2> QED BY <1>1, <1>2, <1>3 DEF Env, Phase
  <1>5. /\ done.at = "committing" /\ done.dir = dir /\ done.edit = edit
        /\ done.todo = Present(dir) /\ done.clean = envs[e].clean
        /\ done.invoke = envs[e].invoke /\ done.uploaded = envs[e].uploaded
        /\ failed.at = "failing"
        /\ failed.invoke = envs[e].invoke /\ failed.uploaded = envs[e].uploaded
    <2> HIDE DEF dir
    <2> QED BY <1>1 DEF Env
  <1>6. EnvOK(done)
    <2>1. ASSUME envs[e].clean
          PROVE  dir = Edited(Content(Parent(done)), edit, done.invoke)
      <3>1. Content(Parent(done)) \in [Files -> Nat]
        BY <1>1, <1>5, BusyInvoke, ContentType DEF IInv, Parent
      <3>2. \A f \in Files : envs[e].dir[f] = Content(Parent(done))[f]
        BY <1>1, <1>5, <2>1 DEF EnvOK, CheckedOut, Parent
      <3>3. envs[e].dir = Content(Parent(done))
        BY <1>2, <3>1, <3>2
      <3> QED BY <1>5, <3>3
    <2>2. \A f \in Files : f \in Present(dir) \/ dir[f] = 0
      BY DEF Present
    <2>3. \A f \in Files : done.uploaded[f] = 0
      BY <1>1, <1>5 DEF EnvOK, Empty
    <2>4. Uploading(done)
      <3> HIDE DEF dir, done
      <3> QED BY <1>5, <2>1, <2>2, <2>3 DEF Uploading, UploadedOf
    <2> QED BY <1>5, <2>4 DEF EnvOK, CheckedOut
  <1>7. EnvOK(failed)
    BY <1>5, FailingOK
  <1>8. Only(e) /\ UNCHANGED bucket
    BY DEF Run
  <1>9. CASE Set(e, done) /\ UNCHANGED faults
    <2>1. faults' \in 0..Budget
      BY <1>9, FaultsKept DEF IInv
    <2> HIDE DEF done
    <2> QED BY <1>1, <1>4, <1>5, <1>6, <1>8, <1>9, <2>1, EnvAlone
  <1>10. CASE Fault /\ Set(e, failed)
    <2>1. faults' \in 0..Budget
      BY <1>10, FaultType DEF IInv
    <2> HIDE DEF failed
    <2> QED BY <1>1, <1>4, <1>5, <1>7, <1>8, <1>10, <2>1, EnvAlone
  <1> QED BY <1>9, <1>10 DEF Run

LEMMA FailsInv == ASSUME IInv, NEW e \in Envs, Fails(e) PROVE IInv'
  <1> DEFINE env == [envs[e] EXCEPT !.at = "failing"]
  <1>1. envs[e] \in Env /\ ~At(e, "idle")
    BY EnvType DEF IInv, Fails, At
  <1>2. env \in Env /\ env.at = "failing" /\ env.invoke = envs[e].invoke
        /\ env.uploaded = envs[e].uploaded
    BY <1>1 DEF Env, Phase
  <1>3. EnvOK(env)
    BY <1>2, FailingOK
  <1>4. Set(e, env) /\ Only(e) /\ UNCHANGED bucket /\ faults' \in 0..Budget
    BY FaultType DEF Fails, To, IInv
  <1> HIDE DEF env
  <1> QED BY <1>1, <1>2, <1>3, <1>4, EnvAlone

LEMMA CleanUpInv == ASSUME IInv, NEW e \in Envs, CleanUp(e) PROVE IInv'
  <1> DEFINE gone == [envs[e] EXCEPT !.at = "answering", !.dir = Empty]
             left == [envs[e] EXCEPT !.at = "answering"]
  <1>1. envs[e] \in Env /\ EnvOK(envs[e]) /\ envs[e].at = "committed" /\ ~At(e, "idle")
    BY EnvType DEF IInv, EnvsOK, CleanUp, At
  <1>2. Empty \in [Files -> Nat]
    BY DEF Empty
  <1>3. /\ gone \in Env /\ gone.at = "answering" /\ gone.invoke = envs[e].invoke
        /\ gone.uploaded = envs[e].uploaded /\ gone.state = envs[e].state
        /\ left \in Env /\ left.at = "answering" /\ left.invoke = envs[e].invoke
        /\ left.uploaded = envs[e].uploaded /\ left.state = envs[e].state
    BY <1>1, <1>2 DEF Env, Phase
  <1>4. EnvOK(gone) /\ EnvOK(left)
    <2> HIDE DEF gone, left
    <2> QED BY <1>1, <1>3 DEF EnvOK, CheckedOut, Uploading
  <1>5. Only(e) /\ UNCHANGED bucket
    BY DEF CleanUp
  <1>6. faults' \in 0..Budget
    BY FaultType, FaultsKept DEF CleanUp, IInv
  <1>7. Set(e, gone) \/ Set(e, left)
    BY DEF CleanUp, To
  <1> HIDE DEF gone, left
  <1> QED BY <1>1, <1>3, <1>4, <1>5, <1>6, <1>7, EnvAlone

-----------------------------------------------------------------------------
(* Calls begin and end *)

\* An environment at rest keeps its directory.
LEMMA RestFacts ==
    ASSUME IInv, NEW e \in Envs, Rest(e)
    PROVE  \E env \in Env : Set(e, env) /\ EnvTyped(env) /\ EnvOK(env)
  <1> DEFINE env == [Fresh EXCEPT !.dir = envs[e].dir]
  <1>1. envs[e].dir \in [Files -> Nat]
    BY EnvType DEF IInv, Env
  <1>2. Empty \in [Files -> Nat] /\ Keep \in Edit /\ "idle" \in Phase
    BY DEF Empty, Keep, Edit, Phase
  <1>3. env \in Env /\ env.at = "idle" /\ env.invoke = 0 /\ env.uploaded = Empty
    BY <1>1, <1>2 DEF Fresh, Env, None
  <1>4. EnvTyped(env) /\ EnvOK(env)
    <2>1. \A f \in Files : env.uploaded[f] \in 0..Len(objects)
      BY <1>3, Lengths DEF Empty, IInv
    <2>2. 0 \in 0..Len(invokes)
      BY Lengths DEF IInv
    <2> HIDE DEF env
    <2> QED BY <1>3, <2>1, <2>2 DEF EnvTyped, EnvOK, CheckedOut, Uploading
  <1>5. Set(e, env)
    BY DEF Rest
  <1> QED BY <1>3, <1>4, <1>5

\* The task goes on with the invoke it has.
LEMMA HeldOn ==
    ASSUME IInv, Grows, UNCHANGED pending, DOMAIN invokes' = DOMAIN invokes,
           task'.invoke = task.invoke, task'.at \notin {"idle", "down"}
    PROVE  InvokesKept'
  BY AnsweredKept DEF IInv, InvokesKept

LEMMA TaskType ==
    ASSUME TypeOK
    PROVE  /\ task.at \in Envs \cup {"idle", "taken", "failed", "down"}
           /\ task.invoke \in 0..Len(invokes)
           /\ task.at \notin {"idle", "down"} => task.invoke # 0
           /\ task \in TaskRecord
  BY TypeParts DEF TaskTyped, TaskRecord

LEMMA TaskMoves ==
    ASSUME TypeOK, UNCHANGED invokes, NEW at \in Envs \cup {"taken", "failed"},
           task.at \notin {"idle", "down"}, task' = [task EXCEPT !.at = at]
    PROVE  TaskTyped' /\ task'.invoke = task.invoke /\ task'.at \notin {"idle", "down"}
  <1>1. at \notin {"idle", "down"}
    BY WorkspaceSyncConstants
  <1> QED BY <1>1, TaskType DEF TaskTyped, TaskRecord

LEMMA TaskRests ==
    ASSUME TypeOK, task' \in {Resting, [at |-> "down", invoke |-> 0]}
    PROVE  TaskTyped'
  BY DEF TaskTyped, TaskRecord, Resting

LEMMA CallInv == ASSUME IInv, NEW e \in Envs, Call(e) PROVE IInv'
  <1> DEFINE env == [Fresh EXCEPT !.at = "received", !.invoke = task.invoke, !.dir = envs[e].dir]
  <1>1. /\ task.at = "taken" /\ task' = [task EXCEPT !.at = e] /\ Set(e, env)
        /\ UNCHANGED <<harnessVars, pending, bucket, completes, dropped, faults>>
    BY DEF Call, Set
  <1>2. task.invoke \in 0..Len(invokes) /\ task.invoke # 0 /\ task.invoke \in Nat
    BY <1>1, TaskType, Lengths DEF IInv
  <1>3. envs[e].dir \in [Files -> Nat] /\ "received" \in Phase
    BY EnvType DEF IInv, Env, Phase
  <1>4. /\ env \in Env /\ env.at = "received" /\ env.invoke = task.invoke
        /\ env.uploaded = Empty
    <2>1. Empty \in [Files -> Nat] /\ Keep \in Edit
      BY DEF Empty, Keep, Edit
    <2> QED BY <1>2, <1>3, <2>1 DEF Fresh, Env, None
  <1>5. EnvTyped(env) /\ EnvOK(env)
    <2>1. \A f \in Files : env.uploaded[f] \in 0..Len(objects)
      BY <1>4, Lengths DEF Empty, IInv
    <2> HIDE DEF env
    <2> QED BY <1>2, <1>4, <2>1 DEF EnvTyped, EnvOK, CheckedOut, Uploading
  <1>6. TaskTyped' /\ task'.invoke = task.invoke /\ task'.at \notin {"idle", "down"}
    BY <1>1, TaskMoves DEF IInv, harnessVars
  <1>7. InvokesKept'
    <2>1. Grows
      BY <1>1, SelfContinues DEF Grows, harnessVars, bucket
    <2> QED BY <1>1, <1>6, <2>1, HeldOn DEF harnessVars
  <1>8. faults' \in 0..Budget
    BY <1>1, FaultsKept DEF IInv
  <1> HIDE DEF env
  <1> QED BY <1>1, <1>4, <1>5, <1>6, <1>7, <1>8, EnvMoves

LEMMA AckInv == ASSUME IInv, NEW e \in Envs, Ack(e) PROVE IInv'
  <1>1. /\ envs[e].at = "acking" /\ Rest(e)
        /\ task' = IF task.at = e /\ task.invoke = envs[e].invoke THEN Resting ELSE task
        /\ UNCHANGED <<harnessVars, pending, bucket, completes, dropped, faults>>
    BY DEF Ack, At
  <1>2. PICK env \in Env : Set(e, env) /\ EnvTyped(env) /\ EnvOK(env)
    BY <1>1, RestFacts
  <1>3. Answered(envs[e].invoke)
    BY <1>1 DEF IInv, EnvsOK, EnvOK, Answered
  <1>4. Grows /\ UNCHANGED <<invokes, pending, completes, dropped>>
    BY <1>1, SelfContinues DEF Grows, harnessVars, bucket
  <1>5. TaskTyped'
    BY <1>1, <1>4, TaskRests, TypeParts DEF IInv, TaskTyped, TaskRecord
  <1>6. InvokesKept'
    <2>1. CASE task' = task
      BY <1>4, <2>1, HeldKept
    <2>2. CASE task' # task
      <3>1. task.invoke = envs[e].invoke
        BY <1>1, <2>2
      <3>2. \A i \in DOMAIN invokes : i \in pending \/ Answered(i)
        BY <1>3, <3>1 DEF IInv, InvokesKept
      <3> QED BY <1>4, <3>2 DEF InvokesKept, Answered
    <2> QED BY <2>1, <2>2
  <1>7. faults' \in 0..Budget
    BY <1>1, FaultsKept DEF IInv
  <1> QED BY <1>1, <1>2, <1>5, <1>6, <1>7, EnvMoves

LEMMA KillInv == ASSUME IInv, NEW e \in Envs, Kill(e) PROVE IInv'
  <1>1. /\ Rest(e) /\ Fault
        /\ task' = IF task.at = e /\ task.invoke = envs[e].invoke
                   THEN [task EXCEPT !.at = "failed"] ELSE task
        /\ UNCHANGED <<harnessVars, pending, bucket, completes, dropped>>
    BY DEF Kill
  <1>2. PICK env \in Env : Set(e, env) /\ EnvTyped(env) /\ EnvOK(env)
    BY <1>1, RestFacts
  <1>3. Grows /\ UNCHANGED <<invokes, pending>>
    BY <1>1, SelfContinues DEF Grows, harnessVars, bucket
  <1>4. TaskTyped' /\ InvokesKept'
    <2>1. CASE task' = task
      BY <1>3, <2>1, HeldKept, TypeParts DEF IInv, TaskTyped, TaskRecord
    <2>2. CASE task' # task
      <3>1. task.at \notin {"idle", "down"} /\ task' = [task EXCEPT !.at = "failed"]
        BY <1>1, <2>2, WorkspaceSyncConstants
      <3>2. TaskTyped' /\ task'.invoke = task.invoke /\ task'.at \notin {"idle", "down"}
        BY <1>3, <3>1, TaskMoves DEF IInv
      <3> QED BY <1>3, <3>2, HeldOn
    <2> QED BY <2>1, <2>2
  <1>5. faults' \in 0..Budget
    BY <1>1, FaultType DEF IInv
  <1> QED BY <1>1, <1>2, <1>4, <1>5, EnvMoves

-----------------------------------------------------------------------------
(* The bucket grows *)

\* An environment puts something into the bucket.
LEMMA EnvPuts ==
    ASSUME IInv, NEW e \in Envs, NEW env \in Env, Set(e, env), Only(e), UNCHANGED faults,
           Grows, ObjectsTyped', ManifestsTyped', ~At(e, "idle"), env.invoke = envs[e].invoke,
           \A f \in Files : env.uploaded[f] \in 0..Len(objects'),
           \A n \in DOMAIN manifests' : n \notin DOMAIN manifests => ManifestOK(n)',
           EnvOK(env)'
    PROVE  IInv'
  <1>1. UNCHANGED <<invokes, tip, awaits, pending, task, completes, dropped>> /\ TypeOK
    BY DEF Only, harnessVars, IInv
  <1>2. /\ envs' \in [Envs -> Env] /\ envs'[e] = env
        /\ \A x \in Envs : x # e => envs'[x] = envs[x]
    BY <1>1, SetStep
  <1>3. State \subseteq State' /\ 0..Len(objects) \subseteq 0..Len(objects')
    <2>1. /\ 1..Len(manifests) \subseteq 1..Len(manifests') /\ Len(manifests') \in Nat
          /\ 1..Len(objects) \subseteq 1..Len(objects') /\ Len(objects') \in Nat
      BY <1>1, Lengths, SeqElement DEF Grows, Continues, ObjectsTyped, ManifestsTyped
    <2> QED BY <1>1, <2>1, Lengths DEF State
  <1>4. EnvsTyped'
    <2>1. EnvTyped(envs[e])
      BY <1>1, EnvIsTyped
    <2> QED BY <1>1, <1>2, <1>3, <2>1, TypeParts DEF EnvsTyped, EnvTyped, At
  <1>5. InvokesTyped' /\ HarnessTyped' /\ CompletesTyped'
    BY <1>1, <1>3, TypeParts DEF InvokesTyped, HarnessTyped, CompletesTyped
  <1>6. TaskTyped' /\ faults' \in 0..Budget
    BY <1>1, TypeParts DEF TaskTyped, TaskRecord
  <1>7. TypeOK'
    BY <1>4, <1>5, <1>6, TypePartsNext
  <1>8. InvokesKept'
    BY <1>1, HeldKept
  <1>9. EnvOK(envs[e])'
    BY <1>2
  <1> QED BY <1>1, <1>2, <1>7, <1>8, <1>9, Kept DEF IInv

LEMMA UploadInv ==
    ASSUME IInv, NEW e \in Envs, NEW f \in Files, Upload(e, f) PROVE IInv'
  <1> DEFINE object == [session |-> Invoke(e).session, file |-> f, content |-> envs[e].dir[f]]
             next == [envs[e] EXCEPT !.todo = @ \ {f}, !.uploaded[f] = Len(objects) + 1]
  <1>0. PICK env : env = next
    OBVIOUS
  <1> HIDE DEF next
  <1>1. /\ envs[e] \in Env /\ EnvOK(envs[e]) /\ envs[e].at = "committing" /\ ~At(e, "idle")
        /\ f \in envs[e].todo /\ TypeOK
    BY EnvType DEF IInv, EnvsOK, Upload, At
  <1>2. /\ objects' = Append(objects, object) /\ Set(e, env) /\ Only(e)
        /\ UNCHANGED <<invokes, manifests, completes, dropped, faults>>
    BY <1>0 DEF Upload, Only, harnessVars, next
  <1>3. object \in ObjectRecord
    BY <1>1, EnvType DEF ObjectRecord, InvokeRecord, Env
  <1>4. objects \in Seq(ObjectRecord)
    BY <1>1, TypeParts DEF ObjectsTyped
  <1>5. PICK new : new = Len(objects) + 1
    OBVIOUS
  <1>6. /\ new \in Nat /\ new # 0 /\ Len(objects') = new /\ objects' \in Seq(ObjectRecord)
        /\ objects'[new] = object /\ Continues(objects', objects)
        /\ 0..Len(objects) \subseteq 0..new
    <2> HIDE DEF object
    <2> QED BY <1>1, <1>2, <1>3, <1>4, <1>5, SeqAppend, AppendContinues, Lengths
  <1>7. Grows
    BY <1>2, <1>6, SelfContinues DEF Grows
  <1>8. /\ env \in Env /\ env.at = "committing" /\ env.invoke = envs[e].invoke
        /\ env.dir = envs[e].dir /\ env.edit = envs[e].edit /\ env.clean = envs[e].clean
        /\ env.todo = envs[e].todo \ {f} /\ env.uploaded = [envs[e].uploaded EXCEPT ![f] = new]
        /\ envs[e].uploaded \in [Files -> Nat]
    BY <1>0, <1>1, <1>5, <1>6 DEF Env, next
  <1>9. \A g \in Files : env.uploaded[g] \in 0..Len(objects')
    <2> QED BY <1>1, <1>6, <1>8, EnvType
  <1>10. EnvOK(env)'
    <2> DEFINE old == envs[e]
    <2>1. EnvTyped(old)
      BY <1>1, EnvIsTyped
    <2>2. PICK was : was = old
      OBVIOUS
    <2>3. EnvOK(was)'
      BY <1>1, <1>7, <2>1, <2>2, EnvKept
    <2>5. /\ was.at = "committing" /\ was.dir[f] # 0
          /\ was.todo \subseteq Present(was.dir)
      BY <1>1, <2>2 DEF EnvOK, Uploading, Present
    <2>6. /\ env.at = "committing" /\ env.invoke = was.invoke
          /\ env.dir = was.dir /\ env.edit = was.edit /\ env.clean = was.clean
          /\ env.todo = was.todo \ {f} /\ env.uploaded = [was.uploaded EXCEPT ![f] = new]
          /\ was.uploaded \in [Files -> Nat]
      BY <1>8, <2>2
    <2>7. UploadedOf(env, f)'
      <3>1. SessionOf(was.invoke)' = Invoke(e).session
        BY <1>2, <2>2 DEF SessionOf, Invoke
      <3>2. /\ objects'[new].content = was.dir[f] /\ objects'[new].file = f
            /\ objects'[new].session = Invoke(e).session
        BY <1>6, <2>2
      <3>3. env.uploaded[f] = new
        BY <2>6
      <3> QED BY <1>6, <2>5, <2>6, <3>1, <3>2, <3>3 DEF UploadedOf, IsUpload
    <2>8. ASSUME NEW g \in Files, g # f
          PROVE  UploadedOf(env, g)'
      <3>1. UploadedOf(was, g)'
        BY <2>3, <2>5 DEF EnvOK, Uploading
      <3>2. env.uploaded[g] = was.uploaded[g] /\ (g \in env.todo <=> g \in was.todo)
        BY <2>6, <2>8
      <3> QED BY <2>6, <3>1, <3>2 DEF UploadedOf
    <2>9. Uploading(env)'
      <3>1. env.clean => env.dir = Edited(Content(Parent(env))', env.edit, env.invoke)
        BY <2>3, <2>5, <2>6 DEF EnvOK, Uploading, Parent
      <3> QED BY <2>5, <2>6, <2>7, <2>8, <3>1 DEF Uploading
    <2> QED BY <2>6, <2>9 DEF EnvOK, CheckedOut
  <1>11. ObjectsTyped' /\ ManifestsTyped'
    BY <1>1, <1>2, <1>6, Lengths, TypeParts DEF ObjectsTyped, ManifestsTyped
  <1>12. UNCHANGED faults /\ \A n \in DOMAIN manifests' : n \in DOMAIN manifests
    BY <1>2
  <1> QED BY <1>1, <1>2, <1>7, <1>8, <1>9, <1>10, <1>11, <1>12, EnvPuts

LEMMA PutManifestInv == ASSUME IInv, NEW e \in Envs, PutManifest(e) PROVE IInv'
  <1> DEFINE next == [envs[e] EXCEPT !.at = "committed", !.state = Len(manifests) + 1]
             manifest == [session |-> Invoke(e).session, by |-> envs[e].invoke,
                          files |-> envs[e].uploaded, edit |-> envs[e].edit,
                          clean |-> envs[e].clean]
  <1>1. PICK env, was, m, new : /\ env = next /\ was = envs[e] /\ m = manifest
                                /\ new = Len(manifests) + 1
    OBVIOUS
  <1>2. /\ was \in Env /\ EnvOK(was) /\ was.at = "committing" /\ was.todo = {} /\ ~At(e, "idle")
        /\ TypeOK
    BY <1>1, EnvType DEF IInv, EnvsOK, PutManifest, At
  <1>3. /\ manifests' = Append(manifests, m) /\ Set(e, env) /\ Only(e)
        /\ UNCHANGED <<invokes, objects, completes, dropped, faults>>
    BY <1>1 DEF PutManifest, Only, harnessVars
  <1>4. /\ m \in ManifestRecord /\ m.by = was.invoke /\ m.session = SessionOf(was.invoke)
        /\ m.files = was.uploaded /\ m.edit = was.edit /\ m.clean = was.clean
        /\ m.by \in DOMAIN invokes
    <2>1. Invoke(e).session \in Sessions /\ was.invoke \in DOMAIN invokes
      BY <1>1, <1>2, EnvType DEF InvokeRecord
    <2> QED BY <1>1, <1>2, <2>1 DEF ManifestRecord, Env, SessionOf, Invoke
  <1>5. manifests \in Seq(ManifestRecord)
    BY <1>2, TypeParts DEF ManifestsTyped
  <1>6. /\ new \in Nat /\ new # 0 /\ Len(manifests') = new /\ manifests' \in Seq(ManifestRecord)
        /\ DOMAIN manifests' = DOMAIN manifests \cup {new}
        /\ manifests'[new] = m /\ Continues(manifests', manifests)
    <2> HIDE DEF manifest
    <2> QED BY <1>1, <1>2, <1>3, <1>4, <1>5, SeqAppend, AppendContinues, Lengths
  <1>7. Grows
    BY <1>3, <1>6, SelfContinues DEF Grows
  <1>8. /\ env \in Env /\ env.at = "committed" /\ env.invoke = was.invoke
        /\ env.uploaded = was.uploaded /\ env.state = new
    BY <1>1, <1>2, <1>6 DEF Env, Phase
  <1>9. EnvOK(env)'
    BY <1>4, <1>6, <1>8 DEF EnvOK, CheckedOut, Uploading
  <1>10. PICK parent : parent = Parent(was)
    OBVIOUS
  <1>11. parent \in State /\ parent = invokes[was.invoke].state
    BY <1>1, <1>2, <1>10, BusyInvoke DEF Parent
  <1>12. \A f \in Files : UploadedOf(was, f)
    BY <1>2 DEF EnvOK, Uploading
  <1>13. \A f \in Files : IsUpload(m.files[f], m.session, f)'
    BY <1>2, <1>3, <1>4, <1>12 DEF UploadedOf, IsUpload
  <1>14. ASSUME m.clean
         PROVE  Content(new)' = Edited(Content(parent), m.edit, m.by)
    <2>1. was.dir = Edited(Content(parent), m.edit, m.by)
      BY <1>2, <1>4, <1>10, <1>14 DEF EnvOK, Uploading
    <2>2. \A f \in Files : Content(new)'[f] = was.dir[f]
      BY <1>2, <1>3, <1>4, <1>6, <1>12 DEF Content, UploadedOf, None
    <2>3. Content(new)' = [f \in Files |-> Content(new)'[f]] /\ was.dir \in [Files -> Nat]
      BY <1>2 DEF Content, Env
    <2> QED BY <2>1, <2>2, <2>3
  <1>15. Content(parent)' = Content(parent)
    BY <1>2, <1>7, <1>11, ContentKept
  <1>16. ManifestOK(new)'
    <2>1. m.session = SessionOf(m.by)'
      BY <1>3, <1>4 DEF SessionOf
    <2>2. m.clean => Content(new)' = Edited(Content(parent)', m.edit, m.by)
      BY <1>14, <1>15
    <2>3. manifests'[new] = m /\ invokes'[m.by].state = parent
      BY <1>3, <1>4, <1>6, <1>11
    <2> QED BY <1>13, <2>1, <2>2, <2>3 DEF ManifestOK
  <1>17. \A n \in DOMAIN manifests' : n \notin DOMAIN manifests => ManifestOK(n)'
    BY <1>6, <1>16
  <1>18. \A f \in Files : was.uploaded[f] \in 0..Len(objects')
    BY <1>1, <1>2, <1>3, EnvType
  <1>19. ObjectsTyped' /\ ManifestsTyped'
    <2>1. ObjectsTyped /\ ManifestsTyped
      BY <1>2, TypeParts
    <2>2. ASSUME NEW n \in DOMAIN manifests'
          PROVE  /\ manifests'[n].by \in DOMAIN invokes
                 /\ \A f \in Files : manifests'[n].files[f] \in 0..Len(objects)
      <3>1. CASE n = new
        BY <1>3, <1>4, <1>6, <1>18, <3>1
      <3>2. CASE n \in DOMAIN manifests
        BY <1>6, <2>1, <3>2 DEF ManifestsTyped, Continues
      <3> QED BY <1>6, <3>1, <3>2
    <2> QED BY <1>3, <1>6, <2>1, <2>2 DEF ObjectsTyped, ManifestsTyped
  <1> QED BY <1>1, <1>2, <1>3, <1>7, <1>8, <1>9, <1>17, <1>18, <1>19, EnvPuts

-----------------------------------------------------------------------------
(* Completions *)

\* A completion is recorded or lost; its invoke is answered either way.
LEMMA CompleteStep ==
    ASSUME IInv, NEW i \in DOMAIN invokes, NEW state \in State, Complete(i, state),
           state # None => manifests[state].by = i,
           UNCHANGED <<invokes, pending, objects, manifests>>
    PROVE  /\ Grows /\ Answered(i)' /\ faults' \in 0..Budget
           /\ InvokesTyped' /\ HarnessTyped' /\ CompletesTyped' /\ ObjectsTyped' /\ ManifestsTyped'
           /\ \A c \in DOMAIN completes' : c \notin DOMAIN completes =>
                  (completes'[c].state # None =>
                       manifests'[completes'[c].state].by = completes'[c].invoke)
  <1>1. TypeOK /\ InvokesTyped /\ HarnessTyped /\ CompletesTyped /\ ObjectsTyped /\ ManifestsTyped
    BY TypeParts DEF IInv
  <1>2. InvokesTyped' /\ ObjectsTyped' /\ ManifestsTyped'
    BY <1>1 DEF InvokesTyped, ObjectsTyped, ManifestsTyped, State
  <1>3. CASE Fault /\ dropped' = dropped \cup {i} /\ UNCHANGED <<completes, tip, awaits>>
    <2>1. Grows
      BY <1>3, SelfContinues DEF Grows
    <2>2. HarnessTyped' /\ CompletesTyped'
      BY <1>1, <1>3 DEF HarnessTyped, CompletesTyped, State
    <2>3. faults' \in 0..Budget
      BY <1>1, <1>3, FaultType
    <2> QED BY <1>2, <1>3, <2>1, <2>2, <2>3 DEF Answered
  <1>4. CASE /\ completes' = Append(completes, [invoke |-> i, state |-> state])
             /\ tip' = [tip EXCEPT ![SessionOf(i)] = state]
             /\ awaits' = [awaits EXCEPT ![SessionOf(i)] = IF @ = i THEN 0 ELSE @]
             /\ UNCHANGED <<dropped, faults>>
    <2> DEFINE complete == [invoke |-> i, state |-> state]
    <2>1. PICK new : new = Len(completes) + 1
      OBVIOUS
    <2>2. /\ complete \in CompleteRecord /\ complete.invoke = i /\ complete.state = state
          /\ SessionOf(i) \in Sessions
      BY <1>1, Lengths DEF CompleteRecord, SessionOf, InvokeRecord, State
    <2>3. completes' = Append(completes, complete)
      BY <1>4
    <2> HIDE DEF complete
    <2>4. /\ completes' \in Seq(CompleteRecord) /\ DOMAIN completes' = DOMAIN completes \cup {new}
          /\ completes'[new] = complete /\ Continues(completes', completes)
      BY <1>1, <2>1, <2>2, <2>3, SeqAppend, AppendContinues DEF CompletesTyped
    <2>5. Grows
      BY <1>4, <2>4, SelfContinues DEF Grows
    <2>6. HarnessTyped'
      <3>1. tip' \in [Sessions -> State]
        BY <1>1, <1>4, <2>2 DEF HarnessTyped
      <3>2. awaits' \in [Sessions -> 0..Len(invokes)]
        <4>1. 0 \in 0..Len(invokes)
          BY <1>1, Lengths
        <4> QED BY <1>1, <1>4, <4>1 DEF HarnessTyped
      <3> QED BY <3>1, <3>2 DEF HarnessTyped, State
    <2>7. CompletesTyped'
      <3>1. ASSUME NEW c \in DOMAIN completes'
            PROVE  completes'[c].invoke \in DOMAIN invokes /\ completes'[c].state \in State
        BY <1>1, <2>2, <2>4 DEF CompletesTyped, Continues
      <3> QED BY <1>1, <1>4, <2>4, <3>1 DEF CompletesTyped, State
    <2>8. faults' \in 0..Budget
      BY <1>1, <1>4, FaultsKept
    <2>9. Answered(i)'
      BY <2>2, <2>4 DEF Answered
    <2>10. ASSUME NEW c \in DOMAIN completes', c \notin DOMAIN completes, completes'[c].state # None
           PROVE  manifests'[completes'[c].state].by = completes'[c].invoke
      BY <2>2, <2>4, <2>10
    <2> QED BY <1>2, <2>5, <2>6, <2>7, <2>8, <2>9, <2>10
  <1> QED BY <1>3, <1>4 DEF Complete

\* The environment of a completed invoke.
LEMMA CompletedInv ==
    ASSUME IInv, NEW e \in Envs, NEW state \in State, Complete(envs[e].invoke, state),
           state # None => manifests[state].by = envs[e].invoke,
           ~At(e, "idle"), To(e, "acking"), UNCHANGED <<invokes, pending, task, bucket>>
    PROVE  IInv'
  <1>1. PICK env, i : env = [envs[e] EXCEPT !.at = "acking"] /\ i = envs[e].invoke
    OBVIOUS
  <1>2. envs[e] \in Env /\ i \in DOMAIN invokes /\ TypeOK /\ Complete(i, state)
    BY <1>1, EnvType DEF IInv
  <1>3. /\ env \in Env /\ env.at = "acking" /\ env.invoke = i
        /\ env.uploaded = envs[e].uploaded
    BY <1>1, <1>2 DEF Env, Phase
  <1>4. UNCHANGED <<objects, manifests>>
    BY DEF bucket
  <1>5. /\ Grows /\ Answered(i)' /\ faults' \in 0..Budget
        /\ InvokesTyped' /\ HarnessTyped' /\ CompletesTyped' /\ ObjectsTyped' /\ ManifestsTyped'
        /\ \A c \in DOMAIN completes' : c \notin DOMAIN completes =>
               (completes'[c].state # None =>
                    manifests'[completes'[c].state].by = completes'[c].invoke)
    BY <1>1, <1>2, <1>4, CompleteStep
  <1>6. Set(e, env)
    BY <1>1 DEF To
  <1>7. /\ envs' \in [Envs -> Env] /\ envs'[e] = env
        /\ \A x \in Envs : x # e => envs'[x] = envs[x]
    BY <1>2, <1>3, <1>6, SetStep
  <1>8. EnvsTyped'
    <2>1. EnvTyped(envs[e])
      BY <1>2, EnvIsTyped
    <2> QED BY <1>1, <1>2, <1>3, <1>4, <1>7, <2>1, TypeParts DEF EnvsTyped, EnvTyped, At
  <1>9. TaskTyped'
    BY <1>2, TypeParts DEF TaskTyped, TaskRecord
  <1>10. TypeOK'
    BY <1>5, <1>8, <1>9, TypePartsNext
  <1>11. EnvOK(env)'
    BY <1>3, <1>5 DEF EnvOK, CheckedOut, Uploading, Answered
  <1>12. EnvOK(envs[e])'
    BY <1>7, <1>11
  <1>13. InvokesKept'
    BY <1>5, HeldKept
  <1>14. \A n \in DOMAIN manifests' : n \in DOMAIN manifests
    BY <1>4
  <1> QED BY <1>5, <1>7, <1>10, <1>12, <1>13, <1>14, Kept DEF IInv

LEMMA SendCompleteInv == ASSUME IInv, NEW e \in Envs, SendComplete(e) PROVE IInv'
  <1>1. envs[e].at = "answering" /\ ~At(e, "idle")
    BY DEF SendComplete, At
  <1>2. envs[e].state \in DOMAIN manifests /\ manifests[envs[e].state].by = envs[e].invoke
    BY <1>1 DEF IInv, EnvsOK, EnvOK
  <1>3. envs[e].state \in State
    BY <1>2, Lengths DEF IInv, State
  <1> QED BY <1>1, <1>2, <1>3, CompletedInv DEF SendComplete

LEMMA SendErrorInv == ASSUME IInv, NEW e \in Envs, SendError(e) PROVE IInv'
  <1>1. ~At(e, "idle")
    BY DEF SendError, At
  <1>2. None \in State
    BY Lengths DEF IInv, State, None
  <1> QED BY <1>1, <1>2, CompletedInv DEF SendError

\* A step that leaves environments and bucket alone.
LEMMA EnvsRest ==
    ASSUME IInv, UNCHANGED <<envs, bucket>>, Grows,
           InvokesTyped', HarnessTyped', CompletesTyped', TaskTyped', faults' \in 0..Budget,
           \A c \in DOMAIN completes' : c \notin DOMAIN completes =>
               (completes'[c].state # None =>
                    manifests'[completes'[c].state].by = completes'[c].invoke),
           InvokesKept'
    PROVE  IInv'
  <1>1. UNCHANGED <<envs, objects, manifests>> /\ TypeOK
    BY DEF bucket, IInv
  <1>2. DOMAIN invokes \subseteq DOMAIN invokes' /\ 0..Len(invokes) \subseteq 0..Len(invokes')
    <2>1. /\ DOMAIN invokes = 1..Len(invokes) /\ Len(invokes) \in Nat
          /\ DOMAIN invokes' = 1..Len(invokes') /\ Len(invokes') \in Nat
      BY <1>1, Lengths, SeqElement DEF InvokesTyped
    <2> QED BY <2>1 DEF Grows, Continues
  <1>3. EnvsTyped'
    BY <1>1, <1>2, TypeParts DEF EnvsTyped, At
  <1>4. ObjectsTyped' /\ ManifestsTyped'
    BY <1>1, <1>2, TypeParts DEF ObjectsTyped, ManifestsTyped
  <1>5. TypeOK'
    BY <1>3, <1>4, TypePartsNext
  <1>6. \A n \in DOMAIN manifests' : n \in DOMAIN manifests
    BY <1>1
  <1> QED BY <1>1, <1>5, <1>6, Kept DEF IInv

LEMMA AnswerFailureInv == ASSUME IInv, AnswerFailure PROVE IInv'
  <1>1. PICK i : i = task.invoke
    OBVIOUS
  <1>2. /\ Complete(i, None) /\ task.at = "failed" /\ task' = Resting
        /\ UNCHANGED <<invokes, pending, envs, objects, manifests>> /\ UNCHANGED <<envs, bucket>>
    BY <1>1 DEF AnswerFailure, bucket
  <1>3. i \in DOMAIN invokes /\ None \in State /\ TypeOK
    BY <1>1, <1>2, TaskType, Lengths DEF IInv, State, None
  <1>4. /\ Grows /\ Answered(i)' /\ faults' \in 0..Budget
        /\ InvokesTyped' /\ HarnessTyped' /\ CompletesTyped'
        /\ \A c \in DOMAIN completes' : c \notin DOMAIN completes =>
               (completes'[c].state # None =>
                    manifests'[completes'[c].state].by = completes'[c].invoke)
    BY <1>2, <1>3, CompleteStep
  <1>5. 0 \in 0..Len(invokes')
    BY <1>2, <1>3, Lengths
  <1>6. TaskTyped'
    BY <1>2, <1>5 DEF TaskTyped, TaskRecord, Resting
  <1>7. InvokesKept'
    BY <1>1, <1>2, <1>4, AnsweredKept DEF InvokesKept, IInv
  <1> QED BY <1>2, <1>4, <1>6, <1>7, EnvsRest

-----------------------------------------------------------------------------
(* Harness and task *)

LEMMA SendInvokeInv == ASSUME IInv, NEW s \in Sessions, SendInvoke(s) PROVE IInv'
  <1> DEFINE record == [session |-> s, state |-> tip[s]]
  <1>1. PICK invoke, new : invoke = record /\ new = Len(invokes) + 1
    OBVIOUS
  <1>2. TypeOK /\ InvokesTyped /\ HarnessTyped /\ CompletesTyped /\ TaskTyped
    BY TypeParts DEF IInv
  <1>3. /\ invokes' = Append(invokes, invoke) /\ awaits' = [awaits EXCEPT ![s] = new]
        /\ pending' = pending \cup {new}
        /\ UNCHANGED <<tip, task, envs, objects, manifests, completes, dropped, faults>>
    BY <1>1 DEF SendInvoke, bucket
  <1>4. invoke \in InvokeRecord /\ invoke.state \in State
    BY <1>1, <1>2, Lengths DEF HarnessTyped, InvokeRecord, State
  <1> HIDE DEF record
  <1>5. /\ invokes' \in Seq(InvokeRecord) /\ DOMAIN invokes' = DOMAIN invokes \cup {new}
        /\ invokes'[new] = invoke /\ Continues(invokes', invokes)
        /\ Len(invokes') = new /\ new \in Nat /\ 0..Len(invokes) \subseteq 0..new
    BY <1>1, <1>2, <1>3, <1>4, SeqAppend, AppendContinues, Lengths DEF InvokesTyped
  <1>6. Grows
    BY <1>3, <1>5, SelfContinues DEF Grows
  <1>7. InvokesTyped'
    <2>1. ASSUME NEW i \in DOMAIN invokes'
          PROVE  invokes'[i].state \in State
      BY <1>2, <1>4, <1>5 DEF InvokesTyped, Continues
    <2> QED BY <1>2, <1>3, <1>5, <2>1 DEF InvokesTyped, State
  <1>8. HarnessTyped'
    <2>1. new \in 0..new
      BY <1>5
    <2>2. awaits \in [Sessions -> 0..new]
      BY <1>2, <1>5 DEF HarnessTyped
    <2> QED BY <1>2, <1>3, <1>5, <2>1, <2>2 DEF HarnessTyped, State
  <1>9. CompletesTyped' /\ TaskTyped'
    BY <1>2, <1>3, <1>5 DEF CompletesTyped, TaskTyped, TaskRecord, State
  <1>10. faults' \in 0..Budget
    BY <1>2, <1>3, FaultsKept
  <1>11. InvokesKept'
    BY <1>3, <1>5, <1>6, AnsweredKept DEF IInv, InvokesKept
  <1>12. UNCHANGED <<envs, bucket>> /\ \A c \in DOMAIN completes' : c \in DOMAIN completes
    BY <1>3 DEF bucket
  <1> QED BY <1>6, <1>7, <1>8, <1>9, <1>10, <1>11, <1>12, EnvsRest

\* Messages, environments and bucket stay; the harness stops waiting, or the task goes on.
LEMMA TaskStep ==
    ASSUME IInv, UNCHANGED <<invokes, tip, envs, bucket, completes>>, dropped \subseteq dropped',
           dropped' \subseteq DOMAIN invokes, pending' \subseteq pending,
           awaits' \in [Sessions -> 0..Len(invokes)], TaskTyped', faults' \in 0..Budget,
           InvokesKept'
    PROVE  IInv'
  <1>1. Grows
    BY SelfContinues DEF Grows, bucket
  <1>2. InvokesTyped /\ HarnessTyped /\ CompletesTyped
    BY TypeParts DEF IInv
  <1>3. InvokesTyped' /\ HarnessTyped' /\ CompletesTyped'
    BY <1>2 DEF InvokesTyped, HarnessTyped, CompletesTyped, State, bucket
  <1>4. \A c \in DOMAIN completes' : c \in DOMAIN completes
    OBVIOUS
  <1> QED BY <1>1, <1>3, <1>4, EnvsRest

LEMMA AwaitsType == ASSUME IInv, UNCHANGED awaits PROVE awaits' \in [Sessions -> 0..Len(invokes)]
  BY TypeParts DEF IInv, HarnessTyped

LEMMA DroppedType == ASSUME IInv PROVE dropped \subseteq DOMAIN invokes
  BY TypeParts DEF IInv, CompletesTyped

LEMMA GiveUpInv == ASSUME IInv, NEW s \in Sessions, GiveUp(s) PROVE IInv'
  <1>1. /\ UNCHANGED <<invokes, tip, envs, bucket, completes, dropped, pending, task>> /\ Fault
        /\ awaits' = [awaits EXCEPT ![s] = 0]
    BY DEF GiveUp
  <1>2. awaits' \in [Sessions -> 0..Len(invokes)]
    BY <1>1, Lengths, TypeParts DEF IInv, HarnessTyped
  <1>3. TaskTyped' /\ InvokesKept'
    BY <1>1, TypeParts DEF IInv, TaskTyped, TaskRecord, InvokesKept, Answered
  <1>4. faults' \in 0..Budget
    BY <1>1, FaultType DEF IInv
  <1> QED BY <1>1, <1>2, <1>3, <1>4, DroppedType, TaskStep

LEMMA TakeInv == ASSUME IInv, NEW i \in DOMAIN invokes, Take(i) PROVE IInv'
  <1>1. /\ UNCHANGED <<invokes, tip, awaits, envs, bucket, completes, dropped>>
        /\ task.at = "idle" /\ task' = [at |-> "taken", invoke |-> i]
        /\ pending' = pending \/ pending' = pending \ {i}
    BY DEF Take
  <1>2. TaskTyped'
    BY <1>1, Lengths DEF IInv, TaskTyped, TaskRecord
  <1>3. InvokesKept'
    BY <1>1, <1>2 DEF IInv, InvokesKept, Answered
  <1>4. faults' \in 0..Budget
    BY FaultType, FaultsKept DEF IInv, Take
  <1> QED BY <1>1, <1>2, <1>3, <1>4, AwaitsType, DroppedType, TaskStep

LEMMA CallFailsInv == ASSUME IInv, CallFails PROVE IInv'
  <1>1. /\ UNCHANGED <<invokes, tip, awaits, pending, envs, bucket, completes, dropped>> /\ Fault
        /\ task.at \notin {"idle", "down"} /\ task' = [task EXCEPT !.at = "failed"]
    BY WorkspaceSyncConstants DEF CallFails, harnessVars
  <1>2. TaskTyped' /\ task'.invoke = task.invoke /\ task'.at \notin {"idle", "down"}
    BY <1>1, TaskMoves DEF IInv
  <1>3. InvokesKept'
    BY <1>1, <1>2 DEF IInv, InvokesKept, Answered
  <1>4. faults' \in 0..Budget
    BY <1>1, FaultType DEF IInv
  <1> QED BY <1>1, <1>2, <1>3, <1>4, AwaitsType, DroppedType, TaskStep

LEMMA DaemonStopsInv == ASSUME IInv, DaemonStops PROVE IInv'
  <1>1. /\ UNCHANGED <<invokes, tip, awaits, pending, envs, bucket, completes>> /\ Fault
        /\ task.at # "down" /\ task' = [at |-> "down", invoke |-> 0]
        /\ dropped' = dropped \cup (IF task.at = "idle" THEN {} ELSE {task.invoke})
    BY DEF DaemonStops, harnessVars
  <1>2. TaskTyped'
    BY <1>1, Lengths DEF IInv, TaskTyped, TaskRecord
  <1>3. task.at # "idle" => task.invoke \in DOMAIN invokes
    BY <1>1, TaskType, Lengths DEF IInv
  <1>4. dropped' \subseteq DOMAIN invokes
    BY <1>1, <1>3, DroppedType
  <1>5. InvokesKept'
    BY <1>1 DEF IInv, InvokesKept, Answered
  <1>6. faults' \in 0..Budget
    BY <1>1, FaultType DEF IInv
  <1> QED BY <1>1, <1>2, <1>4, <1>5, <1>6, AwaitsType, TaskStep

LEMMA RedeployInv == ASSUME IInv, Redeploy PROVE IInv'
  <1>1. /\ UNCHANGED <<invokes, tip, awaits, pending, envs, bucket, completes, dropped, faults>>
        /\ task.at = "down" /\ task' = Resting
    BY DEF Redeploy, harnessVars
  <1>2. TaskTyped'
    BY <1>1, Lengths DEF IInv, TaskTyped, TaskRecord, Resting
  <1>3. InvokesKept'
    BY <1>1 DEF IInv, InvokesKept, Answered
  <1>4. faults' \in 0..Budget
    BY <1>1, FaultsKept DEF IInv
  <1> QED BY <1>1, <1>2, <1>3, <1>4, AwaitsType, DroppedType, TaskStep

-----------------------------------------------------------------------------
(* The invariant *)

LEMMA InitInv == ASSUME Init PROVE IInv
  <1>1. /\ Empty \in [Files -> Nat] /\ Keep \in Edit /\ "idle" \in Phase
        /\ Fresh \in Env /\ Fresh.at = "idle" /\ Fresh.uploaded = Empty /\ Fresh.invoke = 0
    <2>1. Empty \in [Files -> Nat] /\ Keep \in Edit /\ "idle" \in Phase
      BY DEF Empty, Keep, Edit, Phase
    <2> QED BY <2>1 DEF Fresh, Env, None
  <1>2. /\ invokes \in Seq(InvokeRecord) /\ objects \in Seq(ObjectRecord)
        /\ manifests \in Seq(ManifestRecord) /\ completes \in Seq(CompleteRecord)
        /\ DOMAIN invokes = {} /\ DOMAIN manifests = {} /\ DOMAIN completes = {}
        /\ Len(invokes) = 0 /\ Len(objects) = 0 /\ Len(manifests) = 0
        /\ 0 \in 0..0 /\ faults \in 0..Budget
    BY WorkspaceSyncConstants DEF Init
  <1>3. /\ task \in TaskRecord /\ task.at = "idle" /\ envs = [e \in Envs |-> Fresh]
        /\ tip = [s \in Sessions |-> None] /\ awaits = [s \in Sessions |-> 0]
        /\ pending = {} /\ dropped = {}
    BY <1>2 DEF Init, TaskRecord, Resting
  <1>4. InvokesTyped /\ HarnessTyped /\ CompletesTyped /\ TaskTyped /\ ObjectsTyped /\ ManifestsTyped
    BY <1>2, <1>3 DEF InvokesTyped, HarnessTyped, CompletesTyped, TaskTyped, ObjectsTyped,
                      ManifestsTyped, State, None
  <1>5. EnvsTyped
    BY <1>1, <1>2, <1>3 DEF EnvsTyped, At, Empty
  <1>6. TypeOK
    BY <1>2, <1>4, <1>5, TypeParts
  <1>7. EnvOK(Fresh)
    BY <1>1 DEF EnvOK, CheckedOut, Uploading
  <1> QED BY <1>2, <1>3, <1>6, <1>7 DEF IInv, ManifestsOK, EnvsOK, CompletesOK, InvokesKept

LEMMA NextInv == ASSUME IInv, [Next]_vars PROVE IInv'
  <1>1. CASE \E s \in Sessions : SendInvoke(s) \/ GiveUp(s)
    BY <1>1, SendInvokeInv, GiveUpInv
  <1>2. CASE Task
    BY <1>2, TakeInv, CallInv, AnswerFailureInv DEF Task
  <1>3. CASE CallFails \/ DaemonStops \/ Redeploy
    BY <1>3, CallFailsInv, DaemonStopsInv, RedeployInv
  <1>4. ASSUME NEW e \in Envs, Adapter(e)
        PROVE  IInv'
    <2>1. CASE Clear(e) \/ \E f \in Files : Download(e, f) \/ Upload(e, f)
      BY <2>1, ClearInv, DownloadInv, UploadInv
    <2>2. CASE (\E edit \in Edits : Run(e, edit)) \/ PutManifest(e) \/ CleanUp(e)
      BY <2>2, RunInv, PutManifestInv, CleanUpInv
    <2>3. CASE SendComplete(e) \/ SendError(e) \/ Ack(e)
      BY <2>3, SendCompleteInv, SendErrorInv, AckInv
    <2> QED BY <1>4, <2>1, <2>2, <2>3 DEF Adapter
  <1>5. ASSUME NEW e \in Envs, Fails(e) \/ Kill(e)
        PROVE  IInv'
    BY <1>5, FailsInv, KillInv
  <1>6. CASE UNCHANGED vars
    <2>1. UNCHANGED <<invokes, tip, awaits, pending, task, envs, bucket, completes, dropped, faults>>
      BY <1>6 DEF vars, bucket
    <2>2. TaskTyped' /\ InvokesKept'
      BY <2>1, TypeParts DEF IInv, TaskTyped, TaskRecord, InvokesKept, Answered
    <2> QED BY <2>1, <2>2, AwaitsType, DroppedType, FaultsKept, TaskStep DEF IInv
  <1> QED BY <1>1, <1>2, <1>3, <1>4, <1>5, <1>6 DEF Next

\* What holds of every state: the types, what manifests, completions and environments refer
\* to, and where each invoke is.
THEOREM Invariant == Spec => []IInv
  <1>1. Init => IInv
    BY InitInv
  <1>2. IInv /\ [Next]_vars => IInv'
    BY NextInv
  <1> QED BY <1>1, <1>2, PTL DEF Spec

\* Messages, environments and bucket keep their types, and what one of them refers to exists.
THEOREM TypeCorrect == Spec => []TypeOK
  <1>1. IInv => TypeOK
    BY DEF IInv
  <1> QED BY <1>1, Invariant, PTL

\* The state a completion hands to the next turn is the snapshot its own call committed: the
\* files of the parent state as the turn edited them, and none that another call left in the
\* directory of the environment or uploaded for the session meanwhile.
THEOREM SnapshotsTrue == Spec => []SnapshotOfTurn
  <1>1. ASSUME IInv PROVE EditedOnly
    BY <1>1 DEF IInv, ManifestsOK, ManifestOK, EditedOnly
  <1>2. ASSUME IInv PROVE OwnSnapshot
    <2> SUFFICES ASSUME NEW c \in DOMAIN completes, completes[c].state # None,
                        NEW m, m = manifests[completes[c].state]
                 PROVE  /\ m.by = completes[c].invoke /\ m.session = SessionOf(m.by)
                        /\ \A f \in Files : m.files[f] # 0 =>
                               /\ objects[m.files[f]].session = m.session
                               /\ objects[m.files[f]].file = f
      BY DEF OwnSnapshot
    <2>1. completes[c].state \in DOMAIN manifests
      BY <1>2, Lengths, TypeParts DEF IInv, CompletesTyped, State, None
    <2>2. m.by = completes[c].invoke
      BY <1>2 DEF IInv, CompletesOK
    <2>3. m.session = SessionOf(m.by) /\ \A f \in Files : IsUpload(m.files[f], m.session, f)
      BY <1>2, <2>1 DEF IInv, ManifestsOK, ManifestOK
    <2> QED BY <2>2, <2>3 DEF IsUpload
  <1>3. IInv => SnapshotOfTurn
    BY <1>1, <1>2 DEF SnapshotOfTurn
  <1> QED BY <1>3, Invariant, PTL

\* Whatever fails in the adapter, in S3, in Lambda or between, an invoke that nobody holds any
\* more has been completed, or was lost with the task or by the queue.
THEOREM RestAnswered == Spec => []AnsweredAtRest
  <1>1. IInv => AnsweredAtRest
    BY DEF IInv, InvokesKept, AnsweredAtRest, Answered
  <1> QED BY <1>1, Invariant, PTL

================================================================================
