------------------------- MODULE AgentLifecycleProofs -------------------------
(* Proofs about AgentLifecycle: its types, and that the status of an agent tells the truth. *)
EXTENDS AgentLifecycle, SequenceTheorems, TLAPS
-----------------------------------------------------------------------------
(* Sequences *)

\* Appending keeps every element where it is and adds one at the end.
LEMMA SeqAppend ==
    ASSUME NEW S, NEW q \in Seq(S), NEW x \in S
    PROVE  /\ Append(q, x) \in Seq(S)
           /\ Len(Append(q, x)) = Len(q) + 1
           /\ DOMAIN Append(q, x) = DOMAIN q \cup {Len(q) + 1}
           /\ \A i \in DOMAIN q : Append(q, x)[i] = q[i]
           /\ Append(q, x)[Len(q) + 1] = x
  BY AppendProperties, LenProperties

-----------------------------------------------------------------------------
(* The inductive invariant *)

PodSteps == {"idle", "starting", "mounting", "filling", "undoing", "cleaning", "stopping",
             "unmounting", "up", "broken", "down"}
AwsSteps == {"idle", "starting", "granting", "creating", "waiting", "stopping", "deleting",
             "revoking", "up", "broken", "down"}
Ends == {"stopping", "unmounting", "deleting", "revoking", "down"}
Busy(k, a) == runtime[k].at # "idle" /\ runtime[k].agent = a

\* The CLI publishes a configuration with a deploy only.
CommandsOK == \A i \in DOMAIN commands : commands[i] \in Deploys \cup Deletes

\* What the infra worker has done of its command by each of its steps.
InfraOK ==
    LET a == infra.agent IN
    /\ infra.at # "idle" => a \in Agents
    /\ infra.at \in {"deploy", "cached", "saved", "announced"} => infra.config \in Configs
    /\ infra.at \in {"cached", "saved", "announced"} => cache[a] = infra.config
    /\ infra.at \in {"saved", "announced"} => disk[a] = infra.config

\* Who is saved is in the cache, and who was ever provisioned or registered is saved.
Saved(a) == disk[a] # NoConfig => cache[a] = disk[a]
Checked(a) == /\ checks[a].registry # "pending"
              /\ checks[a].registry = "ready" \/ checks[a].compute # "none" => disk[a] # NoConfig

\* Where a runtime can be in a tick.
RuntimesOK ==
    /\ \A k \in Kinds : runtime[k].at # "idle" =>
           runtime[k].agent \in Agents /\ disk[runtime[k].agent] # NoConfig
    /\ runtime["container"].at \in PodSteps /\ runtime["lambda"].at \in AwsSteps
    /\ runtime["container"].at = "starting" => runtime["container"].mount = 0
    /\ runtime["lambda"].at = "up" => runtime["lambda"].agent \in held["lambda"]
    /\ runtime["lambda"].at \in {"deleting", "revoking"} => runtime["lambda"].agent \notin tasks

(* The rest holds while nothing fails outside. *)

\* A runtime has to do with agents of its kind.
KindsOK == \A k \in Kinds : \A a \in Agents :
    Busy(k, a) \/ a \in held[k] \cup runtime[k].todo => cache[a] # NoConfig /\ KindOf(cache[a]) = k

\* The checks of an agent while a runtime works for it, and between the two of a registration.
Announced(a) == infra.at = "announced" /\ infra.agent = a
Paired(a) == checks[a].registry = "ready" /\ checks[a].compute = "none" => Announced(a)
Withdrawn(a) == checks[a].registry \in {"deleted", "failed"} \/ Announced(a)
ChecksOK(a) ==
    /\ Paired(a)
    /\ \A k \in Kinds : Busy(k, a) =>
           /\ runtime[k].at \notin Ends => checks[a].compute = "pending"
           /\ runtime[k].at = "unmounting" => checks[a].compute \in {"pending", "ready"}
           /\ runtime[k].at \in Ends /\ checks[a].compute = "ready" => Withdrawn(a)

Whole(a) == /\ pods[a] = [state |-> "running", holds |-> {"agent", "sidecar"}]
            /\ volumes[a] = 1..MountsOf[cache[a]]
Bare(a) == pods[a] = NoPod /\ volumes[a] = {}

\* What Podman has of an agent.
PodOK(a) ==
    LET step == IF Busy("container", a) THEN runtime["container"].at ELSE "idle"
        mount == runtime["container"].mount IN
    /\ a \in held["container"] => Whole(a) /\ step \in {"idle", "starting", "up", "stopping"}
    /\ a \notin held["container"] =>
           /\ step # "up"
           /\ step \in {"idle", "starting", "stopping", "broken", "down"} => Bare(a)
           /\ step = "mounting" => /\ pods[a] = NoPod /\ volumes[a] = 1..mount
                                   /\ mount <= MountsOf[cache[a]]
           /\ step = "filling" => /\ pods[a].state = "created"
                                  /\ pods[a].holds \in {{}, {"agent"}, {"agent", "sidecar"}}
                                  /\ volumes[a] = 1..MountsOf[cache[a]]
           /\ step \in {"cleaning", "unmounting"} => pods[a] = NoPod
    /\ checks[a].compute \in {"none", "failed", "deleted"} => a \notin held["container"] /\ Bare(a)
    /\ checks[a].compute = "ready" /\ step = "idle" /\ KindOf(cache[a]) = "container" =>
           a \in held["container"]

\* What AWS has of an agent.
CloudOK(a) ==
    LET step == IF Busy("lambda", a) THEN runtime["lambda"].at ELSE "idle" IN
    /\ a \in held["lambda"] => step \in {"deleting", "revoking"} \/ cloud[a] = Cloud
    /\ step = "granting" => {"role"} \subseteq cloud[a]
    /\ step = "creating" => {"role", "policy"} \subseteq cloud[a]
    /\ step = "waiting" => {"role", "policy", "function"} \subseteq cloud[a]
    /\ checks[a].compute = "ready" /\ step = "idle" /\ KindOf(cache[a]) = "lambda" => a \in tasks

Steady == KindsOK /\ \A a \in Agents : ChecksOK(a) /\ PodOK(a) /\ CloudOK(a)

IInv == /\ TypeOK /\ CommandsOK /\ InfraOK /\ RuntimesOK
        /\ \A a \in Agents : Saved(a) /\ Checked(a)
        /\ faults = 0 => Steady

-----------------------------------------------------------------------------
(* Types, a group of variables at a time *)

TickRecord == [at : {"idle", "starting", "mounting", "filling", "undoing", "cleaning", "granting",
                     "creating", "waiting", "stopping", "unmounting", "deleting", "revoking", "up",
                     "broken", "down"},
               agent : Agents \cup {NoAgent}, mount : Nat, todo : SUBSET Agents]
InfraRecord == [at : {"idle", "deploy", "delete", "cached", "saved", "announced"},
                agent : Agents \cup {NoAgent}, config : MaybeConfig]

QueueTyped == commands \in Seq(Command) /\ pending \subseteq DOMAIN commands
StoreTyped == /\ cache \in [Agents -> MaybeConfig] /\ disk \in [Agents -> MaybeConfig]
              /\ checks \in [Agents -> Checks]
TickTyped == runtime \in [Kinds -> TickRecord]
PodmanTyped == pods \in [Agents -> Pod] /\ volumes \in [Agents -> SUBSET (Nat \ {0})]
HeldTyped == held \in [Kinds -> SUBSET Agents] /\ tasks \subseteq held["lambda"]
CloudTyped == cloud \in [Agents -> SUBSET Cloud]

LEMMA TypesSplit ==
    TypeOK <=> /\ QueueTyped /\ StoreTyped /\ infra \in InfraRecord /\ TickTyped /\ PodmanTyped
               /\ HeldTyped /\ CloudTyped /\ faults \in 0..MaxFaults
  BY DEF TypeOK, QueueTyped, StoreTyped, InfraRecord, TickTyped, TickRecord, PodmanTyped,
         HeldTyped, CloudTyped

LEMMA TypesMake ==
    /\ QueueTyped /\ StoreTyped /\ infra \in InfraRecord /\ TickTyped /\ PodmanTyped
    /\ HeldTyped /\ CloudTyped /\ faults \in 0..MaxFaults
    => TypeOK
  BY TypesSplit

-----------------------------------------------------------------------------
(* The steps of a runtime *)

\* A runtime moves on to its next step.
LEMMA Moved ==
    ASSUME IInv, NEW k \in Kinds, NEW step, MoveOn(k, step)
    PROVE  /\ runtime'[k].at = step /\ runtime'[k].agent = runtime[k].agent
           /\ runtime'[k].mount = runtime[k].mount /\ runtime'[k].todo = runtime[k].todo
           /\ \A j \in Kinds \ {k} : runtime'[j] = runtime[j]
           /\ step \in PodSteps \cup AwsSteps => TickTyped'
  <1>1. runtime \in [Kinds -> TickRecord]
    BY TypesSplit DEF IInv, TickTyped
  <1>2. PICK tick : tick = [runtime[k] EXCEPT !.at = step]
    OBVIOUS
  <1>3. /\ tick.at = step /\ tick.agent = runtime[k].agent /\ tick.mount = runtime[k].mount
        /\ tick.todo = runtime[k].todo
        /\ step \in PodSteps \cup AwsSteps => tick \in TickRecord
    BY <1>1, <1>2 DEF TickRecord, PodSteps, AwsSteps
  <1>4. /\ runtime'[k] = tick /\ \A j \in Kinds \ {k} : runtime'[j] = runtime[j]
        /\ tick \in TickRecord => runtime' \in [Kinds -> TickRecord]
    BY <1>1, <1>2 DEF MoveOn
  <1> QED BY <1>3, <1>4 DEF TickTyped

\* The runtimes change nothing that the invariant says of the queue, the registry and the infra
\* worker.
LEMMA RuntimeKeeps ==
    ASSUME IInv, UNCHANGED <<queueVars, registryVars, infra>>,
           TickTyped', PodmanTyped', HeldTyped', CloudTyped', faults' \in 0..MaxFaults,
           RuntimesOK', faults' = 0 => Steady'
    PROVE  IInv'
  <1>1. TypeOK'
    <2>1. QueueTyped' /\ StoreTyped' /\ (infra \in InfraRecord)'
      BY TypesSplit DEF IInv, queueVars, registryVars, QueueTyped, StoreTyped
    <2>2. TickTyped' /\ PodmanTyped' /\ HeldTyped' /\ CloudTyped' /\ (faults \in 0..MaxFaults)'
      OBVIOUS
    <2> QED BY <2>1, <2>2, TypesMake, PTL
  <1>2. CommandsOK' /\ InfraOK'
    BY DEF IInv, CommandsOK, InfraOK, queueVars, registryVars
  <1>3. \A a \in Agents : Saved(a)' /\ Checked(a)'
    BY DEF IInv, Saved, Checked, registryVars
  <1> QED BY <1>1, <1>2, <1>3 DEF IInv

\* A step of the container runtime for its agent.
LEMMA PodStep ==
    ASSUME IInv, NEW a, a = OnPod, Unchanged,
           runtime["container"].at # "idle", runtime'["container"].at # "idle",
           runtime'["container"].at \in PodSteps \ {"starting"}, runtime'["container"].agent = a,
           runtime'["container"].todo = runtime["container"].todo,
           runtime'["lambda"] = runtime["lambda"],
           TickTyped', PodmanTyped', held' \in [Kinds -> SUBSET Agents],
           held'["lambda"] = held["lambda"],
           \A b \in Agents \ {a} :
               /\ b \in held'["container"] <=> b \in held["container"]
               /\ pods'[b] = pods[b] /\ volumes'[b] = volumes[b],
           faults' \in 0..MaxFaults, faults' = 0 => faults = 0,
           faults' = 0 /\ Steady =>
               /\ runtime'["container"].at \in Ends <=> runtime["container"].at \in Ends
               /\ runtime'["container"].at = "unmounting" => checks[a].compute \in {"pending", "ready"}
               /\ PodOK(a)'
    PROVE  IInv'
  <1>1. a \in Agents /\ disk[a] # NoConfig /\ UNCHANGED <<queueVars, registryVars, infra>>
    BY DEF IInv, RuntimesOK, Kinds, OnPod, Unchanged
  <1>2. /\ checks' = checks /\ cache' = cache /\ disk' = disk /\ infra' = infra
        /\ cloud' = cloud /\ tasks' = tasks
    BY DEF Unchanged, registryVars, aws
  <1>3. HeldTyped' /\ CloudTyped'
    BY <1>2, TypesSplit DEF IInv, HeldTyped, CloudTyped
  <1>4. RuntimesOK'
    BY <1>1, <1>2 DEF IInv, RuntimesOK, Kinds
  <1>5. ASSUME faults' = 0 PROVE Steady'
    <2>1. faults = 0 /\ Steady /\ PodOK(a)'
      BY <1>5 DEF IInv
    <2>2. \A b \in Agents : \A k \in Kinds : Busy(k, b)' <=> Busy(k, b)
      BY DEF Busy, OnPod, Kinds
    <2>3. KindsOK'
      <3>1. SUFFICES ASSUME NEW k \in Kinds, NEW b \in Agents,
                            Busy(k, b)' \/ b \in held'[k] \cup runtime'[k].todo
                     PROVE  cache[b] # NoConfig /\ KindOf(cache[b]) = k
        BY <1>2 DEF KindsOK
      <3>2. Busy(k, b) \/ b \in held[k] \cup runtime[k].todo \/ (b = a /\ k = "container")
        BY <2>2, <3>1 DEF Kinds
      <3>3. Busy("container", a)
        BY DEF Busy, OnPod
      <3> QED BY <1>1, <2>1, <3>2, <3>3 DEF Steady, KindsOK
    <2>4. ASSUME NEW b \in Agents PROVE ChecksOK(b)' /\ PodOK(b)' /\ CloudOK(b)'
      <3>1. ChecksOK(b) /\ PodOK(b) /\ CloudOK(b)
        BY <2>1 DEF Steady
      <3>2. ChecksOK(b)'
        <4>1. (Paired(b)' <=> Paired(b)) /\ (Withdrawn(b)' <=> Withdrawn(b))
          BY <1>2 DEF Paired, Withdrawn, Announced
        <4>2. ASSUME NEW k \in Kinds, Busy(k, b)
              PROVE  /\ runtime'[k].at \in Ends <=> runtime[k].at \in Ends
                     /\ runtime'[k].at = "unmounting" => checks[b].compute \in {"pending", "ready"}
          BY <1>5, <2>1, <3>1, <4>2 DEF Kinds, ChecksOK, Busy, OnPod
        <4> QED BY <1>2, <2>2, <3>1, <4>1, <4>2 DEF ChecksOK
      <3>3. PodOK(b)'
        <4>1. CASE b = a
          BY <2>1, <4>1
        <4>2. CASE b # a
          <5>1. ~Busy("container", b) /\ ~Busy("container", b)'
            BY <4>2 DEF Busy, OnPod
          <5> QED BY <1>2, <3>1, <4>2, <5>1 DEF PodOK, Whole, Bare
        <4> QED BY <4>1, <4>2
      <3>4. CloudOK(b)'
        BY <1>2, <2>2, <3>1 DEF CloudOK, Kinds
      <3> QED BY <3>2, <3>3, <3>4
    <2> QED BY <2>3, <2>4 DEF Steady
  <1> QED BY <1>1, <1>3, <1>4, <1>5, RuntimeKeeps

-----------------------------------------------------------------------------
(* Podman *)

\* What the container runtime knows of its agent.
LEMMA OfPod ==
    ASSUME IInv, NEW a, a = OnPod, runtime["container"].at # "idle"
    PROVE  /\ a \in Agents /\ Busy("container", a)
           /\ StoreTyped /\ TickTyped /\ PodmanTyped /\ HeldTyped /\ CloudTyped
           /\ faults \in 0..MaxFaults /\ runtime["container"].mount \in Nat
           /\ faults = 0 => Steady /\ PodOK(a) /\ ChecksOK(a) /\ MountsOf[cache[a]] \in Nat
  <1>1. a \in Agents /\ Busy("container", a) /\ disk[a] # NoConfig
    BY DEF IInv, RuntimesOK, Busy, OnPod, Kinds
  <1>2. /\ StoreTyped /\ TickTyped /\ PodmanTyped /\ HeldTyped /\ CloudTyped
        /\ faults \in 0..MaxFaults
    BY TypesSplit DEF IInv
  <1>3. runtime["container"].mount \in Nat
    BY <1>2 DEF TickTyped, TickRecord, Kinds
  <1>4. ASSUME faults = 0 PROVE Steady /\ PodOK(a) /\ ChecksOK(a) /\ MountsOf[cache[a]] \in Nat
    <2>1. Steady /\ PodOK(a) /\ ChecksOK(a)
      BY <1>1, <1>4 DEF IInv, Steady
    <2>2. cache[a] # NoConfig
      BY <1>1, <2>1 DEF Steady, KindsOK, Kinds
    <2>3. cache[a] \in Configs
      BY <1>1, <1>2, <2>2 DEF StoreTyped, MaybeConfig
    <2> QED BY <2>1, <2>3, LifecycleConstants
  <1> QED BY <1>1, <1>2, <1>3, <1>4

LEMMA Faulty == ASSUME Fault, faults \in 0..MaxFaults PROVE faults' \in 0..MaxFaults /\ faults' # 0
  BY LifecycleConstants DEF Fault

\* A step that moves on from one to another.
LEMMA PodMoved ==
    ASSUME IInv, NEW step, MoveOn("container", step), step \in PodSteps \ {"idle", "starting"},
           runtime["container"].at # "idle"
    PROVE  /\ runtime'["container"].at = step /\ runtime'["container"].agent = OnPod
           /\ runtime'["container"].mount = runtime["container"].mount
           /\ runtime'["container"].todo = runtime["container"].todo
           /\ runtime'["lambda"] = runtime["lambda"] /\ TickTyped'
  <1>1. "container" \in Kinds /\ "lambda" \in Kinds \ {"container"}
    BY DEF Kinds
  <1>2. step \in PodSteps \cup AwsSteps /\ step # "idle"
    OBVIOUS
  <1> QED BY <1>1, <1>2, Moved DEF OnPod

LEMMA PodGone ==
    ASSUME NEW a \in Agents, PodRemoved(a), PodmanTyped, volumes' = volumes,
           faults \in 0..MaxFaults
    PROVE  /\ PodmanTyped' /\ \A b \in Agents \ {a} : pods'[b] = pods[b] /\ volumes'[b] = volumes[b]
           /\ faults' \in 0..MaxFaults
           /\ faults' = 0 => faults = 0 /\ pods'[a] = NoPod
  <1>1. NoPod \in Pod
    BY DEF NoPod, Pod
  <1>2. CASE pods' = [pods EXCEPT ![a] = NoPod] /\ UNCHANGED faults
    BY <1>1, <1>2 DEF PodmanTyped
  <1>3. CASE pods[a] # NoPod /\ Fault /\ UNCHANGED pods
    BY <1>3, Faulty DEF PodmanTyped
  <1> QED BY <1>2, <1>3 DEF PodRemoved

LEMMA VolumesGone ==
    ASSUME NEW a \in Agents, VolumesRemoved(a), PodmanTyped, faults \in 0..MaxFaults
    PROVE  /\ PodmanTyped' /\ \A b \in Agents \ {a} : pods'[b] = pods[b] /\ volumes'[b] = volumes[b]
           /\ faults' \in 0..MaxFaults
           /\ faults' = 0 => faults = 0 /\ volumes'[a] = {} /\ (pods[a] = NoPod => pods'[a] = NoPod)
  <1>1. CASE volumes[a] # {} /\ Fault /\ UNCHANGED podman
    BY <1>1, Faulty DEF PodmanTyped, podman
  <1>2. CASE /\ volumes' = [volumes EXCEPT ![a] = {}]
             /\ pods' = IF volumes[a] = {} THEN pods
                        ELSE [pods EXCEPT ![a].holds = @ \ {"agent"}]
             /\ UNCHANGED faults
    <2>1. PICK pod : pod = [pods[a] EXCEPT !.holds = @ \ {"agent"}]
      OBVIOUS
    <2>2. pod \in Pod /\ (pods[a] = NoPod => pod = NoPod)
      <3>1. pods[a] \in Pod
        BY DEF PodmanTyped
      <3>2. pod.state = pods[a].state /\ pod.holds = pods[a].holds \ {"agent"} /\ pod \in Pod
        BY <2>1, <3>1 DEF Pod
      <3>3. pods[a] = NoPod => pod.state = "none" /\ pod.holds = {}
        BY <3>2 DEF NoPod
      <3> QED BY <2>1, <3>2, <3>3 DEF NoPod, Pod
    <2>3. pods' = pods \/ pods' = [pods EXCEPT ![a] = pod]
      BY <1>2, <2>1
    <2> QED BY <1>2, <2>2, <2>3 DEF PodmanTyped
  <1> QED BY <1>1, <1>2 DEF VolumesRemoved

LEMMA CheckPodKeeps == ASSUME IInv, CheckPod PROVE IInv'
  <1>1. PICK a : a = OnPod
    OBVIOUS
  <1>2. At("container", "starting") /\ Unchanged
    BY DEF CheckPod
  <1>3. runtime["container"].at = "starting" /\ runtime["container"].mount = 0
    BY <1>2 DEF IInv, RuntimesOK, At
  <1>4. UNCHANGED <<checks, cache, aws>>
    BY <1>2 DEF Unchanged, registryVars
  <1>5. CASE /\ a \in held["container"] /\ pods[a].state = "running"
             /\ MoveOn("container", "up") /\ UNCHANGED <<held, podman, faults>>
    <2>1. PodOK(a) => PodOK(a)'
      BY <1>1, <1>3, <1>4, <1>5, PodMoved, OfPod DEF PodOK, Busy, Whole, Bare, podman, PodSteps
    <2> QED BY <1>1, <1>2, <1>3, <1>5, <2>1, PodMoved, OfPod, PodStep
            DEF PodSteps, Ends, PodmanTyped, HeldTyped, podman
  <1>6. CASE /\ a \in held["container"] /\ pods[a].state # "running"
             /\ held' = [held EXCEPT !["container"] = @ \ {a}]
             /\ VolumesRemoved(a) /\ MoveOn("container", "mounting")
    <2>1. held' \in [Kinds -> SUBSET Agents] /\ held'["lambda"] = held["lambda"]
          /\ \A b \in Agents \ {a} : b \in held'["container"] <=> b \in held["container"]
      BY <1>1, <1>3, <1>6, OfPod DEF HeldTyped, Kinds
    <2>2. faults = 0 => FALSE
      BY <1>1, <1>3, <1>6, OfPod DEF PodOK, Whole
    <2> QED BY <1>1, <1>2, <1>3, <1>6, <2>1, <2>2, PodMoved, OfPod, VolumesGone, PodStep DEF PodSteps
  <1>7. CASE /\ a \notin held["container"]
             /\ MoveOn("container", "mounting") /\ UNCHANGED <<held, podman, faults>>
    <2>1. ASSUME PodOK(a), MountsOf[cache[a]] \in Nat PROVE PodOK(a)'
      <3>1. /\ runtime'["container"].at = "mounting" /\ runtime'["container"].mount = 0
            /\ Busy("container", a) /\ Busy("container", a)'
        BY <1>1, <1>3, <1>7, PodMoved, OfPod DEF PodSteps, Busy
      <3>2. Bare(a) /\ Bare(a)' /\ a \notin held'["container"]
        BY <1>3, <1>7, <2>1, <3>1 DEF PodOK, Bare, podman
      <3>3. 1..0 = {} /\ 0 <= MountsOf[cache[a]]
        BY <2>1
      <3> QED BY <1>4, <3>1, <3>2, <3>3 DEF PodOK, Bare
    <2> QED BY <1>1, <1>2, <1>3, <1>7, <2>1, PodMoved, OfPod, PodStep
            DEF PodSteps, Ends, PodmanTyped, HeldTyped, podman
  <1> QED BY <1>1, <1>5, <1>6, <1>7 DEF CheckPod

\* The agent is not in the map while its pod is made or removed.
LEMMA PodUnheld ==
    ASSUME IInv, NEW a, a = OnPod, UNCHANGED <<held, checks, cache>>,
           faults = 0, Steady,
           runtime["container"].at \in {"mounting", "filling", "undoing", "cleaning", "unmounting"},
           runtime'["container"].at \in {"mounting", "filling", "undoing", "cleaning", "broken", "down"},
           runtime'["container"].agent = a,
           LET step == runtime'["container"].at IN
           /\ step \in {"broken", "down"} => Bare(a)'
           /\ step = "mounting" => /\ pods'[a] = NoPod /\ volumes'[a] = 1..runtime'["container"].mount
                                   /\ runtime'["container"].mount <= MountsOf[cache[a]]
           /\ step = "filling" => /\ pods'[a].state = "created"
                                  /\ pods'[a].holds \in {{}, {"agent"}, {"agent", "sidecar"}}
                                  /\ volumes'[a] = 1..MountsOf[cache[a]]
           /\ step = "cleaning" => pods'[a] = NoPod
    PROVE  PodOK(a)'
  <1>1. Busy("container", a) /\ PodOK(a) /\ ChecksOK(a) /\ Busy("container", a)'
    BY OfPod DEF Busy
  <1>2. a \notin held["container"]
    BY <1>1 DEF PodOK
  <1>3. checks[a].compute \in {"pending", "ready"}
    BY <1>1 DEF ChecksOK, Kinds, Ends
  <1> QED BY <1>1, <1>2, <1>3 DEF PodOK, Bare

LEMMA CreateVolumeKeeps == ASSUME IInv, CreateVolume PROVE IInv'
  <1>1. PICK a, mount, v : a = OnPod /\ mount = runtime["container"].mount /\ v = mount + 1
    OBVIOUS
  <1>2. /\ runtime["container"].at = "mounting" /\ mount # MountsOf[cache[a]]
        /\ VolumeCreate(a, v) /\ UNCHANGED <<held, pods>> /\ Unchanged
        /\ UNCHANGED <<checks, cache, aws>>
    BY <1>1 DEF CreateVolume, At, Mounted, Unchanged, registryVars
  <1>3. a \in Agents /\ mount \in Nat /\ v \in Nat \ {0} /\ PodmanTyped /\ HeldTyped
    BY <1>1, <1>2, OfPod
  <1>4. CASE /\ v \notin volumes[a] /\ volumes' = [volumes EXCEPT ![a] = @ \cup {v}]
             /\ runtime' = [runtime EXCEPT !["container"].mount = v]
             /\ UNCHANGED faults
    <2>1. PICK tick : tick = [runtime["container"] EXCEPT !.mount = v]
      OBVIOUS
    <2>2. runtime \in [Kinds -> TickRecord] /\ "container" \in Kinds /\ "lambda" \in Kinds
      BY <1>1, <1>2, OfPod DEF TickTyped, Kinds
    <2>3. /\ tick.at = "mounting" /\ tick.agent = a /\ tick.mount = v
          /\ tick.todo = runtime["container"].todo /\ tick \in TickRecord
      BY <1>1, <1>2, <1>3, <2>1, <2>2 DEF TickRecord, OnPod
    <2>4. runtime'["container"] = tick /\ runtime'["lambda"] = runtime["lambda"] /\ TickTyped'
      BY <1>4, <2>1, <2>2, <2>3 DEF TickTyped
    <2>5. PodmanTyped' /\ volumes'[a] = volumes[a] \cup {v}
          /\ \A b \in Agents \ {a} : volumes'[b] = volumes[b]
      BY <1>2, <1>3, <1>4 DEF PodmanTyped
    <2>6. ASSUME faults = 0, Steady PROVE PodOK(a)'
      <3>1. /\ pods[a] = NoPod /\ volumes[a] = 1..mount /\ mount <= MountsOf[cache[a]]
            /\ MountsOf[cache[a]] \in Nat
        BY <1>1, <1>2, <2>6, OfPod DEF PodOK
      <3>2. volumes'[a] = 1..v /\ v <= MountsOf[cache[a]]
        BY <1>1, <1>2, <1>3, <2>5, <3>1
      <3> QED BY <1>1, <1>2, <2>3, <2>4, <2>6, <3>1, <3>2, PodUnheld
    <2> QED BY <1>1, <1>2, <1>3, <1>4, <2>3, <2>4, <2>5, <2>6, OfPod, PodStep
            DEF PodSteps, Ends, HeldTyped
  <1>5. CASE /\ IF v \in volumes[a] THEN UNCHANGED faults ELSE Fault
             /\ MoveOn("container", "broken") /\ UNCHANGED volumes
    <2>1. faults' \in 0..MaxFaults /\ (faults' = 0 => faults = 0 /\ v \in volumes[a])
      BY <1>1, <1>2, <1>5, OfPod, Faulty
    <2>2. ASSUME faults' = 0, Steady PROVE FALSE
      <3>1. volumes[a] = 1..mount
        BY <1>1, <1>2, <2>1, <2>2, OfPod DEF PodOK
      <3> QED BY <1>1, <1>3, <2>1, <2>2, <3>1
    <2> QED BY <1>1, <1>2, <1>3, <1>5, <2>1, <2>2, PodMoved, PodStep DEF PodSteps, PodmanTyped, HeldTyped
  <1> QED BY <1>2, <1>4, <1>5 DEF VolumeCreate

LEMMA CreatePodKeeps == ASSUME IInv, CreatePod PROVE IInv'
  <1>1. PICK a : a = OnPod
    OBVIOUS
  <1>2. /\ runtime["container"].at = "mounting" /\ runtime["container"].mount = MountsOf[cache[a]]
        /\ PodCreate(a) /\ UNCHANGED <<held, volumes>> /\ Unchanged
        /\ UNCHANGED <<checks, cache, aws>>
    BY <1>1 DEF CreatePod, At, Mounted, Unchanged, registryVars
  <1>3. a \in Agents /\ PodmanTyped /\ HeldTyped
    BY <1>1, <1>2, OfPod
  <1>4. ASSUME faults = 0, Steady PROVE pods[a] = NoPod /\ volumes[a] = 1..MountsOf[cache[a]]
    BY <1>1, <1>2, <1>4, OfPod DEF PodOK
  <1>5. CASE /\ pods[a] = NoPod /\ pods' = [pods EXCEPT ![a].state = "created"]
             /\ MoveOn("container", "filling") /\ UNCHANGED faults
    <2>1. PICK pod : pod = [pods[a] EXCEPT !.state = "created"]
      OBVIOUS
    <2>2. pod.state = "created" /\ pod.holds = {} /\ pod \in Pod
      BY <1>5, <2>1 DEF NoPod, Pod
    <2>3. PodmanTyped' /\ pods'[a] = pod /\ \A b \in Agents \ {a} : pods'[b] = pods[b]
      BY <1>2, <1>3, <1>5, <2>1, <2>2 DEF PodmanTyped
    <2>4. ASSUME faults = 0, Steady PROVE PodOK(a)'
      <3>1. runtime'["container"].at = "filling" /\ runtime'["container"].agent = a
        BY <1>1, <1>2, <1>5, PodMoved DEF PodSteps
      <3>2. /\ pods'[a].state = "created" /\ pods'[a].holds = {}
            /\ volumes'[a] = 1..MountsOf[cache[a]]
        BY <1>2, <1>4, <2>2, <2>3, <2>4
      <3> QED BY <1>1, <1>2, <2>4, <3>1, <3>2, PodUnheld
    <2> QED BY <1>1, <1>2, <1>3, <1>5, <2>3, <2>4, PodMoved, OfPod, PodStep
            DEF PodSteps, Ends, HeldTyped
  <1>6. CASE /\ IF pods[a] # NoPod THEN UNCHANGED faults ELSE Fault
             /\ MoveOn("container", "broken") /\ UNCHANGED pods
    <2>1. faults' \in 0..MaxFaults /\ (faults' = 0 => faults = 0 /\ pods[a] # NoPod)
      BY <1>1, <1>2, <1>6, OfPod, Faulty
    <2> QED BY <1>1, <1>2, <1>3, <1>4, <1>6, <2>1, PodMoved, PodStep DEF PodSteps, PodmanTyped, HeldTyped
  <1> QED BY <1>2, <1>5, <1>6 DEF PodCreate

LEMMA AddContainerKeeps == ASSUME IInv, AddContainer PROVE IInv'
  <1>1. PICK a, next : a = OnPod /\ next = IF pods[a].holds = {} THEN "agent" ELSE "sidecar"
    OBVIOUS
  <1>2. /\ runtime["container"].at = "filling" /\ next \notin pods[a].holds
        /\ ContainerInPod(a, next) /\ UNCHANGED <<held, volumes, faults>> /\ Unchanged
        /\ UNCHANGED <<checks, cache, aws>>
    BY <1>1 DEF AddContainer, At, Unchanged, registryVars
  <1>3. a \in Agents /\ PodmanTyped /\ HeldTyped
    BY <1>1, <1>2, OfPod
  <1>4. CASE pods' = [pods EXCEPT ![a].holds = @ \cup {next}] /\ UNCHANGED runtime
    <2>1. PICK pod : pod = [pods[a] EXCEPT !.holds = @ \cup {next}]
      OBVIOUS
    <2>2. pods[a] \in Pod /\ next \in {"agent", "sidecar"}
      BY <1>1, <1>3 DEF PodmanTyped
    <2>3. pod.state = pods[a].state /\ pod.holds = pods[a].holds \cup {next} /\ pod \in Pod
      BY <2>1, <2>2 DEF Pod
    <2>4. PodmanTyped' /\ pods'[a] = pod /\ \A b \in Agents \ {a} : pods'[b] = pods[b]
      BY <1>2, <1>3, <1>4, <2>1, <2>3 DEF PodmanTyped
    <2>5. ASSUME faults = 0, Steady PROVE PodOK(a)'
      <3>1. /\ pods[a].state = "created" /\ pods[a].holds \in {{}, {"agent"}, {"agent", "sidecar"}}
            /\ volumes[a] = 1..MountsOf[cache[a]]
        BY <1>1, <1>2, <2>5, OfPod DEF PodOK
      <3>2. pod.holds \in {{}, {"agent"}, {"agent", "sidecar"}}
        BY <1>1, <1>2, <2>3, <3>1
      <3> QED BY <1>1, <1>2, <1>4, <2>3, <2>4, <2>5, <3>1, <3>2, PodUnheld DEF OnPod
    <2>6. TickTyped'
      BY <1>1, <1>2, <1>4, OfPod DEF TickTyped
    <2> QED BY <1>1, <1>2, <1>3, <1>4, <2>4, <2>5, <2>6, OfPod, PodStep
            DEF PodSteps, Ends, HeldTyped, OnPod
  <1>5. CASE MoveOn("container", "undoing") /\ UNCHANGED pods
    <2>1. ASSUME faults = 0, Steady PROVE PodOK(a)'
      BY <1>1, <1>2, <1>5, <2>1, PodMoved, PodUnheld DEF PodSteps
    <2> QED BY <1>1, <1>2, <1>3, <1>5, <2>1, PodMoved, OfPod, PodStep
            DEF PodSteps, Ends, HeldTyped, PodmanTyped
  <1> QED BY <1>2, <1>4, <1>5 DEF ContainerInPod

LEMMA StartPodKeeps == ASSUME IInv, StartPod PROVE IInv'
  <1>1. PICK a : a = OnPod
    OBVIOUS
  <1>2. /\ runtime["container"].at = "filling" /\ "sidecar" \in pods[a].holds
        /\ UNCHANGED <<volumes, faults>> /\ Unchanged
        /\ UNCHANGED <<checks, cache, aws>>
    BY <1>1 DEF StartPod, At, Unchanged, registryVars
  <1>3. a \in Agents /\ PodmanTyped /\ HeldTyped
    BY <1>1, <1>2, OfPod
  <1>4. CASE /\ pods' = [pods EXCEPT ![a].state = "running"]
             /\ held' = [held EXCEPT !["container"] = @ \cup {a}]
             /\ MoveOn("container", "up")
    <2>1. PICK pod : pod = [pods[a] EXCEPT !.state = "running"]
      OBVIOUS
    <2>2. pod.state = "running" /\ pod.holds = pods[a].holds /\ pod \in Pod
      BY <1>3, <2>1 DEF PodmanTyped, Pod
    <2>3. PodmanTyped' /\ pods'[a] = pod /\ \A b \in Agents \ {a} : pods'[b] = pods[b]
      BY <1>2, <1>3, <1>4, <2>1, <2>2 DEF PodmanTyped
    <2>4. /\ held' \in [Kinds -> SUBSET Agents] /\ held'["lambda"] = held["lambda"]
          /\ a \in held'["container"]
          /\ \A b \in Agents \ {a} : b \in held'["container"] <=> b \in held["container"]
      BY <1>3, <1>4 DEF HeldTyped, Kinds
    <2>5. runtime'["container"].at = "up" /\ runtime'["container"].agent = a
      BY <1>1, <1>2, <1>4, PodMoved DEF PodSteps
    <2>6. ASSUME faults = 0, Steady PROVE PodOK(a)'
      <3>1. /\ volumes[a] = 1..MountsOf[cache[a]]
            /\ pods[a].holds \in {{}, {"agent"}, {"agent", "sidecar"}}
            /\ checks[a].compute = "pending"
        BY <1>1, <1>2, <2>6, OfPod DEF PodOK, ChecksOK, Kinds, Ends
      <3>2. pods[a].holds = {"agent", "sidecar"}
        BY <1>2, <3>1
      <3>3. pod = [state |-> "running", holds |-> {"agent", "sidecar"}]
        BY <2>2, <3>2 DEF Pod
      <3> QED BY <1>2, <2>3, <2>4, <2>5, <3>1, <3>3 DEF PodOK, Whole, Busy
    <2> QED BY <1>1, <1>2, <1>3, <1>4, <2>3, <2>4, <2>6, PodMoved, OfPod, PodStep DEF PodSteps, Ends
  <1>5. CASE MoveOn("container", "undoing") /\ UNCHANGED <<held, pods>>
    <2>1. ASSUME faults = 0, Steady PROVE PodOK(a)'
      BY <1>1, <1>2, <1>5, <2>1, PodMoved, PodUnheld DEF PodSteps
    <2> QED BY <1>1, <1>2, <1>3, <1>5, <2>1, PodMoved, OfPod, PodStep
            DEF PodSteps, Ends, HeldTyped, PodmanTyped
  <1> QED BY <1>1, <1>4, <1>5 DEF StartPod

LEMMA UndoPodKeeps == ASSUME IInv, UndoPod PROVE IInv'
  <1>1. PICK a : a = OnPod
    OBVIOUS
  <1>2. /\ runtime["container"].at = "undoing" /\ PodRemoved(a) /\ MoveOn("container", "cleaning")
        /\ UNCHANGED <<held, volumes>> /\ Unchanged /\ UNCHANGED <<checks, cache, aws>>
    BY <1>1 DEF UndoPod, At, Unchanged, registryVars
  <1>3. a \in Agents /\ PodmanTyped /\ HeldTyped /\ faults \in 0..MaxFaults
    BY <1>1, <1>2, OfPod
  <1>4. ASSUME faults' = 0, Steady PROVE PodOK(a)'
    BY <1>1, <1>2, <1>3, <1>4, PodGone, PodMoved, PodUnheld DEF PodSteps
  <1> QED BY <1>1, <1>2, <1>3, <1>4, PodGone, PodMoved, PodStep DEF PodSteps, Ends, HeldTyped

LEMMA StopPodKeeps == ASSUME IInv, StopPod PROVE IInv'
  <1>1. PICK a : a = OnPod
    OBVIOUS
  <1>2. /\ runtime["container"].at = "stopping" /\ held' = [held EXCEPT !["container"] = @ \ {a}]
        /\ UNCHANGED volumes /\ Unchanged /\ UNCHANGED <<checks, cache, aws>>
    BY <1>1 DEF StopPod, At, Unchanged, registryVars
  <1>3. a \in Agents /\ PodmanTyped /\ HeldTyped /\ StoreTyped /\ faults \in 0..MaxFaults
    BY <1>1, <1>2, OfPod
  <1>4. /\ held' \in [Kinds -> SUBSET Agents] /\ held'["lambda"] = held["lambda"]
        /\ a \notin held'["container"]
        /\ \A b \in Agents \ {a} : b \in held'["container"] <=> b \in held["container"]
    BY <1>2, <1>3 DEF HeldTyped, Kinds
  <1>5. CASE a \in held["container"] /\ PodRemoved(a) /\ MoveOn("container", "unmounting")
    <2>1. runtime'["container"].at = "unmounting" /\ runtime'["container"].agent = a
      BY <1>1, <1>2, <1>5, PodMoved DEF PodSteps
    <2>2. ASSUME faults' = 0, Steady
          PROVE  PodOK(a)' /\ checks[a].compute \in {"pending", "ready"}
      <3>1. PodOK(a) /\ pods'[a] = NoPod
        BY <1>1, <1>2, <1>3, <1>5, <2>2, PodGone, OfPod
      <3>2. checks[a].compute \notin {"none", "failed", "deleted"} /\ checks[a].compute \in Check
        BY <1>3, <1>5, <3>1 DEF PodOK, StoreTyped, Checks
      <3> QED BY <1>2, <1>4, <2>1, <3>1, <3>2 DEF PodOK, Busy, Check
    <2> QED BY <1>1, <1>2, <1>3, <1>4, <1>5, <2>2, PodGone, PodMoved, PodStep DEF PodSteps, Ends
  <1>6. CASE a \notin held["container"] /\ MoveOn("container", "down") /\ UNCHANGED <<pods, faults>>
    <2>1. runtime'["container"].at = "down" /\ runtime'["container"].agent = a
      BY <1>1, <1>2, <1>6, PodMoved DEF PodSteps
    <2>2. ASSUME faults' = 0, Steady PROVE PodOK(a)'
      <3>1. PodOK(a) /\ Busy("container", a)
        BY <1>1, <1>2, <1>3, <1>6, <2>2, OfPod
      <3>2. Bare(a)
        BY <1>2, <1>6, <3>1 DEF PodOK
      <3> QED BY <1>2, <1>4, <1>6, <2>1, <3>1, <3>2 DEF PodOK, Busy, Bare
    <2> QED BY <1>1, <1>2, <1>3, <1>4, <1>6, <2>2, PodMoved, PodStep DEF PodSteps, Ends, PodmanTyped
  <1> QED BY <1>1, <1>5, <1>6 DEF StopPod

LEMMA CleanUpKeeps == ASSUME IInv, CleanUp PROVE IInv'
  <1>1. PICK a, at, next : /\ a = OnPod /\ at = runtime["container"].at
                           /\ next = IF at = "cleaning" THEN "broken" ELSE "down"
    OBVIOUS
  <1>2. /\ at \in {"cleaning", "unmounting"} /\ VolumesRemoved(a) /\ MoveOn("container", next)
        /\ UNCHANGED held /\ Unchanged /\ UNCHANGED <<checks, cache, aws>>
    BY <1>1 DEF CleanUp, At, Unchanged, registryVars
  <1>3. a \in Agents /\ PodmanTyped /\ HeldTyped /\ faults \in 0..MaxFaults
    BY <1>1, <1>2, OfPod
  <1>4. next \in {"broken", "down"} /\ runtime'["container"].at = next /\ runtime'["container"].agent = a
    BY <1>1, <1>2, PodMoved DEF PodSteps
  <1>5. ASSUME faults' = 0, Steady PROVE PodOK(a)'
    <2>1. faults = 0 /\ volumes'[a] = {} /\ (pods[a] = NoPod => pods'[a] = NoPod)
      BY <1>2, <1>3, <1>5, VolumesGone
    <2>2. pods[a] = NoPod
      BY <1>1, <1>2, <1>5, <2>1, OfPod DEF PodOK
    <2> QED BY <1>1, <1>2, <1>4, <1>5, <2>1, <2>2, PodUnheld DEF Bare
  <1> QED BY <1>1, <1>2, <1>3, <1>4, <1>5, VolumesGone, PodMoved, PodStep DEF PodSteps, Ends, HeldTyped

-----------------------------------------------------------------------------
(* AWS *)

\* A step of the Lambda runtime for its agent.
LEMMA AwsStep ==
    ASSUME IInv, NEW a, a = OnFunction, UnchangedBut,
           runtime["lambda"].at # "idle", runtime'["lambda"].at # "idle",
           runtime'["lambda"].at \in AwsSteps, runtime'["lambda"].agent = a,
           runtime'["lambda"].todo = runtime["lambda"].todo,
           runtime'["container"] = runtime["container"],
           TickTyped', CloudTyped', HeldTyped',
           held'["container"] = held["container"],
           runtime'["lambda"].at = "up" => a \in held'["lambda"],
           runtime'["lambda"].at \in {"deleting", "revoking"} => a \notin tasks',
           \A b \in Agents \ {a} :
               /\ b \in held'["lambda"] <=> b \in held["lambda"]
               /\ b \in tasks' <=> b \in tasks
               /\ cloud'[b] = cloud[b],
           faults' \in 0..MaxFaults, faults' = 0 => faults = 0,
           faults' = 0 /\ Steady =>
               /\ runtime'["lambda"].at \in Ends <=> runtime["lambda"].at \in Ends
               /\ CloudOK(a)'
    PROVE  IInv'
  <1>1. a \in Agents /\ disk[a] # NoConfig /\ UNCHANGED <<queueVars, registryVars, infra>>
    BY DEF IInv, RuntimesOK, Kinds, OnFunction, UnchangedBut
  <1>2. /\ checks' = checks /\ cache' = cache /\ disk' = disk /\ infra' = infra
        /\ pods' = pods /\ volumes' = volumes
    BY DEF UnchangedBut, registryVars, podman
  <1>3. PodmanTyped'
    BY <1>2, TypesSplit DEF IInv, PodmanTyped
  <1>4. RuntimesOK'
    BY <1>1, <1>2 DEF IInv, RuntimesOK, Kinds
  <1>5. ASSUME faults' = 0 PROVE Steady'
    <2>1. faults = 0 /\ Steady /\ CloudOK(a)'
      BY <1>5 DEF IInv
    <2>2. \A b \in Agents : \A k \in Kinds : Busy(k, b)' <=> Busy(k, b)
      BY DEF Busy, OnFunction, Kinds
    <2>3. KindsOK'
      <3>1. SUFFICES ASSUME NEW k \in Kinds, NEW b \in Agents,
                            Busy(k, b)' \/ b \in held'[k] \cup runtime'[k].todo
                     PROVE  cache[b] # NoConfig /\ KindOf(cache[b]) = k
        BY <1>2 DEF KindsOK
      <3>2. Busy(k, b) \/ b \in held[k] \cup runtime[k].todo \/ (b = a /\ k = "lambda")
        BY <2>2, <3>1 DEF Kinds
      <3>3. Busy("lambda", a)
        BY DEF Busy, OnFunction
      <3> QED BY <1>1, <2>1, <3>2, <3>3 DEF Steady, KindsOK
    <2>4. ASSUME NEW b \in Agents PROVE ChecksOK(b)' /\ PodOK(b)' /\ CloudOK(b)'
      <3>1. ChecksOK(b) /\ PodOK(b) /\ CloudOK(b)
        BY <2>1 DEF Steady
      <3>2. ChecksOK(b)'
        <4>1. (Paired(b)' <=> Paired(b)) /\ (Withdrawn(b)' <=> Withdrawn(b))
          BY <1>2 DEF Paired, Withdrawn, Announced
        <4>2. ASSUME NEW k \in Kinds, Busy(k, b)
              PROVE  /\ runtime'[k].at \in Ends <=> runtime[k].at \in Ends
                     /\ runtime'[k].at = "unmounting" => checks[b].compute \in {"pending", "ready"}
          BY <1>5, <2>1, <3>1, <4>2 DEF Kinds, ChecksOK, Busy, OnFunction, AwsSteps
        <4> QED BY <1>2, <2>2, <3>1, <4>1, <4>2 DEF ChecksOK
      <3>3. PodOK(b)'
        BY <1>2, <2>2, <3>1 DEF PodOK, Whole, Bare, Kinds
      <3>4. CloudOK(b)'
        <4>1. CASE b = a
          BY <2>1, <4>1
        <4>2. CASE b # a
          <5>1. ~Busy("lambda", b) /\ ~Busy("lambda", b)'
            BY <4>2 DEF Busy, OnFunction
          <5> QED BY <1>2, <3>1, <4>2, <5>1 DEF CloudOK
        <4> QED BY <4>1, <4>2
      <3> QED BY <3>2, <3>3, <3>4
    <2> QED BY <2>3, <2>4 DEF Steady
  <1> QED BY <1>1, <1>3, <1>4, <1>5, RuntimeKeeps

LEMMA OfFunction ==
    ASSUME IInv, NEW a, a = OnFunction, runtime["lambda"].at # "idle"
    PROVE  /\ a \in Agents /\ Busy("lambda", a)
           /\ TickTyped /\ HeldTyped /\ CloudTyped /\ faults \in 0..MaxFaults
           /\ cloud[a] \subseteq Cloud
           /\ faults = 0 => Steady /\ CloudOK(a) /\ ChecksOK(a)
  <1>1. a \in Agents /\ Busy("lambda", a)
    BY DEF IInv, RuntimesOK, Busy, OnFunction, Kinds
  <1>2. TickTyped /\ HeldTyped /\ CloudTyped /\ faults \in 0..MaxFaults
    BY TypesSplit DEF IInv
  <1> QED BY <1>1, <1>2 DEF IInv, Steady, CloudTyped

LEMMA AwsMoved ==
    ASSUME IInv, NEW step, MoveOn("lambda", step), step \in AwsSteps \ {"idle"},
           runtime["lambda"].at # "idle"
    PROVE  /\ runtime'["lambda"].at = step /\ runtime'["lambda"].agent = OnFunction
           /\ runtime'["lambda"].todo = runtime["lambda"].todo
           /\ runtime'["container"] = runtime["container"] /\ TickTyped'
  <1>1. "lambda" \in Kinds /\ "container" \in Kinds \ {"lambda"}
    BY DEF Kinds
  <1>2. step \in PodSteps \cup AwsSteps
    OBVIOUS
  <1> QED BY <1>1, <1>2, Moved DEF OnFunction

\* What a function needs comes one piece after the other.
LEMMA Added ==
    ASSUME IInv, NEW a, a = OnFunction, NEW item \in Cloud, NEW next, Adds(item, next),
           runtime["lambda"].at \in {"starting", "granting", "creating", "waiting"},
           next \in {"granting", "creating", "waiting", "up"}
    PROVE  /\ runtime'["lambda"].at \in {next, "broken"} /\ runtime'["lambda"].agent = a
           /\ runtime'["lambda"].todo = runtime["lambda"].todo
           /\ runtime'["container"] = runtime["container"] /\ TickTyped' /\ CloudTyped'
           /\ \A b \in Agents \ {a} : cloud'[b] = cloud[b]
           /\ cloud[a] \subseteq cloud'[a] /\ cloud'[a] \subseteq Cloud
           /\ runtime'["lambda"].at = next => item \in cloud'[a]
  <1>1. /\ a \in Agents /\ cloud \in [Agents -> SUBSET Cloud] /\ runtime["lambda"].at # "idle"
        /\ cloud[a] \subseteq Cloud
    BY OfFunction DEF CloudTyped
  <1>2. CASE cloud' = [cloud EXCEPT ![a] = @ \cup {item}] /\ MoveOn("lambda", next)
    BY <1>1, <1>2, AwsMoved DEF AwsSteps, CloudTyped
  <1>3. CASE UNCHANGED cloud /\ MoveOn("lambda", "broken")
    BY <1>1, <1>3, AwsMoved DEF AwsSteps, CloudTyped
  <1> QED BY <1>2, <1>3 DEF Adds

LEMMA ProvisionKeeps ==
    ASSUME IInv, CreateRole \/ PutRolePolicy \/ CreateFunction \/ WaitForActive
    PROVE  IInv'
  <1>1. PICK a, at : a = OnFunction /\ at = runtime["lambda"].at
    OBVIOUS
  <1>2. PICK item \in Cloud, next \in {"granting", "creating", "waiting", "up"} :
            /\ Adds(item, next)
            /\ <<at, item, next>> \in {<<"starting", "role", "granting">>, <<"granting", "policy", "creating">>,
                                       <<"creating", "function", "waiting">>, <<"waiting", "active", "up">>}
    BY <1>1 DEF CreateRole, PutRolePolicy, CreateFunction, WaitForActive, At, Cloud
  <1>3. /\ UNCHANGED <<tasks, faults>> /\ UnchangedBut /\ UNCHANGED <<checks, cache>>
        /\ held' = held \/ held' = [held EXCEPT !["lambda"] =
                                      IF runtime'["lambda"].at = "up" THEN @ \cup {a} ELSE @]
    BY <1>1 DEF CreateRole, PutRolePolicy, CreateFunction, WaitForActive, UnchangedBut, registryVars
  <1>4. at = "waiting" => held' = [held EXCEPT !["lambda"] =
                                     IF runtime'["lambda"].at = "up" THEN @ \cup {a} ELSE @]
    BY <1>1 DEF CreateRole, PutRolePolicy, CreateFunction, WaitForActive, At
  <1>5. /\ runtime'["lambda"].at \in {next, "broken"} /\ runtime'["lambda"].agent = a
        /\ runtime'["lambda"].todo = runtime["lambda"].todo
        /\ runtime'["container"] = runtime["container"] /\ TickTyped' /\ CloudTyped'
        /\ \A b \in Agents \ {a} : cloud'[b] = cloud[b]
        /\ cloud[a] \subseteq cloud'[a] /\ cloud'[a] \subseteq Cloud
        /\ runtime'["lambda"].at = next => item \in cloud'[a]
    BY <1>1, <1>2, Added
  <1>6. a \in Agents /\ HeldTyped /\ faults \in 0..MaxFaults /\ at # "idle"
    BY <1>1, <1>2, OfFunction
  <1>7. /\ HeldTyped' /\ held'["container"] = held["container"]
        /\ held["lambda"] \subseteq held'["lambda"]
        /\ runtime'["lambda"].at # "up" => held'["lambda"] = held["lambda"]
        /\ runtime'["lambda"].at = "up" => a \in held'["lambda"]
        /\ \A b \in Agents \ {a} : b \in held'["lambda"] <=> b \in held["lambda"]
    <2>1. held \in [Kinds -> SUBSET Agents] /\ tasks \subseteq held["lambda"]
      BY <1>6 DEF HeldTyped
    <2>2. runtime'["lambda"].at = "up" => at = "waiting"
      BY <1>2, <1>5
    <2>3. /\ held' \in [Kinds -> SUBSET Agents] /\ held'["container"] = held["container"]
          /\ held["lambda"] \subseteq held'["lambda"]
          /\ runtime'["lambda"].at # "up" => held'["lambda"] = held["lambda"]
          /\ \A b \in Agents \ {a} : b \in held'["lambda"] <=> b \in held["lambda"]
      BY <1>3, <1>6, <2>1 DEF Kinds
    <2>4. runtime'["lambda"].at = "up" => a \in held'["lambda"]
      BY <1>4, <2>1, <2>2 DEF Kinds
    <2> QED BY <1>3, <2>1, <2>3, <2>4 DEF HeldTyped
  <1>8. ASSUME faults = 0, Steady PROVE CloudOK(a)'
    <2>1. CloudOK(a) /\ Busy("lambda", a)
      BY <1>1, <1>6, <1>8, OfFunction
    <2>2. runtime'["lambda"].at = "up" => cloud'[a] = Cloud
      BY <1>1, <1>2, <1>5, <2>1 DEF CloudOK, Cloud
    <2>3. /\ runtime'["lambda"].at = "granting" => {"role"} \subseteq cloud'[a]
          /\ runtime'["lambda"].at = "creating" => {"role", "policy"} \subseteq cloud'[a]
          /\ runtime'["lambda"].at = "waiting" => {"role", "policy", "function"} \subseteq cloud'[a]
      BY <1>1, <1>2, <1>5, <2>1 DEF CloudOK
    <2>4. Busy("lambda", a)'
      BY <1>2, <1>5 DEF Busy
    <2>5. a \in held["lambda"] => cloud'[a] = Cloud
      BY <1>1, <1>2, <1>5, <2>1 DEF CloudOK
    <2> QED BY <1>2, <1>5, <1>7, <2>2, <2>3, <2>4, <2>5 DEF CloudOK
  <1>9. runtime'["lambda"].at \in AwsSteps \ (Ends \cup {"idle"}) /\ at \notin Ends
    BY <1>2, <1>5 DEF AwsSteps, Ends
  <1>10. runtime'["lambda"].at \notin {"deleting", "revoking"}
    BY <1>9 DEF Ends
  <1> QED BY <1>1, <1>3, <1>5, <1>6, <1>7, <1>8, <1>9, <1>10, AwsStep

LEMMA StopTaskKeeps == ASSUME IInv, StopTask PROVE IInv'
  <1>1. PICK a, next : /\ a = OnFunction
                       /\ next = IF a \in held["lambda"] THEN "deleting" ELSE "down"
    OBVIOUS
  <1>2. /\ runtime["lambda"].at = "stopping" /\ tasks' = tasks \ {a} /\ MoveOn("lambda", next)
        /\ UNCHANGED <<held, cloud, faults>> /\ UnchangedBut /\ UNCHANGED <<checks, cache>>
    BY <1>1 DEF StopTask, At, UnchangedBut, registryVars
  <1>3. a \in Agents /\ HeldTyped /\ CloudTyped /\ faults \in 0..MaxFaults
    BY <1>1, <1>2, OfFunction
  <1>4. next \in {"deleting", "down"} /\ runtime'["lambda"].at = next /\ runtime'["lambda"].agent = a
    BY <1>1, <1>2, AwsMoved DEF AwsSteps
  <1>5. ASSUME faults = 0, Steady PROVE CloudOK(a)'
    <2>1. CloudOK(a) /\ Busy("lambda", a)
      BY <1>1, <1>2, <1>5, OfFunction
    <2> QED BY <1>1, <1>2, <1>4, <2>1 DEF CloudOK, Busy
  <1>6. HeldTyped' /\ CloudTyped' /\ next \in AwsSteps /\ next \in Ends
    BY <1>2, <1>3, <1>4 DEF HeldTyped, CloudTyped, AwsSteps, Ends
  <1> QED BY <1>1, <1>2, <1>3, <1>4, <1>5, <1>6, AwsMoved, AwsStep DEF Ends

LEMMA DeleteFunctionKeeps == ASSUME IInv, DeleteFunction PROVE IInv'
  <1>1. PICK a : a = OnFunction
    OBVIOUS
  <1>2. /\ runtime["lambda"].at = "deleting" /\ MoveOn("lambda", "revoking")
        /\ \/ cloud' = [cloud EXCEPT ![a] = @ \ {"function", "active"}] /\ UNCHANGED faults
           \/ Fault /\ UNCHANGED cloud
        /\ UNCHANGED <<held, tasks>> /\ UnchangedBut /\ UNCHANGED <<checks, cache>>
    BY <1>1 DEF DeleteFunction, At, UnchangedBut, registryVars
  <1>3. a \in Agents /\ HeldTyped /\ CloudTyped /\ faults \in 0..MaxFaults /\ a \notin tasks
    BY <1>1, <1>2, OfFunction DEF IInv, RuntimesOK, OnFunction
  <1>4. runtime'["lambda"].at = "revoking" /\ runtime'["lambda"].agent = a
    BY <1>1, <1>2, AwsMoved DEF AwsSteps
  <1>5. /\ HeldTyped' /\ CloudTyped' /\ \A b \in Agents \ {a} : cloud'[b] = cloud[b]
        /\ faults' \in 0..MaxFaults
        /\ faults' = 0 => faults = 0
    BY <1>2, <1>3, Faulty DEF HeldTyped, CloudTyped
  <1>6. CloudOK(a)'
    BY <1>4 DEF CloudOK, Busy
  <1> QED BY <1>1, <1>2, <1>3, <1>4, <1>5, <1>6, AwsMoved, AwsStep DEF Ends, AwsSteps

LEMMA DeleteRoleKeeps == ASSUME IInv, DeleteRole PROVE IInv'
  <1>1. PICK a : a = OnFunction
    OBVIOUS
  <1>2. /\ runtime["lambda"].at = "revoking" /\ MoveOn("lambda", "down")
        /\ \/ cloud' = [cloud EXCEPT ![a] = @ \ {"role", "policy"}] /\ UNCHANGED faults
           \/ \E left \in {{"role"}, {"role", "policy"}} :
                 /\ cloud' = [cloud EXCEPT ![a] = (@ \ {"role", "policy"}) \cup left]
                 /\ Fault
        /\ held' = [held EXCEPT !["lambda"] = @ \ {a}]
        /\ UNCHANGED tasks /\ UnchangedBut /\ UNCHANGED <<checks, cache>>
    BY <1>1 DEF DeleteRole, At, UnchangedBut, registryVars
  <1>3. a \in Agents /\ HeldTyped /\ CloudTyped /\ faults \in 0..MaxFaults /\ a \notin tasks
    BY <1>1, <1>2, OfFunction DEF IInv, RuntimesOK, OnFunction
  <1>4. runtime'["lambda"].at = "down" /\ runtime'["lambda"].agent = a
    BY <1>1, <1>2, AwsMoved DEF AwsSteps
  <1>5. /\ CloudTyped' /\ \A b \in Agents \ {a} : cloud'[b] = cloud[b]
        /\ faults' \in 0..MaxFaults
        /\ faults' = 0 => faults = 0
    BY <1>2, <1>3, Faulty DEF CloudTyped, Cloud
  <1>6. /\ HeldTyped' /\ held'["container"] = held["container"] /\ a \notin held'["lambda"]
        /\ \A b \in Agents \ {a} : b \in held'["lambda"] <=> b \in held["lambda"]
    BY <1>2, <1>3 DEF HeldTyped, Kinds
  <1>7. CloudOK(a)'
    BY <1>4, <1>6 DEF CloudOK, Busy
  <1> QED BY <1>1, <1>2, <1>3, <1>4, <1>5, <1>6, <1>7, AwsMoved, AwsStep DEF Ends, AwsSteps

-----------------------------------------------------------------------------
(* Ticks, and what a runtime reads and reports *)

LEMMA StatusSays ==
    ASSUME NEW a \in Agents, StoreTyped, Checked(a)
    PROVE  /\ checks[a].registry \in {"none", "ready", "failed", "deleted"}
           /\ checks[a].compute \in Check
           /\ Status(a) = "Deploying" => checks[a].compute = "pending"
           /\ Status(a) = "Deleting" =>
                  /\ checks[a].compute \in {"pending", "ready", "deleted"}
                  /\ checks[a].compute = "ready" => checks[a].registry = "deleted"
           /\ Status(a) = "Live" => /\ checks[a].registry \in {"none", "ready"}
                                    /\ checks[a].compute \in {"none", "ready"}
                                    /\ checks[a].registry = "ready" \/ checks[a].compute = "ready"
           /\ Status(a) = "Deleted" => checks[a].compute \in {"none", "deleted"}
           /\ Status(a) \in {"Live", "Deploying", "Deleting"} => disk[a] # NoConfig
  <1>1. PICK registry, compute : registry = checks[a].registry /\ compute = checks[a].compute
    OBVIOUS
  <1>2. registry \in {"none", "ready", "failed", "deleted"} /\ compute \in Check
    BY <1>1 DEF StoreTyped, Checks, Check, Checked
  <1>3. PICK latest : latest = {registry, compute} \ {"none"}
    OBVIOUS
  <1>4. Status(a) = CASE latest = {} -> "None"
                      [] "failed" \in latest -> "Failed"
                      [] latest = {"ready"} -> "Live"
                      [] latest = {"deleted"} -> "Deleted"
                      [] latest \in {{"ready", "deleted"}, {"pending", "deleted"}} -> "Deleting"
                      [] OTHER -> "Deploying"
    BY <1>1, <1>3 DEF Status, StatusOf
  <1>5. CASE compute = "none"
    <2>1. latest = IF registry = "none" THEN {} ELSE {registry}
      BY <1>3, <1>5
    <2>2. Status(a) \in {"None", "Failed", "Live", "Deleted"}
      BY <1>2, <1>4, <2>1
    <2>3. Status(a) = "Live" => registry = "ready"
      BY <1>2, <1>4, <2>1
    <2> QED BY <1>1, <1>2, <1>5, <2>2, <2>3 DEF Checked
  <1>6. CASE compute = "failed"
    <2>1. "failed" \in latest /\ latest # {}
      BY <1>3, <1>6
    <2>2. Status(a) = "Failed"
      BY <1>4, <2>1
    <2> QED BY <1>1, <1>2, <2>2
  <1>7. CASE compute = "pending"
    <2>1. "pending" \in latest
      BY <1>3, <1>7
    <2>2. latest # {} /\ latest # {"ready"} /\ latest # {"deleted"}
      BY <2>1
    <2>3. Status(a) \in {"Failed", "Deleting", "Deploying"}
      BY <1>4, <2>2
    <2> QED BY <1>1, <1>2, <1>7, <2>3 DEF Checked
  <1>8. CASE compute = "ready"
    <2>1. CASE registry \in {"none", "ready"}
      <3>1. latest = {"ready"}
        BY <1>3, <1>8, <2>1
      <3>2. Status(a) = "Live"
        BY <1>4, <3>1
      <3> QED BY <1>1, <1>2, <1>8, <2>1, <3>2 DEF Checked
    <2>2. CASE registry = "failed"
      <3>1. "failed" \in latest /\ latest # {}
        BY <1>3, <2>2
      <3>2. Status(a) = "Failed"
        BY <1>4, <3>1
      <3> QED BY <1>1, <1>2, <3>2
    <2>3. CASE registry = "deleted"
      <3>1. latest = {"ready", "deleted"}
        BY <1>3, <1>8, <2>3
      <3>2. Status(a) = "Deleting"
        BY <1>4, <3>1
      <3> QED BY <1>1, <1>2, <1>8, <2>3, <3>2 DEF Checked
    <2> QED BY <1>2, <2>1, <2>2, <2>3
  <1>9. CASE compute = "deleted"
    <2>1. "deleted" \in latest
      BY <1>3, <1>9
    <2>2. latest # {} /\ latest # {"ready"}
      BY <2>1
    <2>3. CASE registry \in {"none", "deleted"}
      <3>1. latest = {"deleted"}
        BY <1>3, <1>9, <2>3
      <3>2. Status(a) = "Deleted"
        BY <1>4, <3>1
      <3> QED BY <1>1, <1>2, <1>9, <3>2
    <2>4. CASE registry = "failed"
      <3>1. "failed" \in latest
        BY <1>3, <2>4
      <3>2. Status(a) = "Failed"
        BY <1>4, <2>2, <3>1
      <3> QED BY <1>1, <1>2, <3>2
    <2>5. CASE registry = "ready"
      <3>1. latest = {"ready", "deleted"}
        BY <1>3, <1>9, <2>5
      <3>2. Status(a) = "Deleting"
        BY <1>4, <3>1
      <3> QED BY <1>1, <1>2, <1>9, <2>5, <3>2 DEF Checked
    <2> QED BY <1>2, <2>3, <2>4, <2>5
  <1> QED BY <1>2, <1>5, <1>6, <1>7, <1>8, <1>9 DEF Check

LEMMA BeginTickKeeps ==
    ASSUME IInv, NEW k \in Kinds, NEW listed \in SUBSET Agents, BeginTick(k, listed),
           faults' \in 0..MaxFaults, faults' = 0 => faults = 0 /\ listed = AgentsOf(k)
    PROVE  IInv'
  <1>1. PICK orphans : orphans = held[k] \ listed
    OBVIOUS
  <1>2. /\ runtime[k].at = "idle" /\ runtime' = [runtime EXCEPT ![k].todo = listed]
        /\ held' = [held EXCEPT ![k] = @ \ orphans]
        /\ pods' = [a \in Agents |-> IF k = "container" /\ a \in orphans THEN NoPod ELSE pods[a]]
        /\ volumes' = [a \in Agents |-> IF k = "container" /\ a \in orphans THEN {} ELSE volumes[a]]
        /\ cloud' = [a \in Agents |-> IF k = "lambda" /\ a \in orphans THEN {} ELSE cloud[a]]
        /\ tasks' = IF k = "lambda" THEN tasks \ orphans ELSE tasks
        /\ UNCHANGED <<queueVars, registryVars, infra>>
    BY <1>1 DEF BeginTick
  <1>3. TickTyped /\ PodmanTyped /\ HeldTyped /\ CloudTyped
    BY TypesSplit DEF IInv
  <1>4. /\ TickTyped' /\ runtime'[k].at = "idle" /\ runtime'[k].todo = listed
        /\ \A j \in Kinds \ {k} : runtime'[j] = runtime[j]
    <2>1. PICK tick : tick = [runtime[k] EXCEPT !.todo = listed]
      OBVIOUS
    <2>2. tick \in TickRecord /\ tick.at = "idle" /\ tick.todo = listed
      BY <1>2, <1>3, <2>1 DEF TickTyped, TickRecord
    <2> QED BY <1>2, <1>3, <2>1, <2>2 DEF TickTyped
  <1>5. /\ held' \in [Kinds -> SUBSET Agents] /\ held'[k] = held[k] \ orphans
        /\ \A j \in Kinds \ {k} : held'[j] = held[j]
    BY <1>2, <1>3 DEF HeldTyped
  <1>6. HeldTyped'
    BY <1>2, <1>3, <1>5 DEF HeldTyped, Kinds
  <1>7. PodmanTyped' /\ CloudTyped'
    <2>1. NoPod \in Pod
      BY DEF NoPod, Pod
    <2> QED BY <1>2, <1>3, <2>1 DEF PodmanTyped, CloudTyped
  <1>8. RuntimesOK'
    <2>1. \A j \in Kinds : runtime'[j].at # "idle" =>
              j # k /\ runtime'[j] = runtime[j] /\ held'[j] = held[j]
      BY <1>4, <1>5
    <2>2. disk' = disk /\ tasks' \subseteq tasks /\ RuntimesOK
      BY <1>2 DEF registryVars, IInv
    <2> QED BY <1>4, <2>1, <2>2 DEF RuntimesOK, Kinds, PodSteps, AwsSteps
  <1>9. ASSUME faults' = 0 PROVE Steady'
    <2>1. Steady /\ listed = AgentsOf(k)
      BY <1>9 DEF IInv
    <2>2. orphans = {}
      BY <1>1, <1>3, <2>1 DEF Steady, KindsOK, AgentsOf, HeldTyped
    <2>3. /\ held' = held /\ tasks' = tasks /\ checks' = checks /\ cache' = cache /\ infra' = infra
          /\ \A a \in Agents : pods'[a] = pods[a] /\ volumes'[a] = volumes[a] /\ cloud'[a] = cloud[a]
      BY <1>2, <1>3, <2>2 DEF registryVars, HeldTyped
    <2>4. \A j \in Kinds : /\ runtime'[j].at = runtime[j].at
                           /\ runtime'[j].at # "idle" => runtime'[j] = runtime[j]
      BY <1>2, <1>4
    <2>5. \A j \in Kinds : \A a \in Agents : Busy(j, a)' <=> Busy(j, a)
      BY <2>4 DEF Busy
    <2>6. KindsOK'
      <3>1. SUFFICES ASSUME NEW j \in Kinds, NEW a \in Agents,
                            Busy(j, a)' \/ a \in held'[j] \cup runtime'[j].todo
                     PROVE  cache[a] # NoConfig /\ KindOf(cache[a]) = j
        BY <2>3 DEF KindsOK
      <3>2. Busy(j, a) \/ a \in held[j] \cup runtime[j].todo \/ (j = k /\ a \in AgentsOf(k))
        BY <1>4, <2>1, <2>3, <2>5, <3>1
      <3> QED BY <2>1, <3>2 DEF Steady, KindsOK, AgentsOf
    <2>7. ASSUME NEW a \in Agents PROVE ChecksOK(a)' /\ PodOK(a)' /\ CloudOK(a)'
      <3>1. ChecksOK(a) /\ PodOK(a) /\ CloudOK(a)
        BY <2>1 DEF Steady
      <3>2. Busy("container", a) => runtime'["container"] = runtime["container"]
        BY <2>4 DEF Busy, Kinds
      <3>3. ChecksOK(a)'
        BY <2>3, <2>4, <2>5, <3>1 DEF ChecksOK, Paired, Withdrawn, Announced
      <3>4. PodOK(a)'
        BY <2>3, <2>4, <2>5, <3>1, <3>2 DEF PodOK, Whole, Bare, Kinds
      <3>5. CloudOK(a)'
        BY <2>3, <2>4, <2>5, <3>1 DEF CloudOK, Kinds
      <3> QED BY <3>3, <3>4, <3>5
    <2> QED BY <2>6, <2>7 DEF Steady
  <1> QED BY <1>2, <1>4, <1>6, <1>7, <1>8, <1>9, RuntimeKeeps

LEMMA TickKeeps ==
    ASSUME IInv, NEW k \in Kinds, Tick(k) \/ TickWithoutRegistry(k)
    PROVE  IInv'
  <1>1. faults \in 0..MaxFaults
    BY TypesSplit DEF IInv
  <1>2. CASE Tick(k)
    <2>1. AgentsOf(k) \in SUBSET Agents /\ BeginTick(k, AgentsOf(k)) /\ faults' = faults
      BY <1>2 DEF Tick, AgentsOf
    <2> QED BY <1>1, <2>1, BeginTickKeeps
  <1>3. CASE TickWithoutRegistry(k)
    <2>1. {} \in SUBSET Agents /\ BeginTick(k, {}) /\ faults' \in 0..MaxFaults /\ faults' # 0
      BY <1>1, <1>3, Faulty DEF TickWithoutRegistry
    <2> QED BY <2>1, BeginTickKeeps
  <1> QED BY <1>2, <1>3

LEMMA ReadStatusKeeps ==
    ASSUME IInv, NEW k \in Kinds, NEW a \in Agents, ReadStatus(k, a)
    PROVE  IInv'
  <1>1. PICK at : at = CASE Status(a) = "Deploying" /\ ~(k = "lambda" /\ a \in held[k]) -> "starting"
                         [] Status(a) = "Deleting" -> "stopping"
                         [] OTHER -> "idle"
    OBVIOUS
  <1>2. PICK tick : tick = [at |-> at, agent |-> a, mount |-> 0, todo |-> runtime[k].todo \ {a}]
    OBVIOUS
  <1>3. /\ runtime[k].at = "idle" /\ a \in runtime[k].todo /\ runtime' = [runtime EXCEPT ![k] = tick]
        /\ UNCHANGED <<queueVars, registryVars, infra, held, podman, aws, faults>>
    BY <1>1, <1>2 DEF ReadStatus
  <1>4. /\ TickTyped /\ PodmanTyped /\ HeldTyped /\ CloudTyped /\ StoreTyped
        /\ faults \in 0..MaxFaults /\ Checked(a)
    BY TypesSplit DEF IInv
  <1>5. /\ at \in {"idle", "starting", "stopping"} /\ (at # "idle" => disk[a] # NoConfig)
        /\ at = "starting" => checks[a].compute = "pending"
        /\ at = "stopping" /\ checks[a].compute = "ready" => checks[a].registry = "deleted"
    BY <1>1, <1>4, StatusSays
  <1>6. /\ TickTyped' /\ runtime'[k] = tick /\ \A j \in Kinds \ {k} : runtime'[j] = runtime[j]
        /\ tick.at = at /\ tick.agent = a /\ tick.mount = 0 /\ tick.todo \subseteq runtime[k].todo
    <2>1. tick \in TickRecord
      BY <1>2, <1>4, <1>5 DEF TickTyped, TickRecord
    <2> QED BY <1>2, <1>3, <1>4, <2>1 DEF TickTyped
  <1>7. /\ held' = held /\ pods' = pods /\ volumes' = volumes /\ cloud' = cloud /\ tasks' = tasks
        /\ checks' = checks /\ cache' = cache /\ disk' = disk /\ infra' = infra /\ faults' = faults
    BY <1>3 DEF podman, aws, registryVars
  <1>8. PodmanTyped' /\ HeldTyped' /\ CloudTyped'
    BY <1>4, <1>7 DEF PodmanTyped, HeldTyped, CloudTyped
  <1>9. RuntimesOK'
    <2>1. RuntimesOK
      BY DEF IInv
    <2>2. k = "container" \/ k = "lambda"
      BY DEF Kinds
    <2> QED BY <1>5, <1>6, <1>7, <2>1, <2>2 DEF RuntimesOK, Kinds, PodSteps, AwsSteps
  <1>10. ASSUME faults' = 0 PROVE Steady'
    <2>1. Steady
      BY <1>7, <1>10 DEF IInv
    <2>2. \A b \in Agents : ~Busy(k, b) /\ (Busy(k, b)' <=> b = a /\ at # "idle")
      BY <1>3, <1>6 DEF Busy
    <2>3. \A j \in Kinds \ {k} : \A b \in Agents : Busy(j, b)' <=> Busy(j, b)
      BY <1>6 DEF Busy
    <2>4. cache[a] # NoConfig /\ KindOf(cache[a]) = k
      BY <1>3, <2>1 DEF Steady, KindsOK
    <2>5. KindsOK'
      <3>1. SUFFICES ASSUME NEW j \in Kinds, NEW b \in Agents,
                            Busy(j, b)' \/ b \in held'[j] \cup runtime'[j].todo
                     PROVE  cache[b] # NoConfig /\ KindOf(cache[b]) = j
        BY <1>7 DEF KindsOK
      <3>2. Busy(j, b) \/ b \in held[j] \cup runtime[j].todo \/ (j = k /\ b = a)
        BY <1>6, <1>7, <2>2, <2>3, <3>1
      <3> QED BY <2>1, <2>4, <3>2 DEF Steady, KindsOK
    <2>6. ASSUME NEW b \in Agents PROVE ChecksOK(b)' /\ PodOK(b)' /\ CloudOK(b)'
      <3>1. ChecksOK(b) /\ PodOK(b) /\ CloudOK(b)
        BY <2>1 DEF Steady
      <3>2. ChecksOK(b)'
        <4>1. \A j \in Kinds \ {k} : runtime'[j] = runtime[j]
          BY <1>6
        <4>2. runtime'[k].at = at
          BY <1>6
        <4> QED BY <1>5, <1>7, <2>2, <2>3, <3>1, <4>1, <4>2 DEF ChecksOK, Paired, Withdrawn, Announced, Ends
      <3>3. PodOK(b)'
        <4>1. CASE k = "container"
          <5>1. ~Busy("container", b) /\ (Busy("container", b)' => runtime'["container"].at = at /\ b = a /\ at # "idle")
            BY <1>6, <2>2, <4>1
          <5> QED BY <1>5, <1>7, <3>1, <5>1 DEF PodOK, Whole, Bare
        <4>2. CASE k # "container"
          <5>1. Busy("container", b)' <=> Busy("container", b)
            BY <2>3, <4>2 DEF Kinds
          <5>2. runtime'["container"] = runtime["container"]
            BY <1>6, <4>2 DEF Kinds
          <5> QED BY <1>7, <3>1, <5>1, <5>2 DEF PodOK, Whole, Bare
        <4> QED BY <4>1, <4>2
      <3>4. CloudOK(b)'
        <4>1. CASE k = "lambda"
          <5>1. ~Busy("lambda", b) /\ (Busy("lambda", b)' => runtime'["lambda"].at = at /\ b = a /\ at # "idle")
            BY <1>6, <2>2, <4>1
          <5> QED BY <1>5, <1>7, <3>1, <5>1 DEF CloudOK
        <4>2. CASE k # "lambda"
          <5>1. Busy("lambda", b)' <=> Busy("lambda", b)
            BY <2>3, <4>2 DEF Kinds
          <5>2. runtime'["lambda"] = runtime["lambda"]
            BY <1>6, <4>2 DEF Kinds
          <5> QED BY <1>7, <3>1, <5>1, <5>2 DEF CloudOK
        <4> QED BY <4>1, <4>2
      <3> QED BY <3>2, <3>3, <3>4
    <2> QED BY <2>5, <2>6 DEF Steady
  <1> QED BY <1>3, <1>4, <1>6, <1>7, <1>8, <1>9, <1>10, RuntimeKeeps

\* What a runtime reports is so: an agent is up with all it needs, or has nothing.
LEMMA ReportKeeps == ASSUME IInv, NEW k \in Kinds, Report(k) PROVE IInv'
  <1>1. PICK a, at, check :
            /\ a = runtime[k].agent /\ at = runtime[k].at
            /\ check = CASE at = "up" -> "ready" [] at = "broken" -> "failed" [] at = "down" -> "deleted"
    OBVIOUS
  <1>2. /\ at \in {"up", "broken", "down"} /\ checks' = [checks EXCEPT ![a]["compute"] = check]
        /\ tasks' = IF k = "lambda" /\ at = "up" THEN tasks \cup {a} ELSE tasks
        /\ MoveOn(k, "idle")
        /\ UNCHANGED <<queueVars, cache, disk, infra, held, podman, cloud, faults>>
    BY <1>1 DEF Report, AppendCheck, At
  <1>3. /\ QueueTyped /\ TickTyped /\ PodmanTyped /\ HeldTyped /\ CloudTyped /\ StoreTyped
        /\ infra \in InfraRecord /\ faults \in 0..MaxFaults
    BY TypesSplit DEF IInv
  <1>4. a \in Agents /\ disk[a] # NoConfig /\ (k = "lambda" /\ at = "up" => a \in held["lambda"])
    BY <1>1, <1>2 DEF IInv, RuntimesOK
  <1>5. check \in {"ready", "failed", "deleted"} /\ (check = "ready" <=> at = "up")
    BY <1>1, <1>2
  <1>6. /\ checks'[a].registry = checks[a].registry /\ checks'[a].compute = check
        /\ \A b \in Agents \ {a} : checks'[b] = checks[b]
        /\ checks' \in [Agents -> Checks]
    <2>1. PICK checked : checked = [checks[a] EXCEPT !["compute"] = check]
      OBVIOUS
    <2>2. checked \in Checks /\ checked.registry = checks[a].registry /\ checked.compute = check
      BY <1>3, <1>4, <1>5, <2>1 DEF StoreTyped, Checks, Check
    <2> QED BY <1>2, <1>3, <1>4, <2>1, <2>2 DEF StoreTyped
  <1>7. /\ runtime'[k].at = "idle" /\ runtime'[k].todo = runtime[k].todo
        /\ \A j \in Kinds \ {k} : runtime'[j] = runtime[j]
        /\ TickTyped'
    BY <1>2, Moved DEF PodSteps
  <1>8. /\ held' = held /\ pods' = pods /\ volumes' = volumes /\ cloud' = cloud
        /\ cache' = cache /\ disk' = disk /\ infra' = infra /\ faults' = faults
        /\ commands' = commands /\ pending' = pending
    BY <1>2 DEF podman, queueVars
  <1>9. TypeOK'
    <2>1. QueueTyped' /\ StoreTyped' /\ (infra \in InfraRecord)' /\ PodmanTyped' /\ CloudTyped'
          /\ (faults \in 0..MaxFaults)'
      BY <1>3, <1>6, <1>8 DEF QueueTyped, StoreTyped, PodmanTyped, CloudTyped
    <2>2. HeldTyped'
      BY <1>2, <1>3, <1>4, <1>8 DEF HeldTyped
    <2>3. TickTyped'
      BY <1>7
    <2> QED BY <2>1, <2>2, <2>3, TypesMake, PTL
  <1>10. CommandsOK' /\ InfraOK' /\ \A b \in Agents : Saved(b)'
    BY <1>8 DEF IInv, CommandsOK, InfraOK, Saved
  <1>11. \A b \in Agents : Checked(b)'
    BY <1>4, <1>6, <1>8 DEF IInv, Checked
  <1>12. RuntimesOK'
    <2>1. RuntimesOK /\ (k = "container" \/ k = "lambda")
      BY DEF IInv, Kinds
    <2>2. runtime["lambda"].at \in {"deleting", "revoking"} => tasks' = tasks
      BY <1>1, <1>2
    <2> QED BY <1>7, <1>8, <2>1, <2>2 DEF RuntimesOK, Kinds, PodSteps, AwsSteps
  <1>13. ASSUME faults' = 0 PROVE Steady'
    <2>1. Steady
      BY <1>8, <1>13 DEF IInv
    <2>2. /\ \A b \in Agents : ~Busy(k, b)' /\ (Busy(k, b) => b = a)
          /\ Busy(k, a)
      BY <1>1, <1>2, <1>7 DEF Busy
    <2>3. \A j \in Kinds \ {k} : \A b \in Agents : Busy(j, b)' <=> Busy(j, b)
      BY <1>7 DEF Busy
    <2>4. /\ cache[a] # NoConfig /\ KindOf(cache[a]) = k
          /\ \A j \in Kinds \ {k} : ~Busy(j, a) /\ a \notin held[j]
      BY <1>4, <2>1, <2>2 DEF Steady, KindsOK
    <2>5. KindsOK'
      BY <1>7, <1>8, <2>1, <2>2, <2>3 DEF Steady, KindsOK
    <2>6. ASSUME NEW b \in Agents PROVE ChecksOK(b)' /\ PodOK(b)' /\ CloudOK(b)'
      <3>1. ChecksOK(b) /\ PodOK(b) /\ CloudOK(b)
        BY <2>1 DEF Steady
      <3>2. ChecksOK(b)'
        BY <1>5, <1>6, <1>7, <1>8, <2>2, <2>3, <2>4, <3>1 DEF ChecksOK, Paired, Withdrawn, Announced
      <3>3. PodOK(b)'
        <4>1. CASE b # a
          <5>1. Busy("container", b)' <=> Busy("container", b)
            BY <2>2, <2>3, <4>1 DEF Kinds
          <5>2. Busy("container", b) => runtime'["container"] = runtime["container"]
            BY <1>7, <2>2, <4>1 DEF Kinds
          <5> QED BY <1>6, <1>8, <3>1, <4>1, <5>1, <5>2 DEF PodOK, Whole, Bare
        <4>2. CASE b = a /\ k = "container"
          <5>1. ~Busy("container", a)' /\ Busy("container", a) /\ runtime["container"].at = at
            BY <1>1, <2>2, <4>2
          <5>2. IF at = "up" THEN a \in held["container"] /\ Whole(a)
                ELSE a \notin held["container"] /\ Bare(a)
            BY <1>2, <3>1, <4>2, <5>1 DEF PodOK
          <5> QED BY <1>5, <1>6, <1>8, <4>2, <5>1, <5>2 DEF PodOK, Whole, Bare
        <4>3. CASE b = a /\ k # "container"
          <5>1. ~Busy("container", a)' /\ ~Busy("container", a) /\ a \notin held["container"]
            BY <2>3, <2>4, <4>3 DEF Kinds
          <5>2. Bare(a)
            BY <3>1, <4>3, <5>1 DEF PodOK
          <5> QED BY <1>8, <2>4, <4>3, <5>1, <5>2 DEF PodOK, Bare
        <4> QED BY <4>1, <4>2, <4>3
      <3>4. CloudOK(b)'
        <4>1. CASE b # a
          <5>1. Busy("lambda", b)' <=> Busy("lambda", b)
            BY <2>2, <2>3, <4>1 DEF Kinds
          <5>2. Busy("lambda", b) => runtime'["lambda"] = runtime["lambda"]
            BY <1>7, <2>2, <4>1 DEF Kinds
          <5>3. b \in tasks => b \in tasks'
            BY <1>2
          <5> QED BY <1>6, <1>8, <3>1, <4>1, <5>1, <5>2, <5>3 DEF CloudOK
        <4>2. CASE b = a /\ k = "lambda"
          <5>1. ~Busy("lambda", a)' /\ Busy("lambda", a) /\ runtime["lambda"].at = at
            BY <1>1, <2>2, <4>2
          <5>2. a \in held["lambda"] => cloud[a] = Cloud
            BY <1>2, <3>1, <4>2, <5>1 DEF CloudOK
          <5> QED BY <1>2, <1>5, <1>6, <1>8, <4>2, <5>1, <5>2 DEF CloudOK
        <4>3. CASE b = a /\ k # "lambda"
          <5>1. ~Busy("lambda", a)' /\ a \notin held["lambda"]
            BY <2>3, <2>4, <4>3 DEF Kinds
          <5> QED BY <1>8, <2>4, <4>3, <5>1 DEF CloudOK
        <4> QED BY <4>1, <4>2, <4>3
      <3> QED BY <3>2, <3>3, <3>4
    <2> QED BY <2>5, <2>6 DEF Steady
  <1> QED BY <1>9, <1>10, <1>11, <1>12, <1>13 DEF IInv

-----------------------------------------------------------------------------
(* Faults *)

LEMMA PodDiesKeeps == ASSUME IInv, NEW a \in Agents, PodDies(a) PROVE IInv'
  <1>1. /\ QueueTyped /\ TickTyped /\ PodmanTyped /\ HeldTyped /\ CloudTyped /\ StoreTyped
        /\ faults \in 0..MaxFaults
    BY TypesSplit DEF IInv
  <1>2. faults' \in 0..MaxFaults /\ faults' # 0
    BY <1>1, Faulty DEF PodDies
  <1>3. PodmanTyped'
    <2>1. PICK pod : pod = [pods[a] EXCEPT !.state = "dead"]
      OBVIOUS
    <2>2. pod \in Pod
      BY <1>1, <2>1 DEF PodmanTyped, Pod
    <2> QED BY <1>1, <2>1, <2>2 DEF PodDies, PodmanTyped
  <1>4. TickTyped' /\ HeldTyped' /\ CloudTyped'
    BY <1>1 DEF PodDies, TickTyped, HeldTyped, CloudTyped, aws
  <1>5. RuntimesOK'
    BY DEF PodDies, IInv, RuntimesOK, registryVars, aws
  <1> QED BY <1>2, <1>3, <1>4, <1>5, RuntimeKeeps DEF PodDies

LEMMA RestartKeeps == ASSUME IInv, NEW replayed, Restart(replayed) PROVE IInv'
  <1>1. /\ QueueTyped /\ TickTyped /\ PodmanTyped /\ HeldTyped /\ CloudTyped /\ StoreTyped
        /\ faults \in 0..MaxFaults
    BY TypesSplit DEF IInv
  <1>2. faults' \in 0..MaxFaults /\ faults' # 0
    BY <1>1, Faulty DEF Restart, Stops
  <1>3. /\ \E removed \in SUBSET held["container"] : \E cleaned \in SUBSET removed :
              /\ pods' = [a \in Agents |-> IF a \in removed THEN NoPod ELSE pods[a]]
              /\ volumes' = [a \in Agents |-> IF a \in cleaned THEN {} ELSE volumes[a]]
        /\ \E deleted \in SUBSET held["lambda"] : \E left \in {{}, {"role", "policy"}} :
              cloud' = [a \in Agents |-> IF a \in deleted THEN left ELSE cloud[a]]
        /\ tasks' = {} /\ infra' = Idle /\ runtime' = [k \in Kinds |-> Resting]
        /\ held' = [k \in Kinds |-> {}] /\ cache' = disk
        /\ pending' = pending \cup {i \in DOMAIN commands : commands[i].kind \in replayed}
        /\ commands' = commands /\ disk' = disk /\ checks' = checks
    BY DEF Restart, Stops
  <1>4. /\ Idle \in InfraRecord /\ Idle.at = "idle"
        /\ Resting \in TickRecord /\ Resting.at = "idle"
        /\ NoPod \in Pod
    BY DEF Idle, InfraRecord, MaybeConfig, Resting, TickRecord, NoPod, Pod
  <1>5. QueueTyped' /\ StoreTyped' /\ (infra \in InfraRecord)' /\ TickTyped' /\ HeldTyped'
    BY <1>1, <1>3, <1>4 DEF QueueTyped, StoreTyped, TickTyped, HeldTyped, Kinds
  <1>6. PodmanTyped'
    BY <1>1, <1>3, <1>4 DEF PodmanTyped
  <1>7. CloudTyped'
    BY <1>1, <1>3 DEF CloudTyped, Cloud
  <1>8. TypeOK'
    <2>1. (faults \in 0..MaxFaults)'
      BY <1>2
    <2> QED BY <1>5, <1>6, <1>7, <2>1, TypesMake, PTL
  <1>9. \A k \in Kinds : runtime'[k].at = "idle"
    BY <1>3, <1>4
  <1>10. CommandsOK' /\ InfraOK' /\ RuntimesOK'
    BY <1>3, <1>4, <1>9 DEF IInv, CommandsOK, InfraOK, RuntimesOK, Kinds, PodSteps, AwsSteps
  <1>11. \A a \in Agents : Saved(a)' /\ Checked(a)'
    BY <1>3 DEF IInv, Saved, Checked
  <1> QED BY <1>2, <1>8, <1>10, <1>11 DEF IInv

-----------------------------------------------------------------------------
(* The CLI and the infra worker *)

\* They change no pod and no function, and of a known agent neither configuration nor, while a
\* runtime works for it, what its checks say of that.
LEMMA InfraKeeps ==
    ASSUME IInv, UNCHANGED computeVars,
           QueueTyped', StoreTyped', infra' \in InfraRecord, faults' \in 0..MaxFaults,
           CommandsOK', InfraOK', \A a \in Agents : Saved(a)' /\ Checked(a)',
           \A a \in Agents : disk[a] # NoConfig => disk'[a] # NoConfig,
           \A a \in Agents : cache[a] # NoConfig => cache'[a] = cache[a],
           faults' = 0 => faults = 0,
           \A a \in Agents : checks'[a].compute \in {checks[a].compute, "pending"},
           \A a \in Agents : Paired(a) => Paired(a)',
           \A a \in Agents : checks'[a].compute = "ready" /\ Withdrawn(a) => Withdrawn(a)'
    PROVE  IInv'
  <1>1. /\ runtime' = runtime /\ held' = held /\ pods' = pods /\ volumes' = volumes
        /\ cloud' = cloud /\ tasks' = tasks
    BY DEF computeVars, podman, aws
  <1>2. TypeOK'
    <2>1. TickTyped' /\ PodmanTyped' /\ HeldTyped' /\ CloudTyped'
      BY <1>1, TypesSplit DEF IInv, TickTyped, PodmanTyped, HeldTyped, CloudTyped
    <2>2. QueueTyped' /\ StoreTyped' /\ (infra \in InfraRecord)' /\ (faults \in 0..MaxFaults)'
      OBVIOUS
    <2> QED BY <2>1, <2>2, TypesMake, PTL
  <1>3. RuntimesOK'
    BY <1>1 DEF IInv, RuntimesOK
  <1>4. ASSUME faults' = 0 PROVE Steady'
    <2>1. Steady
      BY <1>4 DEF IInv
    <2>2. \A k \in Kinds : \A a \in Agents : Busy(k, a)' <=> Busy(k, a)
      BY <1>1 DEF Busy
    <2>3. KindsOK'
      <3>1. SUFFICES ASSUME NEW k \in Kinds, NEW a \in Agents, Busy(k, a) \/ a \in held[k] \cup runtime[k].todo
                     PROVE  cache'[a] # NoConfig /\ KindOf(cache'[a]) = k
        BY <1>1, <2>2 DEF KindsOK
      <3> QED BY <2>1, <3>1 DEF Steady, KindsOK
    <2>4. ASSUME NEW a \in Agents PROVE ChecksOK(a)' /\ PodOK(a)' /\ CloudOK(a)'
      <3>1. ChecksOK(a) /\ PodOK(a) /\ CloudOK(a)
        BY <2>1 DEF Steady
      <3>2. \A k \in Kinds : Busy(k, a) \/ a \in held[k] => cache'[a] = cache[a]
        BY <2>1 DEF Steady, KindsOK
      <3>3. checks'[a].compute = "ready" => checks[a].compute = "ready" /\ cache'[a] = cache[a]
        BY DEF IInv, Saved, Checked
      <3>4. ChecksOK(a)'
        BY <1>1, <2>2, <3>1 DEF ChecksOK
      <3>5. PodOK(a)'
        BY <1>1, <2>2, <3>1, <3>2, <3>3 DEF PodOK, Whole, Bare, Kinds
      <3>6. CloudOK(a)'
        BY <1>1, <2>2, <3>1, <3>3 DEF CloudOK, Kinds
      <3> QED BY <3>4, <3>5, <3>6
    <2> QED BY <2>3, <2>4 DEF Steady
  <1> QED BY <1>2, <1>3, <1>4 DEF IInv

LEMMA SubmitKeeps ==
    ASSUME IInv, NEW command \in Deploys \cup Deletes, Submit(command)
    PROVE  IInv'
  <1>1. QueueTyped /\ StoreTyped /\ infra \in InfraRecord /\ faults \in 0..MaxFaults /\ CommandsOK
    BY TypesSplit DEF IInv
  <1>2. /\ commands' = Append(commands, command) /\ pending' = pending \cup {Len(commands) + 1}
        /\ cache' = cache /\ disk' = disk /\ checks' = checks /\ infra' = infra /\ faults' = faults
        /\ UNCHANGED computeVars
    BY DEF Submit, Publish, registryVars
  <1>3. command \in Command
    BY DEF Deploys, Deletes, Command, MaybeConfig
  <1>4. QueueTyped' /\ CommandsOK'
    <2>1. /\ commands' \in Seq(Command) /\ DOMAIN commands' = DOMAIN commands \cup {Len(commands) + 1}
          /\ \A i \in DOMAIN commands : commands'[i] = commands[i]
          /\ commands'[Len(commands) + 1] = command
      BY <1>1, <1>2, <1>3, SeqAppend DEF QueueTyped
    <2> QED BY <1>1, <1>2, <2>1 DEF QueueTyped, CommandsOK
  <1>5. StoreTyped' /\ InfraOK' /\ \A a \in Agents : Saved(a)' /\ Checked(a)'
    BY <1>1, <1>2 DEF IInv, StoreTyped, InfraOK, Saved, Checked
  <1>6. \A a \in Agents : /\ Paired(a)' <=> Paired(a)
                          /\ Withdrawn(a)' <=> Withdrawn(a)
    BY <1>2 DEF Paired, Withdrawn, Announced
  <1> QED BY <1>1, <1>2, <1>4, <1>5, <1>6, InfraKeeps

LEMMA ReceiveKeeps ==
    ASSUME IInv, NEW i \in pending, Receive(i)
    PROVE  IInv'
  <1>1. QueueTyped /\ StoreTyped /\ faults \in 0..MaxFaults /\ CommandsOK
    BY TypesSplit DEF IInv
  <1>2. PICK command : command = commands[i]
    OBVIOUS
  <1>3. /\ infra.at = "idle" /\ pending' = pending \ {i}
        /\ infra' = [at |-> command.kind, agent |-> command.agent, config |-> command.config]
        /\ cache' = cache /\ disk' = disk /\ checks' = checks /\ faults' = faults
        /\ commands' = commands /\ UNCHANGED computeVars
    BY <1>2 DEF Receive, registryVars
  <1>4. command \in Deploys \cup Deletes
    BY <1>1, <1>2 DEF QueueTyped, CommandsOK
  <1>5. /\ infra' \in InfraRecord /\ infra'.at \in {"deploy", "delete"} /\ infra'.agent \in Agents
        /\ infra'.at = "deploy" => infra'.config \in Configs
    BY <1>3, <1>4 DEF Deploys, Deletes, InfraRecord, MaybeConfig
  <1>6. QueueTyped' /\ CommandsOK' /\ InfraOK'
    BY <1>1, <1>3, <1>5 DEF QueueTyped, CommandsOK, InfraOK
  <1>7. StoreTyped' /\ \A a \in Agents : Saved(a)' /\ Checked(a)'
    BY <1>1, <1>3 DEF IInv, StoreTyped, Saved, Checked
  <1>8. \A a \in Agents : /\ Paired(a) => Paired(a)'
                          /\ Withdrawn(a) => Withdrawn(a)'
    BY <1>3 DEF Paired, Withdrawn, Announced
  <1> QED BY <1>1, <1>3, <1>5, <1>6, <1>7, <1>8, InfraKeeps

LEMMA CheckAppended ==
    ASSUME NEW a \in Agents, StoreTyped, NEW worker, NEW status \in Check, AppendCheck(a, worker, status),
           worker \in {"registry", "compute"}
    PROVE  /\ checks' \in [Agents -> Checks] /\ \A b \in Agents \ {a} : checks'[b] = checks[b]
           /\ worker = "registry" => checks'[a].registry = status /\ checks'[a].compute = checks[a].compute
           /\ worker = "compute" => checks'[a].compute = status /\ checks'[a].registry = checks[a].registry
  <1>1. PICK checked : checked = [checks[a] EXCEPT ![worker] = status]
    OBVIOUS
  <1>2. /\ checked \in Checks
        /\ worker = "registry" => checked.registry = status /\ checked.compute = checks[a].compute
        /\ worker = "compute" => checked.compute = status /\ checked.registry = checks[a].registry
    BY <1>1 DEF StoreTyped, Checks
  <1>3. checks' = [checks EXCEPT ![a] = checked]
    BY <1>1 DEF AppendCheck
  <1> QED BY <1>2, <1>3 DEF StoreTyped

\* What the infra worker knows of its command.
LEMMA OfInfra ==
    ASSUME IInv, infra.at # "idle"
    PROVE  /\ infra.agent \in Agents /\ infra \in InfraRecord
           /\ QueueTyped /\ StoreTyped /\ faults \in 0..MaxFaults
           /\ Saved(infra.agent) /\ Checked(infra.agent)
  BY TypesSplit DEF IInv, InfraOK

LEMMA InfraIdle == Idle \in InfraRecord /\ Idle.at = "idle"
  BY DEF Idle, InfraRecord, MaybeConfig

\* A check that the infra worker appends, at the end of its command or between the two of a
\* registration.
LEMMA RecordKeeps ==
    ASSUME IInv, NEW worker, NEW status, AppendCheck(infra.agent, worker, status),
           UNCHANGED <<queueVars, cache, disk, computeVars>>,
           faults' \in 0..MaxFaults, faults' = 0 => faults = 0,
           \/ /\ worker = "registry" /\ status \in {"failed", "deleted"}
              /\ infra.at \in {"deploy", "cached", "delete"} /\ infra' = Idle
           \/ /\ worker = "registry" /\ status = "ready"
              /\ infra.at = "saved" /\ infra' = [infra EXCEPT !.at = "announced"]
           \/ /\ worker = "compute" /\ status = "pending"
              /\ infra.at = "announced" /\ infra' = Idle
    PROVE  IInv'
  <1>1. PICK a : a = infra.agent
    OBVIOUS
  <1>2. /\ a \in Agents /\ infra \in InfraRecord /\ QueueTyped /\ StoreTyped
        /\ infra.at # "idle"
    BY <1>1, OfInfra
  <1>3. /\ checks' \in [Agents -> Checks] /\ \A b \in Agents \ {a} : checks'[b] = checks[b]
        /\ worker = "registry" => checks'[a].registry = status /\ checks'[a].compute = checks[a].compute
        /\ worker = "compute" => checks'[a].compute = status /\ checks'[a].registry = checks[a].registry
    <2>1. status \in Check /\ worker \in {"registry", "compute"} /\ AppendCheck(a, worker, status)
      BY <1>1 DEF Check
    <2> QED BY <1>2, <2>1, CheckAppended
  <1>4. commands' = commands /\ pending' = pending /\ cache' = cache /\ disk' = disk
    BY DEF queueVars
  <1>5. /\ infra' \in InfraRecord /\ infra'.at \in {"idle", "announced"}
        /\ infra'.at = "announced" <=> status = "ready"
        /\ infra'.at = "announced" => infra'.agent = a /\ infra'.config = infra.config
    BY <1>1, <1>2, InfraIdle DEF InfraRecord
  <1>6. QueueTyped' /\ StoreTyped' /\ CommandsOK'
    BY <1>2, <1>3, <1>4 DEF IInv, QueueTyped, StoreTyped, CommandsOK
  <1>7. infra.at \in {"saved", "announced"} => disk[a] # NoConfig
    BY <1>1, LifecycleConstants DEF IInv, InfraOK
  <1>8. InfraOK'
    BY <1>1, <1>2, <1>4, <1>5 DEF IInv, InfraOK
  <1>9. ASSUME NEW b \in Agents
        PROVE  /\ Saved(b)' /\ Checked(b)' /\ checks'[b].compute \in {checks[b].compute, "pending"}
    <2>1. Saved(b) /\ Checked(b)
      BY DEF IInv
    <2> QED BY <1>3, <1>4, <1>7, <2>1 DEF Saved, Checked
  <1>10. ASSUME NEW b \in Agents
         PROVE  /\ Paired(b) => Paired(b)'
                /\ checks'[b].compute = "ready" /\ Withdrawn(b) => Withdrawn(b)'
    <2>1. CASE b = a
      BY <1>1, <1>3, <1>5, <2>1 DEF Paired, Withdrawn, Announced
    <2>2. CASE b # a
      <3>1. ~Announced(b) /\ ~Announced(b)'
        BY <1>1, <1>5, <2>2 DEF Announced
      <3> QED BY <1>3, <2>2, <3>1 DEF Paired, Withdrawn
    <2> QED BY <2>1, <2>2
  <1> QED BY <1>4, <1>5, <1>6, <1>8, <1>9, <1>10, InfraKeeps

LEMMA RecordingKeeps ==
    ASSUME IInv, Refuse \/ SaveFails \/ RegistryReady \/ ComputePending \/ Delete
    PROVE  IInv'
  <1>1. faults \in 0..MaxFaults
    BY TypesSplit DEF IInv
  <1>2. CASE Refuse \/ SaveFails \/ Delete
    <2>1. PICK status \in {"failed", "deleted"} : AppendCheck(infra.agent, "registry", status)
      BY <1>2 DEF Refuse, SaveFails, Delete
    <2>2. infra.at \in {"deploy", "cached", "delete"} /\ infra' = Idle
      BY <1>2 DEF Refuse, SaveFails, Delete
    <2>3. faults' \in 0..MaxFaults /\ (faults' = 0 => faults = 0)
      BY <1>1, <1>2, LifecycleConstants DEF Refuse, SaveFails, Delete
    <2>4. UNCHANGED <<queueVars, cache, disk, computeVars>>
      BY <1>2 DEF Refuse, SaveFails, Delete
    <2> QED BY <2>1, <2>2, <2>3, <2>4, RecordKeeps
  <1>3. CASE RegistryReady
    BY <1>1, <1>3, RecordKeeps DEF RegistryReady
  <1>4. CASE ComputePending
    BY <1>1, <1>4, RecordKeeps DEF ComputePending
  <1> QED BY <1>2, <1>3, <1>4

\* The agent gets into the cache, and then on disk.
LEMMA RegisterKeeps == ASSUME IInv, Register PROVE IInv'
  <1>1. PICK a, config : a = infra.agent /\ config = infra.config
    OBVIOUS
  <1>2. /\ infra.at = "deploy" /\ cache[a] \in {NoConfig, config} /\ cache' = [cache EXCEPT ![a] = config]
        /\ infra' = [infra EXCEPT !.at = "cached"]
        /\ commands' = commands /\ pending' = pending /\ disk' = disk /\ checks' = checks
        /\ faults' = faults /\ UNCHANGED computeVars
    BY <1>1 DEF Register, queueVars
  <1>3. /\ a \in Agents /\ infra \in InfraRecord /\ QueueTyped /\ StoreTyped /\ faults \in 0..MaxFaults
        /\ config \in Configs
    BY <1>1, <1>2, OfInfra DEF IInv, InfraOK
  <1>4. /\ infra' \in InfraRecord /\ infra'.at = "cached" /\ infra'.agent = a /\ infra'.config = config
    BY <1>1, <1>2, <1>3 DEF InfraRecord
  <1>5. /\ cache' \in [Agents -> MaybeConfig] /\ cache'[a] = config
        /\ \A b \in Agents \ {a} : cache'[b] = cache[b]
    BY <1>2, <1>3 DEF StoreTyped, MaybeConfig
  <1>6. QueueTyped' /\ StoreTyped' /\ CommandsOK' /\ InfraOK'
    BY <1>2, <1>3, <1>4, <1>5 DEF IInv, QueueTyped, StoreTyped, CommandsOK, InfraOK
  <1>7. \A b \in Agents : Saved(b)' /\ Checked(b)' /\ (cache[b] # NoConfig => cache'[b] = cache[b])
    BY <1>2, <1>5 DEF IInv, Saved, Checked
  <1>8. \A b \in Agents : (Paired(b) => Paired(b)') /\ (Withdrawn(b) => Withdrawn(b)')
    BY <1>2, <1>4 DEF Paired, Withdrawn, Announced
  <1> QED BY <1>2, <1>3, <1>4, <1>6, <1>7, <1>8, InfraKeeps

LEMMA SaveAgentKeeps == ASSUME IInv, SaveAgent PROVE IInv'
  <1>1. PICK a, config : a = infra.agent /\ config = infra.config
    OBVIOUS
  <1>2. /\ infra.at = "cached" /\ disk' = [disk EXCEPT ![a] = config]
        /\ infra' = [infra EXCEPT !.at = "saved"]
        /\ commands' = commands /\ pending' = pending /\ cache' = cache /\ checks' = checks
        /\ faults' = faults /\ UNCHANGED computeVars
    BY <1>1 DEF SaveAgent, queueVars
  <1>3. /\ a \in Agents /\ infra \in InfraRecord /\ QueueTyped /\ StoreTyped /\ faults \in 0..MaxFaults
        /\ config \in Configs /\ cache[a] = config
    BY <1>1, <1>2, OfInfra DEF IInv, InfraOK
  <1>4. /\ infra' \in InfraRecord /\ infra'.at = "saved" /\ infra'.agent = a /\ infra'.config = config
    BY <1>1, <1>2, <1>3 DEF InfraRecord
  <1>5. /\ disk' \in [Agents -> MaybeConfig] /\ disk'[a] = config /\ config # NoConfig
        /\ \A b \in Agents \ {a} : disk'[b] = disk[b]
    BY <1>2, <1>3, LifecycleConstants DEF StoreTyped, MaybeConfig
  <1>6. QueueTyped' /\ StoreTyped' /\ CommandsOK' /\ InfraOK'
    BY <1>2, <1>3, <1>4, <1>5 DEF IInv, QueueTyped, StoreTyped, CommandsOK, InfraOK
  <1>7. \A b \in Agents : Saved(b)' /\ Checked(b)' /\ (disk[b] # NoConfig => disk'[b] # NoConfig)
    BY <1>2, <1>3, <1>5 DEF IInv, Saved, Checked
  <1>8. \A b \in Agents : (Paired(b) => Paired(b)') /\ (Withdrawn(b) => Withdrawn(b)')
    BY <1>2, <1>4 DEF Paired, Withdrawn, Announced
  <1> QED BY <1>2, <1>3, <1>4, <1>6, <1>7, <1>8, InfraKeeps

-----------------------------------------------------------------------------
(* All steps *)

LEMMA InitHolds == Init => IInv
  <1> SUFFICES ASSUME Init PROVE IInv
    OBVIOUS
  <1>1. /\ Idle \in InfraRecord /\ Idle.at = "idle" /\ NoPod \in Pod
        /\ Resting \in TickRecord /\ Resting.at = "idle" /\ Resting.mount = 0 /\ Resting.todo = {}
    BY InfraIdle DEF Resting, TickRecord, NoPod, Pod
  <1>2. /\ \A k \in Kinds : runtime[k].at = "idle" /\ runtime[k].todo = {} /\ held[k] = {}
        /\ \A a \in Agents : /\ cache[a] = NoConfig /\ disk[a] = NoConfig /\ pods[a] = NoPod
                             /\ volumes[a] = {} /\ cloud[a] = {}
                             /\ checks[a].registry = "none" /\ checks[a].compute = "none"
        /\ infra.at = "idle" /\ commands = <<>>
    BY <1>1 DEF Init
  <1>3. TypeOK
    <2>1. QueueTyped /\ infra \in InfraRecord /\ TickTyped /\ PodmanTyped /\ HeldTyped /\ CloudTyped
      BY <1>1 DEF Init, QueueTyped, TickTyped, PodmanTyped, HeldTyped, CloudTyped, Kinds
    <2>2. StoreTyped
      BY DEF Init, StoreTyped, MaybeConfig, Checks, Check
    <2>3. faults \in 0..MaxFaults
      BY LifecycleConstants DEF Init
    <2> QED BY <2>1, <2>2, <2>3, TypesMake
  <1>4. CommandsOK /\ InfraOK /\ RuntimesOK
    BY <1>2 DEF CommandsOK, InfraOK, RuntimesOK, Kinds, PodSteps, AwsSteps
  <1>5. \A a \in Agents : Saved(a) /\ Checked(a)
    BY <1>2 DEF Saved, Checked
  <1>6. Steady
    <2>1. \A k \in Kinds : \A a \in Agents : ~Busy(k, a)
      BY <1>2 DEF Busy
    <2> QED BY <1>2, <2>1 DEF Steady, KindsOK, ChecksOK, Paired, PodOK, Bare, CloudOK, Kinds
  <1> QED BY <1>3, <1>4, <1>5, <1>6 DEF IInv

LEMMA StutterKeeps == IInv /\ UNCHANGED vars => IInv'
  <1> SUFFICES ASSUME IInv, UNCHANGED vars PROVE IInv'
    OBVIOUS
  <1>1. /\ commands' = commands /\ pending' = pending /\ cache' = cache /\ disk' = disk
        /\ checks' = checks /\ infra' = infra /\ faults' = faults /\ UNCHANGED computeVars
    BY DEF vars, computeVars, podman, aws
  <1>2. QueueTyped /\ StoreTyped /\ infra \in InfraRecord /\ faults \in 0..MaxFaults
    BY TypesSplit DEF IInv
  <1>3. QueueTyped' /\ StoreTyped' /\ CommandsOK' /\ InfraOK' /\ \A a \in Agents : Saved(a)' /\ Checked(a)'
    BY <1>1, <1>2 DEF IInv, QueueTyped, StoreTyped, CommandsOK, InfraOK, Saved, Checked
  <1>4. \A b \in Agents : (Paired(b) => Paired(b)') /\ (Withdrawn(b) => Withdrawn(b)')
    BY <1>1 DEF Paired, Withdrawn, Announced
  <1> QED BY <1>1, <1>2, <1>3, <1>4, InfraKeeps

LEMMA NextKeeps == IInv /\ [Next]_vars => IInv'
  <1> SUFFICES ASSUME IInv, [Next]_vars PROVE IInv'
    OBVIOUS
  <1>1. CASE Cli
    BY <1>1, SubmitKeeps DEF Cli
  <1>2. CASE Infra
    BY <1>2, ReceiveKeeps, RegisterKeeps, SaveAgentKeeps, RecordingKeeps DEF Infra
  <1>3. ASSUME NEW k \in Kinds, Reconcile(k) PROVE IInv'
    <2>1. CASE OnPodman
      BY <2>1, CheckPodKeeps, CreateVolumeKeeps, CreatePodKeeps, AddContainerKeeps, StartPodKeeps,
         UndoPodKeeps, StopPodKeeps, CleanUpKeeps DEF OnPodman
    <2>2. CASE OnAws
      BY <2>2, ProvisionKeeps, StopTaskKeeps, DeleteFunctionKeeps, DeleteRoleKeeps DEF OnAws
    <2> QED BY <1>3, <2>1, <2>2, TickKeeps, ReadStatusKeeps, ReportKeeps DEF Reconcile
  <1>4. CASE Faults
    BY <1>4, TickKeeps, PodDiesKeeps, RestartKeeps DEF Faults
  <1>5. CASE UNCHANGED vars
    BY <1>5, StutterKeeps
  <1> QED BY <1>1, <1>2, <1>3, <1>4, <1>5 DEF Next

LEMMA Inductive == Spec => []IInv
  BY InitHolds, NextKeeps, PTL DEF Spec

\* Queue, registry, runtimes, Podman and AWS have their types, and an invoke task belongs to a
\* function of the map, whatever commands come, in whatever order their steps interleave with
\* the ticks, and with any restarts, dead pods and failed calls.
THEOREM TypeCorrect == Spec => []TypeOK
  <1>1. IInv => TypeOK
    BY DEF IInv
  <1> QED BY <1>1, Inductive, PTL

LEMMA FollowsDisk == IInv => CacheFollowsDisk
  <1> SUFFICES ASSUME IInv, NEW a \in Agents
               PROVE  /\ disk[a] # NoConfig => cache[a] = disk[a]
                      /\ Status(a) \in {"Live", "Deploying"} => disk[a] # NoConfig
    BY DEF CacheFollowsDisk
  <1> QED BY TypesSplit, StatusSays DEF IInv, Saved

\* The cache of the registry is the disk's, and what is Live or being deployed is saved, after any
\* faults; and while there are none, a Live agent is all there, and of a Deleted one, or one that
\* could not be started, Podman has nothing left.
THEOREM StatusTellsTruth == Spec => []StatusIsTrue
  <1>1. IInv => StatusIsTrue
    <2> SUFFICES ASSUME IInv, faults = 0, NEW a \in Agents
        PROVE  /\ Status(a) = "Live" /\ ~(infra.at = "announced" /\ infra.agent = a) =>
                    IF KindOf(disk[a]) = "lambda" THEN cloud[a] = Cloud /\ a \in tasks
                    ELSE /\ pods[a] = [state |-> "running", holds |-> {"agent", "sidecar"}]
                         /\ volumes[a] = 1..MountsOf[disk[a]]
               /\ Status(a) = "Deleted" => pods[a] = NoPod /\ volumes[a] = {}
               /\ checks[a].compute = "failed" /\ At("container", "idle") =>
                      pods[a] = NoPod /\ volumes[a] = {}
      BY FollowsDisk DEF StatusIsTrue
    <2>1. /\ Steady /\ ChecksOK(a) /\ PodOK(a) /\ CloudOK(a) /\ Checked(a) /\ StoreTyped /\ HeldTyped
          /\ disk[a] # NoConfig => cache[a] = disk[a]
      BY TypesSplit DEF IInv, Steady, Saved
    <2>2. checks[a].compute \in {"none", "failed", "deleted"} => pods[a] = NoPod /\ volumes[a] = {}
      BY <2>1 DEF PodOK, Bare
    <2>3. ASSUME Status(a) = "Live", ~(infra.at = "announced" /\ infra.agent = a)
          PROVE  IF KindOf(disk[a]) = "lambda" THEN cloud[a] = Cloud /\ a \in tasks
                 ELSE /\ pods[a] = [state |-> "running", holds |-> {"agent", "sidecar"}]
                      /\ volumes[a] = 1..MountsOf[disk[a]]
      <3>1. /\ checks[a].compute = "ready" /\ checks[a].registry \in {"none", "ready"}
            /\ disk[a] # NoConfig
        BY <2>1, <2>3, StatusSays DEF ChecksOK, Paired, Announced
      <3>2. cache[a] = disk[a] /\ KindOf(cache[a]) \in Kinds
        BY <2>1, <3>1 DEF KindOf, Kinds
      <3>3. \A k \in Kinds : ~Busy(k, a)
        BY <2>1, <2>3, <3>1 DEF ChecksOK, Withdrawn, Announced
      <3>4. CASE KindOf(cache[a]) = "lambda"
        <4>1. a \in tasks
          BY <2>1, <3>1, <3>3, <3>4 DEF CloudOK, Kinds
        <4>2. a \in held["lambda"]
          BY <2>1, <4>1 DEF HeldTyped
        <4>3. cloud[a] = Cloud
          BY <2>1, <3>3, <4>2 DEF CloudOK, Kinds
        <4> QED BY <3>2, <3>4, <4>1, <4>3
      <3>5. CASE KindOf(cache[a]) = "container"
        <4>1. a \in held["container"]
          BY <2>1, <3>1, <3>3, <3>5 DEF PodOK, Kinds
        <4>2. Whole(a)
          BY <2>1, <4>1 DEF PodOK
        <4> QED BY <3>2, <3>5, <4>2 DEF Whole
      <3> QED BY <3>2, <3>4, <3>5 DEF Kinds
    <2>4. Status(a) = "Deleted" => pods[a] = NoPod /\ volumes[a] = {}
      BY <2>1, <2>2, StatusSays
    <2> QED BY <2>2, <2>3, <2>4
  <1> QED BY <1>1, Inductive, PTL
===============================================================================
