---------------------------- MODULE AgentLifecycle ----------------------------
(***************************************************************************)
(* The infra plane: from `vlinder agent deploy' and `agent delete' through *)
(* the queue, the infra worker and the registry to the two runtimes, which *)
(* reconcile Podman pods and Lambda functions with the agents' status.     *)
(*                                                                         *)
(* Nobody stores the status of an agent: it is derived, at each read, from *)
(* the latest readiness check of each worker.  The registry and the runtime*)
(* append their checks independently, and every append, cache update, row  *)
(* write and call to Podman or AWS is a step of its own here.              *)
(***************************************************************************)
EXTENDS Naturals, Sequences

CONSTANTS Agents,        \* agent names
          Configs,       \* what the manifest of an agent declares
          LambdaConfigs, \* those with runtime = "lambda"
          MountsOf,      \* function from Configs: how many S3 mounts are declared
          NoConfig,
          MaxCommands,   \* bound: deploy and delete commands published
          MaxFaults      \* bound: restarts, dead pods, failed calls

ASSUME LifecycleConstants == /\ LambdaConfigs \subseteq Configs
                             /\ MountsOf \in [Configs -> Nat]
                             /\ NoConfig \notin Configs
                             /\ MaxCommands \in Nat
                             /\ MaxFaults \in Nat

VARIABLES commands,  \* messages on vlinder.infra.v1, in publication order
          pending,   \* those the infra worker's consumers still have to deliver
          cache,     \* InMemoryRegistry.agents
          disk,      \* table agents
          checks,    \* readiness_checks: the latest status of each worker
          infra,     \* where the infra worker is in its current command
          runtime,   \* where each runtime is in its current tick
          held,      \* ContainerRuntime.pods and LambdaRuntime.functions
          pods,      \* the pod of each agent in Podman
          volumes,   \* the mount volumes of each agent in Podman, by their number
          cloud,     \* what each agent has in AWS
          tasks,     \* agents with an invoke task
          faults

vars == <<commands, pending, cache, disk, checks, infra, runtime, held, pods, volumes,
          cloud, tasks, faults>>
registryVars == <<cache, disk, checks>>
podman == <<pods, volumes>>
aws == <<cloud, tasks>>
computeVars == <<runtime, held, podman, aws>>
queueVars == <<commands, pending>>

Kinds == {"container", "lambda"}
KindOf(config) == IF config \in LambdaConfigs THEN "lambda" ELSE "container"

MaybeConfig == Configs \cup {NoConfig}
NoAgent == "none"
Command == [kind : {"deploy", "delete"}, agent : Agents, config : MaybeConfig]

\* "registry" and the runtime of the agent are the two workers of a deployment.
\* Nothing appends a check of status Deleting.
Check == {"none", "pending", "ready", "failed", "deleted"}
Checks == [registry : Check, compute : Check]

Idle == [at |-> "idle", agent |-> NoAgent, config |-> NoConfig]
Resting == [at |-> "idle", agent |-> NoAgent, mount |-> 0, todo |-> {}]

NoPod == [state |-> "none", holds |-> {}]
Pod == [state : {"none", "created", "running", "dead"}, holds : SUBSET {"agent", "sidecar"}]
Cloud == {"role", "policy", "function", "active"}

-----------------------------------------------------------------------------
(* Status *)

\* derive_status over the latest check of each worker that has one.
StatusOf(check) ==
    LET latest == {check.registry, check.compute} \ {"none"} IN
    CASE latest = {} -> "None"
      [] "failed" \in latest -> "Failed"
      [] latest = {"ready"} -> "Live"
      [] latest = {"deleted"} -> "Deleted"
      [] latest \in {{"ready", "deleted"}, {"pending", "deleted"}} -> "Deleting"
      [] OTHER -> "Deploying"

Status(a) == StatusOf(checks[a])

AppendCheck(a, worker, status) == checks' = [checks EXCEPT ![a][worker] = status]

-----------------------------------------------------------------------------
(* The CLI *)

Publish(command) == /\ Len(commands) < MaxCommands
                    /\ commands' = Append(commands, command)
                    /\ pending' = pending \cup {Len(commands) + 1}

\* A terminal publishes its command and then polls the status of the agent.  A query that
\* fails ends it as well, and others publish meanwhile, so that the polls hold nothing up.
Submit(command) == /\ Publish(command)
                   /\ UNCHANGED <<registryVars, infra, computeVars, faults>>

-----------------------------------------------------------------------------
(* The infra worker and PersistentRegistry::register_agent *)

\* Acknowledged before it is processed.  Deploys and deletes come from two
\* consumers, and a delivery that select! drops comes again later: any pending
\* command may be next.
Receive(i) ==
    /\ infra.at = "idle"
    /\ i \in pending
    /\ pending' = pending \ {i}
    /\ infra' = [at |-> commands[i].kind, agent |-> commands[i].agent,
                 config |-> commands[i].config]
    /\ UNCHANGED <<commands, registryVars, computeVars, faults>>

\* A known name is accepted with the same configuration only; a new one is
\* validated, which may refuse it.
Register ==
    LET a == infra.agent IN
    /\ infra.at = "deploy"
    /\ cache[a] \in {NoConfig, infra.config}
    /\ cache' = [cache EXCEPT ![a] = infra.config]
    /\ infra' = [infra EXCEPT !.at = "cached"]
    /\ UNCHANGED <<queueVars, disk, checks, computeVars, faults>>

Refuse ==
    LET a == infra.agent IN
    /\ infra.at = "deploy"
    /\ cache[a] # infra.config
    /\ AppendCheck(a, "registry", "failed")
    /\ infra' = Idle
    /\ UNCHANGED <<queueVars, cache, disk, computeVars, faults>>

SaveAgent ==
    /\ infra.at = "cached"
    /\ disk' = [disk EXCEPT ![infra.agent] = infra.config]
    /\ infra' = [infra EXCEPT !.at = "saved"]
    /\ UNCHANGED <<queueVars, cache, checks, computeVars, faults>>

\* The row is not written although the cache has the agent by now.
SaveFails ==
    /\ infra.at = "cached"
    /\ faults < MaxFaults
    /\ faults' = faults + 1
    /\ AppendCheck(infra.agent, "registry", "failed")
    /\ infra' = Idle
    /\ UNCHANGED <<queueVars, cache, disk, computeVars>>

RegistryReady ==
    /\ infra.at = "saved"
    /\ AppendCheck(infra.agent, "registry", "ready")
    /\ infra' = [infra EXCEPT !.at = "announced"]
    /\ UNCHANGED <<queueVars, cache, disk, computeVars, faults>>

ComputePending ==
    /\ infra.at = "announced"
    /\ AppendCheck(infra.agent, "compute", "pending")
    /\ infra' = Idle
    /\ UNCHANGED <<queueVars, cache, disk, computeVars, faults>>

\* Mutant: a delete is recorded as the status that it leads to.
DeleteMarks ==
    /\ infra.at = "delete"
    /\ AppendCheck(infra.agent, "registry", "deleting")
    /\ infra' = Idle
    /\ UNCHANGED <<queueVars, cache, disk, computeVars, faults>>

\* The agent stays in the registry.
Delete ==
    /\ infra.at = "delete"
    /\ AppendCheck(infra.agent, "registry", "deleted")
    /\ infra' = Idle
    /\ UNCHANGED <<queueVars, cache, disk, computeVars, faults>>

-----------------------------------------------------------------------------
(* The runtimes: one tick at a time *)

AgentsOf(k) == {a \in Agents : cache[a] # NoConfig /\ KindOf(cache[a]) = k}
Fault == faults < MaxFaults /\ faults' = faults + 1
MoveOn(k, step) == runtime' = [runtime EXCEPT ![k].at = step]

\* get_agents_by_runtime; held agents that are not listed are orphans, which are torn down.
BeginTick(k, listed) ==
    LET orphans == held[k] \ listed IN
    /\ runtime[k].at = "idle" /\ runtime[k].todo = {}
    /\ runtime' = [runtime EXCEPT ![k].todo = listed]
    /\ held' = [held EXCEPT ![k] = @ \ orphans]
    /\ pods' = [a \in Agents |-> IF k = "container" /\ a \in orphans THEN NoPod ELSE pods[a]]
    /\ volumes' = [a \in Agents |-> IF k = "container" /\ a \in orphans THEN {} ELSE volumes[a]]
    /\ cloud' = [a \in Agents |-> IF k = "lambda" /\ a \in orphans THEN {} ELSE cloud[a]]
    /\ tasks' = IF k = "lambda" THEN tasks \ orphans ELSE tasks
    /\ UNCHANGED <<queueVars, registryVars, infra>>

Tick(k) == BeginTick(k, AgentsOf(k)) /\ UNCHANGED faults

\* The gRPC client turns an error of the registry into an empty list.
TickWithoutRegistry(k) == BeginTick(k, {}) /\ Fault

\* Mutant: the container runtime skips what is in its map, as the Lambda runtime does.
ReadStatusSkipsHeld(k, a) ==
    /\ runtime[k].at = "idle" /\ a \in runtime[k].todo
    /\ runtime' = [runtime EXCEPT
         ![k] = [at |-> CASE Status(a) = "Deploying" /\ a \notin held[k] -> "starting"
                          [] Status(a) = "Deleting" -> "stopping"
                          [] OTHER -> "idle",
                 agent |-> a, mount |-> 0, todo |-> @.todo \ {a}]]
    /\ UNCHANGED <<queueVars, registryVars, infra, held, podman, aws, faults>>

\* Status is read once per agent and tick.  A Lambda function already in the map
\* is left as it is.
ReadStatus(k, a) ==
    /\ runtime[k].at = "idle" /\ a \in runtime[k].todo
    /\ runtime' = [runtime EXCEPT
         ![k] = [at |-> CASE Status(a) = "Deploying" /\ ~(k = "lambda" /\ a \in held[k]) -> "starting"
                          [] Status(a) = "Deleting" -> "stopping"
                          [] OTHER -> "idle",
                 agent |-> a, mount |-> 0, todo |-> @.todo \ {a}]]
    /\ UNCHANGED <<queueVars, registryVars, infra, held, podman, aws, faults>>

-----------------------------------------------------------------------------
(* ContainerRuntime.start: volumes, pod, containers.  An error of the image or of a     *)
(* start may come at any time; the engine's own errors are faults, and so are the errors *)
(* of a removal, which are ignored.                                                      *)

At(k, step) == runtime[k].at = step
OnPod == runtime["container"].agent
Unchanged == UNCHANGED <<queueVars, registryVars, infra, aws>>

\* pod_stop_and_remove, with its containers.
PodRemoved(a) == \/ pods' = [pods EXCEPT ![a] = NoPod] /\ UNCHANGED faults
                 \/ pods[a] # NoPod /\ Fault /\ UNCHANGED pods

\* A volume is removed by force, and the container that has it as well.
VolumesRemoved(a) ==
    \/ /\ volumes' = [volumes EXCEPT ![a] = {}]
       /\ pods' = IF volumes[a] = {} THEN pods ELSE [pods EXCEPT ![a].holds = @ \ {"agent"}]
       /\ UNCHANGED faults
    \/ volumes[a] # {} /\ Fault /\ UNCHANGED podman

\* A pod in the map is kept while it runs, as far as Podman answers; else it is forgotten
\* and its volumes are removed, but the pod is not.
CheckPod ==
    LET a == OnPod IN
    /\ At("container", "starting")
    /\ \/ /\ a \in held["container"] /\ pods[a].state = "running"
          /\ MoveOn("container", "up")
          /\ UNCHANGED <<held, podman, faults>>
       \/ /\ a \in held["container"] /\ pods[a].state # "running"
          /\ held' = [held EXCEPT !["container"] = @ \ {a}]
          /\ VolumesRemoved(a)
          /\ MoveOn("container", "mounting")
       \/ /\ a \notin held["container"]
          /\ MoveOn("container", "mounting")
          /\ UNCHANGED <<held, podman, faults>>
    /\ Unchanged

Mounted == runtime["container"].mount = MountsOf[cache[OnPod]]

\* What Podman does for the runtime: it makes a volume or a pod whose name is free, and it may
\* fail.  A container is refused for its image, too.
VolumeCreate(a, v) ==
    \/ /\ v \notin volumes[a]
       /\ volumes' = [volumes EXCEPT ![a] = @ \cup {v}]
       /\ runtime' = [runtime EXCEPT !["container"].mount = v]
       /\ UNCHANGED faults
    \/ /\ IF v \in volumes[a] THEN UNCHANGED faults ELSE Fault
       /\ MoveOn("container", "broken")
       /\ UNCHANGED volumes

PodCreate(a) ==
    \/ /\ pods[a] = NoPod
       /\ pods' = [pods EXCEPT ![a].state = "created"]
       /\ MoveOn("container", "filling")
       /\ UNCHANGED faults
    \/ /\ IF pods[a] # NoPod THEN UNCHANGED faults ELSE Fault
       /\ MoveOn("container", "broken")
       /\ UNCHANGED pods

ContainerInPod(a, container) ==
    \/ pods' = [pods EXCEPT ![a].holds = @ \cup {container}] /\ UNCHANGED runtime
    \/ MoveOn("container", "undoing") /\ UNCHANGED pods

\* One volume, with its credentials, for each mount.  The first that fails ends the start
\* and leaves those before it.
CreateVolume == /\ At("container", "mounting") /\ ~Mounted
                /\ VolumeCreate(OnPod, runtime["container"].mount + 1)
                /\ UNCHANGED <<held, pods>> /\ Unchanged

\* When the pod cannot be made, the volumes stay.
CreatePod == /\ At("container", "mounting") /\ Mounted
             /\ PodCreate(OnPod)
             /\ UNCHANGED <<held, volumes>> /\ Unchanged

\* start_in_pod: the agent's container with the volumes, the sidecar, and the start.
AddContainer ==
    LET next == IF pods[OnPod].holds = {} THEN "agent" ELSE "sidecar" IN
    /\ At("container", "filling") /\ next \notin pods[OnPod].holds
    /\ ContainerInPod(OnPod, next)
    /\ UNCHANGED <<held, volumes, faults>> /\ Unchanged

StartPod ==
    LET a == OnPod IN
    /\ At("container", "filling") /\ "sidecar" \in pods[a].holds
    /\ \/ /\ pods' = [pods EXCEPT ![a].state = "running"]
          /\ held' = [held EXCEPT !["container"] = @ \cup {a}]
          /\ MoveOn("container", "up")
       \/ MoveOn("container", "undoing") /\ UNCHANGED <<held, pods>>
    /\ UNCHANGED <<volumes, faults>> /\ Unchanged

\* A pod that could not be started is removed, and so are its volumes.
UndoPod == /\ At("container", "undoing")
           /\ PodRemoved(OnPod)
           /\ MoveOn("container", "cleaning")
           /\ UNCHANGED <<held, volumes>> /\ Unchanged

\* Mutant: the agent is reported deleted without a teardown.
StopNothing == /\ At("container", "stopping")
               /\ MoveOn("container", "down")
               /\ UNCHANGED <<held, podman, faults>> /\ Unchanged

\* Only what is in the map is torn down.
StopPod ==
    LET a == OnPod IN
    /\ At("container", "stopping")
    /\ held' = [held EXCEPT !["container"] = @ \ {a}]
    /\ IF a \in held["container"]
       THEN PodRemoved(a) /\ MoveOn("container", "unmounting")
       ELSE MoveOn("container", "down") /\ UNCHANGED <<pods, faults>>
    /\ UNCHANGED volumes /\ Unchanged

\* Mutant: a start that failed keeps its volumes.
CleanStopped == /\ runtime["container"].at \in {"cleaning", "unmounting"}
                /\ IF At("container", "unmounting") THEN VolumesRemoved(OnPod) ELSE UNCHANGED <<podman, faults>>
                /\ MoveOn("container", IF At("container", "cleaning") THEN "broken" ELSE "down")
                /\ UNCHANGED held /\ Unchanged

CleanUp == /\ runtime["container"].at \in {"cleaning", "unmounting"}
           /\ VolumesRemoved(OnPod)
           /\ MoveOn("container", IF At("container", "cleaning") THEN "broken" ELSE "down")
           /\ UNCHANGED held /\ Unchanged

-----------------------------------------------------------------------------
(* LambdaRuntime.deploy and undeploy.  AWS refuses for reasons of its own, at any time *)

OnFunction == runtime["lambda"].agent
UnchangedBut == UNCHANGED <<queueVars, registryVars, infra, podman>>
Adds(item, next) ==
    \/ cloud' = [cloud EXCEPT ![OnFunction] = @ \cup {item}] /\ MoveOn("lambda", next)
    \/ UNCHANGED cloud /\ MoveOn("lambda", "broken")

\* The role and the function are created or found.
CreateRole == /\ At("lambda", "starting") /\ Adds("role", "granting")
              /\ UNCHANGED <<held, tasks, faults>> /\ UnchangedBut
PutRolePolicy == /\ At("lambda", "granting") /\ Adds("policy", "creating")
                 /\ UNCHANGED <<held, tasks, faults>> /\ UnchangedBut
CreateFunction == /\ At("lambda", "creating") /\ Adds("function", "waiting")
                  /\ UNCHANGED <<held, tasks, faults>> /\ UnchangedBut

\* A function that is not Active in time is left behind, unknown to the runtime.
WaitForActive == /\ At("lambda", "waiting") /\ Adds("active", "up")
                 /\ held' = [held EXCEPT !["lambda"] =
                        IF runtime'["lambda"].at = "up" THEN @ \cup {OnFunction} ELSE @]
                 /\ UNCHANGED <<tasks, faults>> /\ UnchangedBut

\* undeploy: the invoke task ends first, then the function goes, then the role, which IAM
\* keeps while it has its policy.  An error of AWS is ignored.
StopTask == /\ At("lambda", "stopping")
            /\ tasks' = tasks \ {OnFunction}
            /\ MoveOn("lambda", IF OnFunction \in held["lambda"] THEN "deleting" ELSE "down")
            /\ UNCHANGED <<held, cloud, faults>> /\ UnchangedBut

DeleteFunction == /\ At("lambda", "deleting")
                  /\ \/ cloud' = [cloud EXCEPT ![OnFunction] = @ \ {"function", "active"}] /\ UNCHANGED faults
                     \/ Fault /\ UNCHANGED cloud
                  /\ MoveOn("lambda", "revoking")
                  /\ UNCHANGED <<held, tasks>> /\ UnchangedBut

DeleteRole == /\ At("lambda", "revoking")
              /\ \/ cloud' = [cloud EXCEPT ![OnFunction] = @ \ {"role", "policy"}] /\ UNCHANGED faults
                 \/ \E left \in {{"role"}, {"role", "policy"}} :
                       /\ cloud' = [cloud EXCEPT ![OnFunction] = (@ \ {"role", "policy"}) \cup left]
                       /\ Fault
              /\ held' = [held EXCEPT !["lambda"] = @ \ {OnFunction}]
              /\ MoveOn("lambda", "down")
              /\ UNCHANGED tasks /\ UnchangedBut

-----------------------------------------------------------------------------
\* Mutant: a provisioning that failed is reported as one that worked.
ReportReady(k) ==
    /\ runtime[k].at \in {"up", "broken", "down"}
    /\ AppendCheck(runtime[k].agent, "compute", IF At(k, "down") THEN "deleted" ELSE "ready")
    /\ tasks' = IF k = "lambda" /\ At(k, "up") THEN tasks \cup {runtime[k].agent} ELSE tasks
    /\ MoveOn(k, "idle")
    /\ UNCHANGED <<queueVars, cache, disk, infra, held, podman, cloud, faults>>

\* A Lambda agent that is up gets its invoke task.
Report(k) ==
    /\ runtime[k].at \in {"up", "broken", "down"}
    /\ AppendCheck(runtime[k].agent, "compute",
                   CASE At(k, "up") -> "ready" [] At(k, "broken") -> "failed" [] At(k, "down") -> "deleted")
    /\ tasks' = IF k = "lambda" /\ At(k, "up") THEN tasks \cup {runtime[k].agent} ELSE tasks
    /\ MoveOn(k, "idle")
    /\ UNCHANGED <<queueVars, cache, disk, infra, held, podman, cloud, faults>>

-----------------------------------------------------------------------------
(* Faults *)

\* The daemon stops, at any point of anything, and starts again.  On Ctrl-C the
\* supervisor aborts the runtimes while they remove what they hold: some of it is left.
\* After five minutes the consumers are gone, and new ones start at the beginning
\* of the stream.
Stops(replayed) ==
    /\ Fault
    /\ \E removed \in SUBSET held["container"] : \E cleaned \in SUBSET removed :
          /\ pods' = [a \in Agents |-> IF a \in removed THEN NoPod ELSE pods[a]]
          /\ volumes' = [a \in Agents |-> IF a \in cleaned THEN {} ELSE volumes[a]]
    /\ \E deleted \in SUBSET held["lambda"] : \E left \in {{}, {"role", "policy"}} :
          cloud' = [a \in Agents |-> IF a \in deleted THEN left ELSE cloud[a]]
    /\ tasks' = {}
    /\ pending' = pending \cup {i \in DOMAIN commands : commands[i].kind \in replayed}
    /\ infra' = Idle
    /\ runtime' = [k \in Kinds |-> Resting]
    /\ held' = [k \in Kinds |-> {}]
    /\ UNCHANGED <<commands, disk, checks>>

\* Mutant: the registry starts empty.
RestartEmpty(replayed) == Stops(replayed) /\ cache' = [a \in Agents |-> NoConfig]

Restart(replayed) == Stops(replayed) /\ cache' = disk

PodDies(a) ==
    /\ Fault
    /\ pods[a].state = "running"
    /\ pods' = [pods EXCEPT ![a].state = "dead"]
    /\ UNCHANGED <<queueVars, registryVars, infra, runtime, held, volumes, aws>>

-----------------------------------------------------------------------------
Init == /\ commands = <<>>
        /\ pending = {}
        /\ cache = [a \in Agents |-> NoConfig]
        /\ disk = [a \in Agents |-> NoConfig]
        /\ checks = [a \in Agents |-> [registry |-> "none", compute |-> "none"]]
        /\ infra = Idle
        /\ runtime = [k \in Kinds |-> Resting]
        /\ held = [k \in Kinds |-> {}]
        /\ pods = [a \in Agents |-> NoPod]
        /\ volumes = [a \in Agents |-> {}]
        /\ cloud = [a \in Agents |-> {}]
        /\ tasks = {}
        /\ faults = 0

Deploys == [kind : {"deploy"}, agent : Agents, config : Configs]
Deletes == [kind : {"delete"}, agent : Agents, config : {NoConfig}]

Cli == \E command \in Deploys \cup Deletes : Submit(command)

Infra == \/ \E i \in pending : Receive(i)
         \/ Register \/ Refuse \/ SaveAgent \/ SaveFails \/ RegistryReady \/ ComputePending
         \/ Delete

OnPodman == \/ CheckPod \/ CreateVolume \/ CreatePod \/ AddContainer \/ StartPod
            \/ UndoPod \/ StopPod \/ CleanUp
OnAws == \/ CreateRole \/ PutRolePolicy \/ CreateFunction \/ WaitForActive
         \/ StopTask \/ DeleteFunction \/ DeleteRole

Reconcile(k) == \/ Tick(k)
                \/ \E a \in Agents : ReadStatus(k, a)
                \/ k = "container" /\ OnPodman
                \/ k = "lambda" /\ OnAws
                \/ Report(k)

Faults == \/ \E replayed \in SUBSET {"deploy", "delete"} : Restart(replayed)
          \/ \E k \in Kinds : TickWithoutRegistry(k)
          \/ \E a \in Agents : PodDies(a)

Next == Cli \/ Infra \/ (\E k \in Kinds : Reconcile(k)) \/ Faults

Spec == Init /\ [][Next]_vars

\* The workers are loops of the daemon that keep polling.
FairSpec == Spec /\ WF_vars(Infra) /\ WF_vars(Reconcile("container"))

-----------------------------------------------------------------------------
(* Properties *)

\* Every variable has its type.
TypeOK ==
    /\ commands \in Seq(Command)
    /\ pending \subseteq DOMAIN commands
    /\ cache \in [Agents -> MaybeConfig]
    /\ disk \in [Agents -> MaybeConfig]
    /\ checks \in [Agents -> Checks]
    /\ infra \in [at : {"idle", "deploy", "delete", "cached", "saved", "announced"},
                  agent : Agents \cup {NoAgent}, config : MaybeConfig]
    /\ runtime \in [Kinds -> [at : {"idle", "starting", "mounting", "filling", "undoing",
                                    "cleaning", "granting", "creating", "waiting", "stopping",
                                    "unmounting", "deleting", "revoking", "up", "broken", "down"},
                              agent : Agents \cup {NoAgent}, mount : Nat, todo : SUBSET Agents]]
    /\ held \in [Kinds -> SUBSET Agents]
    /\ pods \in [Agents -> Pod]
    /\ volumes \in [Agents -> SUBSET (Nat \ {0})]
    /\ cloud \in [Agents -> SUBSET Cloud]
    /\ tasks \subseteq held["lambda"]
    /\ faults \in 0..MaxFaults

\* The database is the source of truth and the registry's cache follows it: a saved agent
\* is known with exactly the configuration on disk, and what is deployed or being deployed
\* is on disk, after any restart, failed write or replayed command.
CacheFollowsDisk ==
    \A a \in Agents : /\ disk[a] # NoConfig => cache[a] = disk[a]
                      /\ Status(a) \in {"Live", "Deploying"} => disk[a] # NoConfig

\* The status of an agent tells the truth.  What is Live or being deployed is saved; and while
\* nothing fails outside, however deploys and deletes of an agent overlap with the ticks, a
\* Live agent has its whole pod, with its volumes, or its active function, with its invoke task,
\* but for the moment between the two checks that register_agent appends, and of a Deleted
\* container agent, or one that could not be started, no pod and no volume is left.
StatusIsTrue ==
    /\ CacheFollowsDisk
    /\ faults = 0 =>
         \A a \in Agents :
            /\ Status(a) = "Live" /\ ~(infra.at = "announced" /\ infra.agent = a) =>
                 IF KindOf(disk[a]) = "lambda" THEN cloud[a] = Cloud /\ a \in tasks
                 ELSE /\ pods[a] = [state |-> "running", holds |-> {"agent", "sidecar"}]
                      /\ volumes[a] = 1..MountsOf[disk[a]]
            /\ Status(a) = "Deleted" => pods[a] = NoPod /\ volumes[a] = {}
            /\ checks[a].compute = "failed" /\ At("container", "idle") => pods[a] = NoPod /\ volumes[a] = {}

\* Provisioning of a container agent ends, whatever else happens to it.
DeployingEnds ==
    \A a \in Agents : Status(a) = "Deploying" /\ KindOf(disk[a]) = "container" ~> Status(a) # "Deploying"
===============================================================================
