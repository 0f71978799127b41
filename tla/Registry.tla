------------------------------ MODULE Registry ------------------------------
(***************************************************************************)
(* The registry service: PersistentRegistry keeps models, agents and MCP   *)
(* servers in a cache (InMemoryRegistry) and on disk (RegistryRepository), *)
(* fleets in the cache only, and the private keys of agents in the secret  *)
(* store.                                                                  *)
(*                                                                         *)
(* The calls of the clients run concurrently.  A call takes the lock of    *)
(* the cache, or the connection of the database, once per step and not in  *)
(* between, so that any other call may come between its steps.             *)
(***************************************************************************)
EXTENDS Naturals, SequencesExt

CONSTANTS Clients,   \* CLI commands, the infra worker and the harness
          Models,    \* model names
          ModelDefs, \* bound: definitions of a model, with its engine
          Agents,    \* agent names
          Configs,   \* bound: configurations of an agent, with the models it needs
          Servers,   \* names of MCP servers
          Fleets,    \* bound: the agents of the one fleet
          Engines,   \* inference engines
          MaxCommands, \* bound: commands of all clients
          MaxFaults  \* bound: failed writes, lost answers and restarts

ASSUME RegistryConstants ==
    /\ \A d \in ModelDefs : d.engine \in Engines
    /\ \A k \in Configs : k.needs \subseteq Models
    /\ \A f \in Fleets : f \subseteq Agents /\ IsFiniteSet(f)
    /\ MaxCommands \in Nat /\ MaxFaults \in Nat

VARIABLES cache,    \* InMemoryRegistry
          disk,     \* RegistryRepository
          secrets,  \* private keys by agent
          engines,  \* the engines that the configuration names
          up,       \* the registry service runs
          todo,     \* the calls that each client's command has still to make
          calls,    \* the call of each client
          commands, \* how many commands there were
          said,     \* by entry, what the last answered call said of it
          torn,     \* entries whose calls met another one, or ended half-way
          faults

vars == <<cache, disk, secrets, engines, up, todo, calls, commands, said, torn, faults>>
store == <<cache, disk, secrets, engines, up>>
client == <<todo, calls, said, faults>>

NoKey == <<>>
Empty == <<>>
Idle == [op |-> "none", table |-> "", name |-> "", value |-> 0, at |-> "done", key |-> NoKey]
Cached == {"models", "agents", "mcp", "fleets", "jobs"}
Saved == {"models", "agents", "mcp"}

Has(table, name) == name \in DOMAIN cache[table]
HasRow(table, name) == name \in DOMAIN disk[table]
Put(f, name, value) == [n \in DOMAIN f \cup {name} |-> IF n = name THEN value ELSE f[n]]
With(tables, table, name, value) == [tables EXCEPT ![table] = Put(@, name, value)]
Without(tables, table, name) == [tables EXCEPT ![table] = Restrict(@, DOMAIN @ \ {name})]

-----------------------------------------------------------------------------
(* What goes over the wire, and into a row *)

\* An agent travels without its key (and without source and image digest); who receives one
\* puts none there.
AgentOnWire(agent) == agent.config
AgentOffWire(config) == [config |-> config, key |-> NoKey]

\* A row keeps the key of the agent that is saved.
AgentRow(agent) == [config |-> agent.config, key |-> agent.key]
AgentOfRow(row) == [config |-> row.config, key |-> row.key]

Request(op, table, name, value, at) ==
    [op |-> op, table |-> table, name |-> name, value |-> value, at |-> at, key |-> NoKey]
RegisterModelRequest(m, d) == Request("register", "models", m, d, "validate")
RegisterAgentRequest(a, k) ==
    Request("register", "agents", a, AgentOnWire([config |-> k, key |-> NoKey]), "validate")
RegisterMcpServerRequest(s) == Request("register", "mcp", s, 1, "save")
RegisterFleetRequest(f) == Request("register", "fleets", "fleet", f, "validate")
DeleteModelRequest(m) == Request("delete", "models", m, 0, "lookup")
DeleteAgentRequest(a) == Request("delete", "agents", a, 0, "lookup")
DeleteMcpServerRequest(s) == Request("delete", "mcp", s, 0, "lookup")
GetAgentRequest(a) == Request("find", "agents", a, 0, "find")
CreateJobRequest(id) == Request("register", "jobs", id, "pending", "insert")
UpdateJobRequest(id, status) == Request("update", "jobs", id, status, "update")

-----------------------------------------------------------------------------
(* Commands: what a client asks for, one call after the other *)

Active(c) == calls[c].at # "done"
Command(c, requests) ==
    /\ up /\ ~Active(c) /\ todo[c] = <<>> /\ commands < MaxCommands
    /\ todo' = [todo EXCEPT ![c] = requests]
    /\ commands' = commands + 1
    /\ UNCHANGED <<store, calls, said, torn, faults>>

\* load_and_register_model for each of the model files there are.
ModelRequests(files) ==
    LET names == SetToSeq(DOMAIN files) IN
    [i \in DOMAIN names |-> RegisterModelRequest(names[i], files[names[i]])]
Files == UNION {[ms -> ModelDefs] : ms \in {s \in SUBSET Models : IsFiniteSet(s)}}
AddModels(c) == \E files \in Files \ {Empty} : Command(c, ModelRequests(files))
RemoveModel(c) == \E m \in Models : Command(c, <<DeleteModelRequest(m)>>)

\* agent deploy registers the servers and models beside the manifest; the infra worker
\* registers the agent when the deploy message comes.
AddMcpServer(c) == \E s \in Servers : Command(c, <<RegisterMcpServerRequest(s)>>)
RemoveMcpServer(c) == \E s \in Servers : Command(c, <<DeleteMcpServerRequest(s)>>)
DeployAgent(c) == \E a \in Agents, k \in Configs : Command(c, <<RegisterAgentRequest(a, k)>>)
DeleteAgent(c) == \E a \in Agents : Command(c, <<DeleteAgentRequest(a)>>)

\* fleet deploy: the models of the fleet; each agent, which is read back; the id of each; and
\* the fleet.
AgentRequests(agents, config) ==
    [i \in 1..(2 * Len(agents)) |->
        LET a == agents[(i + 1) \div 2] IN
        IF i % 2 = 1 THEN RegisterAgentRequest(a, config[a]) ELSE GetAgentRequest(a)]
FleetFromManifest(agents) == [i \in DOMAIN agents |-> GetAgentRequest(agents[i])]
DeployFleet(c) ==
    \E files \in Files, f \in Fleets : \E config \in [f -> Configs] :
        Command(c, ModelRequests(files) \o AgentRequests(SetToSeq(f), config)
                       \o FleetFromManifest(SetToSeq(f)) \o <<RegisterFleetRequest(f)>>)

\* The harness makes a job for a run, and says when it runs and when it is completed.
RunJob(c) ==
    LET id == <<c, commands + 1>> IN
    Command(c, <<CreateJobRequest(id), UpdateJobRequest(id, "running"),
                 UpdateJobRequest(id, "completed")>>)

-----------------------------------------------------------------------------
(* Calls *)

Doing(c, op, table, at) ==
    /\ up
    /\ calls[c].op = op /\ calls[c].table = table /\ calls[c].at = at
Step(c, at) == /\ calls' = [calls EXCEPT ![c].at = at]
               /\ UNCHANGED <<todo, said, faults>>
Named(c) == calls[c].name
Value(c) == calls[c].value

\* What a call writes, and what it relies on.
Writes(call) == IF call.op \in {"none", "find"} \/ call.table \notin Saved THEN {}
                ELSE {<<call.table, call.name>>}
Reads(call) ==
    CASE call.op = "register" /\ call.table = "agents" -> {<<"models", m>> : m \in call.value.needs}
      [] call.op = "register" /\ call.table = "fleets" -> {<<"agents", a>> : a \in call.value}
      [] OTHER -> {}
Meet(c, d) == \/ Writes(c) \cap (Writes(d) \cup Reads(d)) # {}
              \/ Writes(d) \cap Reads(c) # {}
Met(new) == UNION {Writes(d) \cup Writes(new) :
                       d \in {calls[c] : c \in {e \in Clients : Active(e) /\ Meet(calls[e], new)}}}

\* The next call of the command reaches the gRPC server.
Unsaid == [is |-> "unsaid"]
Entry(call) == <<call.table, call.name>>
Send(c) ==
    /\ up /\ ~Active(c) /\ todo[c] # <<>>
    /\ calls' = [calls EXCEPT ![c] = Head(todo[c])]
    /\ todo' = [todo EXCEPT ![c] = Tail(@)]
    /\ said' = IF Head(todo[c]).op = "find" THEN said
               ELSE [said EXCEPT ![Entry(Head(todo[c]))] = Unsaid]
    /\ torn' = torn \cup Met(Head(todo[c]))
    /\ UNCHANGED <<store, commands, faults>>

Outcome(call) == CASE call.op = "find"   -> said[Entry(call)]
                   [] call.op = "delete" -> [is |-> "gone"]
                   [] OTHER -> [is |-> "there", value |-> call.value]

\* A command ends with the first call that is refused or has no answer. A job whose id did not
\* arrive is named "error" from there on, and what is said of it concerns no job; an update that
\* failed is not noticed.
GiveUp(c) == todo' = [todo EXCEPT ![c] = IF calls[c].op = "update" THEN @ ELSE <<>>]

\* The call ends, and its answer reaches the client or is lost.
End(c, success) ==
    /\ calls' = [calls EXCEPT ![c] = Idle]
    /\ \/ /\ success
          /\ said' = [said EXCEPT ![Entry(calls[c])] = Outcome(calls[c])]
          /\ UNCHANGED <<todo, faults>>
       \/ /\ ~success /\ GiveUp(c)
          /\ UNCHANGED <<said, faults>>
       \/ /\ success /\ faults < MaxFaults /\ faults' = faults + 1
          /\ GiveUp(c)
          /\ UNCHANGED said

\* A write fails: the call returns the error, and what it did stays.
Fail(c) == /\ faults < MaxFaults /\ faults' = faults + 1
           /\ torn' = torn \cup Writes(calls[c])
           /\ calls' = [calls EXCEPT ![c] = Idle]
           /\ GiveUp(c)
           /\ UNCHANGED said

-----------------------------------------------------------------------------
(* Registration *)

\* A model goes to the cache if its engine is configured, whatever was there.
RegisterModel(c) ==
    /\ Doing(c, "register", "models", "validate")
    /\ \/ /\ Value(c).engine \in engines
          /\ cache' = With(cache, "models", Named(c), Value(c)) /\ Step(c, "save")
       \/ /\ Value(c).engine \notin engines
          /\ End(c, FALSE) /\ UNCHANGED cache
    /\ UNCHANGED <<disk, secrets, engines, up, commands, torn>>

Same(c) == /\ Has("agents", Named(c))
           /\ cache.agents[Named(c)].config = Value(c)
Valid(c) == /\ ~Has("agents", Named(c))
            /\ \A m \in Value(c).needs : Has("models", m) /\ cache.models[m].engine \in engines

\* An agent with the configuration it has already is only saved again; one that is new, and
\* whose models are there, gets an identity first; any other is refused.
ValidateAgent(c) ==
    /\ Doing(c, "register", "agents", "validate")
    /\ \/ Same(c) /\ Step(c, "save")
       \/ Valid(c) /\ Step(c, "identify")
       \/ ~Same(c) /\ ~Valid(c) /\ End(c, FALSE)
    /\ UNCHANGED <<store, commands, torn>>

\* ensure_agent_identity: the key is there, or it is not.
LookUpKey(c) ==
    /\ Doing(c, "register", "agents", "identify")
    /\ calls' = [calls EXCEPT ![c].at = IF secrets[Named(c)] = NoKey THEN "generate" ELSE "insert",
                              ![c].key = secrets[Named(c)]]
    /\ UNCHANGED <<store, todo, commands, said, torn, faults>>

\* Mutant: the key is not put into the store.
GenerateUnsaved(c) ==
    /\ Doing(c, "register", "agents", "generate")
    /\ calls' = [calls EXCEPT ![c].at = "insert", ![c].key = <<c, commands>>]
    /\ UNCHANGED <<store, todo, commands, said, torn, faults>>

\* A key is generated and put into the store, over one that was put there since.
GenerateKey(c) ==
    /\ Doing(c, "register", "agents", "generate")
    /\ \/ /\ secrets' = [secrets EXCEPT ![Named(c)] = <<c, commands>>]
          /\ calls' = [calls EXCEPT ![c].at = "insert", ![c].key = <<c, commands>>]
          /\ UNCHANGED <<todo, said, torn, faults>>
       \/ Fail(c) /\ UNCHANGED secrets
    /\ UNCHANGED <<cache, disk, engines, up, commands>>

\* The agent goes to the cache without another look at what is there by now.
InsertAgent(c) ==
    /\ Doing(c, "register", "agents", "insert")
    /\ cache' = With(cache, "agents", Named(c), [config |-> Value(c), key |-> calls[c].key])
    /\ Step(c, "save")
    /\ UNCHANGED <<disk, secrets, engines, up, commands, torn>>

\* Mutant: a failed write is not reported.
SaveModelQuietly(c) ==
    /\ Doing(c, "register", "models", "save")
    /\ disk' \in {disk, With(disk, "models", Named(c), Value(c))}
    /\ End(c, TRUE)
    /\ UNCHANGED <<cache, secrets, engines, up, commands, torn>>

\* Models and agents are saved after the cache has them.
SaveModel(c) ==
    /\ Doing(c, "register", "models", "save")
    /\ \/ /\ disk' = With(disk, "models", Named(c), Value(c))
          /\ End(c, TRUE) /\ UNCHANGED torn
       \/ Fail(c) /\ UNCHANGED disk
    /\ UNCHANGED <<cache, secrets, engines, up, commands>>

\* The agent is saved as it came, without the key that the cache has.
SaveAgent(c) ==
    /\ Doing(c, "register", "agents", "save")
    /\ \/ /\ disk' = With(disk, "agents", Named(c), AgentRow(AgentOffWire(Value(c))))
          /\ End(c, TRUE) /\ UNCHANGED torn
       \/ Fail(c) /\ UNCHANGED disk
    /\ UNCHANGED <<cache, secrets, engines, up, commands>>

\* An MCP server is saved before the cache has it.
SaveMcpServer(c) ==
    /\ Doing(c, "register", "mcp", "save")
    /\ \/ /\ disk' = With(disk, "mcp", Named(c), Value(c))
          /\ Step(c, "insert") /\ UNCHANGED torn
       \/ Fail(c) /\ UNCHANGED disk
    /\ UNCHANGED <<cache, secrets, engines, up, commands>>
InsertMcpServer(c) ==
    /\ Doing(c, "register", "mcp", "insert")
    /\ cache' = With(cache, "mcp", Named(c), Value(c))
    /\ End(c, TRUE)
    /\ UNCHANGED <<disk, secrets, engines, up, commands, torn>>

\* Mutant: the agents of a fleet are not looked for.
RegisterAnyFleet(c) ==
    /\ Doing(c, "register", "fleets", "validate")
    /\ cache' = With(cache, "fleets", Named(c), Value(c))
    /\ End(c, TRUE)
    /\ UNCHANGED <<disk, secrets, engines, up, commands, torn>>

\* Mutant: a fleet is refused without an error.
RegisterFleetQuietly(c) ==
    /\ Doing(c, "register", "fleets", "validate")
    /\ cache' = IF \A a \in Value(c) : Has("agents", a)
                THEN With(cache, "fleets", Named(c), Value(c)) ELSE cache
    /\ End(c, TRUE)
    /\ UNCHANGED <<disk, secrets, engines, up, commands, torn>>

\* A fleet is registered under one lock, if its agents are there and no other has its name.
RegisterFleet(c) ==
    /\ Doing(c, "register", "fleets", "validate")
    /\ \/ /\ ~Has("fleets", Named(c))
          /\ \A a \in Value(c) : Has("agents", a)
          /\ cache' = With(cache, "fleets", Named(c), Value(c))
          /\ End(c, TRUE)
       \/ /\ Has("fleets", Named(c)) \/ \E a \in Value(c) : ~Has("agents", a)
          /\ End(c, Has("fleets", Named(c)) /\ cache.fleets[Named(c)] = Value(c))
          /\ UNCHANGED cache
    /\ UNCHANGED <<disk, secrets, engines, up, commands, torn>>

\* get_agent_by_name, agent_id
FindAgent(c) ==
    /\ Doing(c, "find", "agents", "find")
    /\ End(c, Has("agents", Named(c)))
    /\ UNCHANGED <<store, commands, torn>>

\* Jobs are in the cache only.
CreateJob(c) ==
    /\ Doing(c, "register", "jobs", "insert")
    /\ cache' = With(cache, "jobs", Named(c), Value(c))
    /\ End(c, TRUE)
    /\ UNCHANGED <<disk, secrets, engines, up, commands, torn>>
UpdateJob(c) ==
    /\ Doing(c, "update", "jobs", "update")
    /\ cache' = IF Has("jobs", Named(c)) THEN With(cache, "jobs", Named(c), Value(c)) ELSE cache
    /\ End(c, TRUE)
    /\ UNCHANGED <<disk, secrets, engines, up, commands, torn>>

-----------------------------------------------------------------------------
(* Deletion *)

\* What the cache does not have is not deleted.
LookUp(c) ==
    /\ \E table \in Saved : Doing(c, "delete", table, "lookup")
    /\ \/ ~Has(calls[c].table, Named(c)) /\ End(c, TRUE)
       \/ /\ Has(calls[c].table, Named(c))
          /\ Step(c, CASE calls[c].table = "agents" -> "id"
                       [] calls[c].table = "models" -> "dependents"
                       [] OTHER -> "erase")
    /\ UNCHANGED <<store, commands, torn>>

\* The id of an agent that was there a moment ago is expected: without it the handler panics.
ExpectId(c) ==
    /\ Doing(c, "delete", "agents", "id")
    /\ IF Has("agents", Named(c)) THEN Step(c, "dependents") ELSE End(c, FALSE)
    /\ UNCHANGED <<store, commands, torn>>

Dependents(table, name) ==
    CASE table = "models" -> {a \in DOMAIN cache.agents : name \in cache.agents[a].config.needs}
      [] table = "agents" -> {f \in DOMAIN cache.fleets : name \in cache.fleets[f]}
      [] OTHER -> {}

\* Mutant: what needs the entry is not looked for.
CheckNobody(c) ==
    /\ \E table \in {"models", "agents"} : Doing(c, "delete", table, "dependents")
    /\ Step(c, "erase")
    /\ UNCHANGED <<store, commands, torn>>

\* A model that an agent needs, or an agent of a fleet, is not deleted.
CheckDependents(c) ==
    /\ \E table \in {"models", "agents"} : Doing(c, "delete", table, "dependents")
    /\ IF Dependents(calls[c].table, Named(c)) = {} THEN Step(c, "erase") ELSE End(c, FALSE)
    /\ UNCHANGED <<store, commands, torn>>

\* The entry is deleted on disk; one that is not there stays in the cache.
Erase(c) ==
    /\ \E table \in Saved : Doing(c, "delete", table, "erase")
    /\ \/ /\ HasRow(calls[c].table, Named(c))
          /\ disk' = Without(disk, calls[c].table, Named(c))
          /\ Step(c, "evict") /\ UNCHANGED torn
       \/ /\ ~HasRow(calls[c].table, Named(c))
          /\ End(c, TRUE)
          /\ UNCHANGED <<disk, torn>>
       \/ Fail(c) /\ UNCHANGED disk
    /\ UNCHANGED <<cache, secrets, engines, up, commands>>

\* Mutant: the cache keeps the entry.
EvictNothing(c) ==
    /\ \E table \in Saved : Doing(c, "delete", table, "evict")
    /\ End(c, TRUE)
    /\ UNCHANGED <<store, commands, torn>>

\* And then in the cache; the private key of an agent stays in the store.
Evict(c) ==
    /\ \E table \in Saved : Doing(c, "delete", table, "evict")
    /\ cache' = Without(cache, calls[c].table, Named(c))
    /\ End(c, TRUE)
    /\ UNCHANGED <<disk, secrets, engines, up, commands, torn>>

-----------------------------------------------------------------------------
(* Restart *)

\* Mutant: agents are restored as their configurations.
LoadedConfigs == [models |-> disk.models, mcp |-> disk.mcp, fleets |-> Empty, jobs |-> Empty,
                  agents |-> [a \in DOMAIN disk.agents |-> disk.agents[a].config]]

\* PersistentRegistry::new: models are registered again, so their engines must be configured;
\* agents and servers are taken as they are; fleets and jobs are gone.
Loaded == [models |-> disk.models, mcp |-> disk.mcp, fleets |-> Empty, jobs |-> Empty,
           agents |-> [a \in DOMAIN disk.agents |-> AgentOfRow(disk.agents[a])]]

\* The daemon stops, which ends the commands under way, and starts with another configuration.
\* The registry does not start if that has no engine for one of the models.
Restart(e) ==
    /\ faults < MaxFaults /\ faults' = faults + 1
    /\ torn' = torn \cup UNION {Writes(calls[c]) : c \in {d \in Clients : Active(d)}}
    /\ calls' = [c \in Clients |-> Idle]
    /\ todo' = [c \in Clients |-> <<>>]
    /\ said' = [x \in DOMAIN said |-> IF x[1] \in Saved THEN said[x] ELSE Unsaid]
    /\ engines' = e
    /\ up' = (\A m \in DOMAIN disk.models : disk.models[m].engine \in e)
    /\ cache' = Loaded
    /\ UNCHANGED <<disk, secrets, commands>>

-----------------------------------------------------------------------------
Jobs == Clients \X (1..MaxCommands)
Entries == ({"models"} \X Models) \cup ({"agents"} \X Agents) \cup ({"mcp"} \X Servers)
               \cup {<<"fleets", "fleet">>} \cup ({"jobs"} \X Jobs)

Init == /\ cache = [t \in Cached |-> Empty]
        /\ disk = [t \in Saved |-> Empty]
        /\ secrets = [a \in Agents |-> NoKey]
        /\ engines = Engines /\ up = TRUE
        /\ todo = [c \in Clients |-> <<>>]
        /\ calls = [c \in Clients |-> Idle] /\ commands = 0
        /\ said = [x \in Entries |-> Unsaid]
        /\ torn = {} /\ faults = 0

Ask(c) == \/ AddModels(c) \/ RemoveModel(c) \/ AddMcpServer(c) \/ RemoveMcpServer(c)
          \/ DeployAgent(c) \/ DeleteAgent(c) \/ DeployFleet(c) \/ RunJob(c)
Registration(c) == \/ RegisterModel(c) \/ ValidateAgent(c) \/ LookUpKey(c) \/ GenerateKey(c)
                   \/ InsertAgent(c) \/ SaveModel(c) \/ SaveAgent(c) \/ SaveMcpServer(c)
                   \/ InsertMcpServer(c) \/ FindAgent(c) \/ RegisterFleet(c)
                   \/ CreateJob(c) \/ UpdateJob(c)
Deletion(c) == LookUp(c) \/ ExpectId(c) \/ CheckDependents(c) \/ Erase(c) \/ Evict(c)

Next == \/ \E c \in Clients : Ask(c) \/ Send(c) \/ Registration(c) \/ Deletion(c)
        \/ \E e \in SUBSET Engines : Restart(e)
Spec == Init /\ [][Next]_vars

-----------------------------------------------------------------------------
(* Properties *)

Keys == {NoKey} \cup Jobs
Partial(S, T) == UNION {[D -> T] : D \in SUBSET S}
Agent == [config : Configs, key : Keys]

\* The types of cache, disk, secret store and calls.
TypeOK ==
    /\ cache.models \in Partial(Models, ModelDefs) /\ cache.agents \in Partial(Agents, Agent)
    /\ cache.mcp \in Partial(Servers, {1}) /\ cache.fleets \in Partial({"fleet"}, Fleets)
    /\ DOMAIN cache.jobs \subseteq Jobs
    /\ \A id \in DOMAIN cache.jobs : cache.jobs[id] \in {"pending", "running", "completed"}
    /\ disk.models \in Partial(Models, ModelDefs)
    /\ disk.agents \in Partial(Agents, Agent) /\ disk.mcp \in Partial(Servers, {1})
    /\ secrets \in [Agents -> Keys]
    /\ engines \subseteq Engines /\ up \in BOOLEAN
    /\ \A c \in Clients : calls[c].key \in Keys /\ Len(todo[c]) \in Nat
    /\ DOMAIN said = Entries /\ torn \subseteq Entries
    /\ commands \in 0..MaxCommands /\ faults \in 0..MaxFaults

Busy(table, name) == \E c \in Clients : Active(c) /\ <<table, name>> \in Writes(calls[c])
Clean(table, name) == <<table, name>> \notin torn
Config(table, entry) == IF table = "agents" THEN AgentOnWire(entry) ELSE entry

\* The key that an agent has is the public half of the one in the secret store: it is kept when
\* the agent is deleted and registered again, and only two registrations at once generate two.
KeyOfAgent ==
    \A a \in DOMAIN cache.agents :
        Clean("agents", a) => cache.agents[a].key \in {NoKey, secrets[a]}

\* "The repository is the source of truth; in-memory is a cache": between calls an entry is in
\* both or in neither, and the same, after any calls and restarts, unless a write of it failed
\* or two calls met at it.  So has the key that an agent has.
CacheIsDisk ==
    /\ KeyOfAgent
    /\ up => \A x \in Entries : LET table == x[1] name == x[2] IN
           table \in Saved /\ Clean(table, name) /\ ~Busy(table, name) =>
               /\ Has(table, name) <=> HasRow(table, name)
               /\ Has(table, name) => Config(table, cache[table][name])
                                          = Config(table, disk[table][name])

\* What a client was told holds: an entry whose registration was answered with success is
\* there as it was asked for, and one that is said to be deleted is gone, until another call
\* writes the entry, through restarts of the daemon too (fleets and jobs until then), unless
\* two calls met at it.  A call that is answered with an error, or not, may have been done.
AnswersHold ==
    up => \A x \in Entries : LET table == x[1] name == x[2] IN
        Clean(table, name) /\ ~Busy(table, name) =>
            CASE said[x].is = "there" -> Has(table, name) /\ Config(table, cache[table][name]) = said[x].value
              [] said[x].is = "gone"  -> ~Has(table, name)
              [] OTHER -> TRUE

\* Cache and disk agree, and with what clients were told.
RegistryTrue == CacheIsDisk /\ AnswersHold

\* Every agent of the registry finds the models that it needs, these their engine, and every
\* fleet its agents, since registration and deletion look at each other's entries; a restart
\* restores agents without a look, and relies on what was checked before it.
NamesResolve ==
    up => /\ \A m \in DOMAIN cache.models : cache.models[m].engine \in engines
          /\ \A a \in DOMAIN cache.agents : \A m \in cache.agents[a].config.needs :
                 Clean("agents", a) /\ Clean("models", m) => Has("models", m)
          /\ \A f \in DOMAIN cache.fleets : \A a \in cache.fleets[f] :
                 Clean("agents", a) => Has("agents", a)
=============================================================================
