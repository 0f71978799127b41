---------------------------- MODULE ServiceProofs ----------------------------
(* Proofs about the two services that keep the daemon's tables. Of Registry: its types,  *)
(* that cache, disk and answers agree, and that what an entry names is there. Of          *)
(* MessageStore: its types, and that it gives back what it was given, parents first.      *)
EXTENDS Registry, MessageStore, FiniteSetTheorems, SequenceTheorems, TLAPS
-----------------------------------------------------------------------------
(* Sequences *)

\* Elements of a sequence of S are in S.
LEMMA SeqElement ==
    ASSUME NEW S, NEW q \in Seq(S)
    PROVE  /\ \A i \in DOMAIN q : q[i] \in S
           /\ DOMAIN q = 1..Len(q)
           /\ Len(q) \in Nat
  BY LenProperties

-----------------------------------------------------------------------------
(* The registry: the inductive invariant *)

Names == Models \cup Agents \cup Servers \cup {"fleet", ""} \cup Jobs
Values == ModelDefs \cup Configs \cup Fleets \cup {0, 1} \cup {"pending", "running", "completed"}
CallRecord == [op : {"none", "register", "delete", "find", "update"}, table : Cached \cup {""},
               name : Names, value : Values, key : Keys,
               at : {"done", "validate", "identify", "generate", "insert", "save", "find", "update",
                     "lookup", "id", "dependents", "erase", "evict"}]
Types == /\ DOMAIN cache = Cached /\ DOMAIN disk = Saved
         /\ calls \in [Clients -> CallRecord] /\ todo \in [Clients -> Seq(CallRecord)]

\* What client c may ask for.
JobsOf(c) == {c} \X (1..MaxCommands)
Wanted(c, call) ==
    \/ call.op = "register" /\ call.table = "models" /\ call.name \in Models
           /\ call.value \in ModelDefs
    \/ call.op = "register" /\ call.table = "agents" /\ call.name \in Agents
           /\ call.value \in Configs
    \/ call.op = "register" /\ call.table = "mcp" /\ call.name \in Servers /\ call.value = 1
    \/ call.op = "register" /\ call.table = "fleets" /\ call.name = "fleet"
           /\ call.value \in Fleets
    \/ call.op = "register" /\ call.table = "jobs" /\ call.name \in JobsOf(c)
           /\ call.value = "pending"
    \/ call.op = "update" /\ call.table = "jobs" /\ call.name \in JobsOf(c)
           /\ call.value \in {"running", "completed"}
    \/ call.op = "delete" /\ call.table \in Saved /\ Entry(call) \in Entries
    \/ call.op = "find" /\ call.table = "agents" /\ call.name \in Agents

\* A request that was not sent yet.
Fresh(call) ==
    /\ call.key = NoKey
    /\ call.op = "register" /\ call.table \in {"models", "agents", "fleets"} => call.at = "validate"
    /\ call.op = "register" /\ call.table = "mcp" => call.at = "save"
    /\ call.op = "register" /\ call.table = "jobs" => call.at = "insert"
    /\ call.op = "delete" => call.at = "lookup"
    /\ call.op = "find" => call.at = "find"
    /\ call.op = "update" => call.at = "update"

\* A job is there, or made, before it is updated.
Makes(call, id) == call.op = "register" /\ call.table = "jobs" /\ call.name = id
CallOK(c) ==
    /\ IF Active(c) THEN Wanted(c, calls[c]) ELSE calls[c] = Idle
    /\ calls[c].op = "update" => calls[c].name \in DOMAIN cache.jobs
    /\ Active(c) /\ calls[c].table = "jobs" => said[Entry(calls[c])].is = "unsaid"
TodoOK(c) ==
    /\ Active(c) \/ todo[c] # <<>> => commands # 0
    /\ \A i \in DOMAIN todo[c] :
         /\ Wanted(c, todo[c][i]) /\ Fresh(todo[c][i])
         /\ todo[c][i].op = "update" =>
                \/ todo[c][i].name \in DOMAIN cache.jobs
                \/ Makes(calls[c], todo[c][i].name)
                \/ \E j \in 1..(i - 1) : Makes(todo[c][j], todo[c][i].name)

\* Calls that meet have torn what they write.
Exclusive ==
    \A c, d \in Clients : c # d /\ Active(c) /\ Active(d) /\ Meet(calls[c], calls[d]) =>
        Writes(calls[c]) \cup Writes(calls[d]) \subseteq torn

\* Cache and disk say the same of an entry, except between the two writes of a call.
Agree(t, n) == /\ Has(t, n) <=> HasRow(t, n)
               /\ Has(t, n) => Config(t, cache[t][n]) = Config(t, disk[t][n])
HalfDone(call) ==
    \/ call.op = "register" /\ call.table \in {"models", "agents"} /\ call.at = "save"
    \/ call.op = "register" /\ call.table = "mcp" /\ call.at = "insert"
    \/ call.op = "delete" /\ call.at = "evict"

\* What a call that writes entry n of table t relies on at its next step.
StepOK(c) ==
    LET call == calls[c]
        t == calls[c].table
        n == calls[c].name IN
    Active(c) /\ Writes(call) # {} /\ Clean(t, n) =>
        /\ said[<<t, n>>].is = "unsaid"
        /\ ~HalfDone(call) => Agree(t, n)
        /\ call.op = "register" /\ t \in {"models", "agents"} /\ call.at = "save" =>
               Has(t, n) /\ Config(t, cache[t][n]) = call.value
        /\ call.op = "register" /\ t = "mcp" /\ call.at = "insert" =>
               HasRow(t, n) /\ disk[t][n] = call.value
        /\ call.op = "delete" /\ call.at = "evict" => ~HasRow(t, n)
        /\ call.op = "delete" /\ call.at \in {"erase", "evict"} => Dependents(t, n) = {}
        /\ call.op = "register" /\ t = "agents" /\ call.at \in {"identify", "generate", "insert"} =>
               /\ ~Has(t, n)
               /\ \A m \in call.value.needs : Clean("models", m) => Has("models", m)
        /\ call.op = "register" /\ t = "agents" /\ call.at = "insert" => call.key = secrets[n]

\* Of every other entry, cache and disk say the same, and what clients were told is true.
Told(t, n) ==
    /\ said[<<t, n>>].is = "there" => Has(t, n) /\ Config(t, cache[t][n]) = said[<<t, n>>].value
    /\ said[<<t, n>>].is = "gone" => ~Has(t, n) /\ t \in Saved
EntryOK(t, n) == Clean(t, n) /\ ~Busy(t, n) => (t \in Saved => Agree(t, n)) /\ Told(t, n)
EntriesOK == \A t, n : <<t, n>> \in Entries => EntryOK(t, n)

Engined == up => \A m \in DOMAIN cache.models : cache.models[m].engine \in engines
Served == \A a \in DOMAIN cache.agents : \A m \in cache.agents[a].config.needs :
              Clean("agents", a) /\ Clean("models", m) => Has("models", m)
Manned == \A f \in DOMAIN cache.fleets : \A a \in cache.fleets[f] :
              Clean("agents", a) => Has("agents", a)
NoKeyOnDisk == \A a \in DOMAIN disk.agents : disk.agents[a].key = NoKey

IInv == /\ TypeOK /\ Types
        /\ \A c \in Clients : CallOK(c) /\ TodoOK(c) /\ StepOK(c)
        /\ Exclusive /\ EntriesOK /\ KeyOfAgent /\ Engined /\ Served /\ Manned /\ NoKeyOnDisk

-----------------------------------------------------------------------------
(* Partial functions and tables *)

LEMMA PartialElement ==
    ASSUME NEW S, NEW T, NEW f \in Partial(S, T)
    PROVE  DOMAIN f \subseteq S /\ \A n \in DOMAIN f : f[n] \in T
  BY DEF Partial

LEMMA PartialPut ==
    ASSUME NEW S, NEW T, NEW f \in Partial(S, T), NEW n \in S, NEW v \in T
    PROVE  Put(f, n, v) \in Partial(S, T)
  <1>1. PICK D \in SUBSET S : f \in [D -> T]
    BY DEF Partial
  <1>2. Put(f, n, v) \in [D \cup {n} -> T]
    BY <1>1 DEF Put
  <1>3. D \cup {n} \in SUBSET S
    OBVIOUS
  <1> QED BY <1>2, <1>3 DEF Partial

LEMMA PartialRestrict ==
    ASSUME NEW S, NEW T, NEW f \in Partial(S, T), NEW E, E \subseteq DOMAIN f
    PROVE  Restrict(f, E) \in Partial(S, T)
  <1>1. PICK D \in SUBSET S : f \in [D -> T]
    BY DEF Partial
  <1>2. Restrict(f, E) \in [E -> T] /\ E \in SUBSET S
    BY <1>1 DEF Restrict
  <1> QED BY <1>2 DEF Partial

LEMMA PartialEmpty == ASSUME NEW S, NEW T PROVE Empty \in Partial(S, T)
  <1>1. Empty \in [{} -> T]
    BY DEF Empty
  <1> QED BY <1>1 DEF Partial

\* A table with one more entry, or another value of one.
LEMMA WithEntry ==
    ASSUME NEW tables, NEW t \in DOMAIN tables, NEW n, NEW v, NEW new, new = With(tables, t, n, v)
    PROVE  /\ DOMAIN new = DOMAIN tables
           /\ new[t] = Put(tables[t], n, v)
           /\ \A s \in DOMAIN tables : s # t => new[s] = tables[s]
           /\ DOMAIN new[t] = DOMAIN tables[t] \cup {n}
           /\ new[t][n] = v
           /\ \A m \in DOMAIN tables[t] : m # n => new[t][m] = tables[t][m]
  <1>1. /\ DOMAIN new = DOMAIN tables
        /\ new[t] = Put(tables[t], n, v)
        /\ \A s \in DOMAIN tables : s # t => new[s] = tables[s]
    BY DEF With
  <1> QED BY <1>1 DEF Put

LEMMA WithoutEntry ==
    ASSUME NEW tables, NEW t \in DOMAIN tables, NEW n, NEW new, new = Without(tables, t, n)
    PROVE  /\ DOMAIN new = DOMAIN tables
           /\ new[t] = Restrict(tables[t], DOMAIN tables[t] \ {n})
           /\ \A s \in DOMAIN tables : s # t => new[s] = tables[s]
           /\ DOMAIN new[t] = DOMAIN tables[t] \ {n}
           /\ \A m \in DOMAIN tables[t] : m # n => new[t][m] = tables[t][m]
  <1>1. /\ DOMAIN new = DOMAIN tables
        /\ new[t] = Restrict(tables[t], DOMAIN tables[t] \ {n})
        /\ \A s \in DOMAIN tables : s # t => new[s] = tables[s]
    BY DEF Without
  <1> QED BY <1>1 DEF Restrict

-----------------------------------------------------------------------------
(* A step of a call changes one entry *)

CacheKept(t, n) == \A u \in Cached : \A m : <<u, m>> # <<t, n>> =>
    /\ m \in DOMAIN cache'[u] <=> m \in DOMAIN cache[u]
    /\ m \in DOMAIN cache[u] => cache'[u][m] = cache[u][m]
DiskKept(t, n) == \A u \in Saved : \A m : <<u, m>> # <<t, n>> =>
    /\ m \in DOMAIN disk'[u] <=> m \in DOMAIN disk[u]
    /\ m \in DOMAIN disk[u] => disk'[u][m] = disk[u][m]
SaidKept(t, n) == \A x \in Entries : x # <<t, n>> => said'[x] = said[x]
SecretsKept(t, n) == \A a \in Agents : <<"agents", a>> # <<t, n>> => secrets'[a] = secrets[a]
CallsKept(c) ==
    /\ \A d \in Clients \ {c} : calls'[d] = calls[d] /\ todo'[d] = todo[d]
    /\ todo'[c] = todo[c] \/ todo'[c] = <<>>
    /\ \/ calls'[c] = Idle
       \/ /\ calls'[c].at # "done" /\ calls'[c].op = calls[c].op /\ calls'[c].table = calls[c].table
          /\ calls'[c].name = calls[c].name /\ calls'[c].value = calls[c].value
          /\ calls[c].op \in {"register", "delete"} /\ calls[c].table \in Saved
Frame(c, t, n) ==
    /\ calls[c].table = t /\ calls[c].name = n /\ Active(c)
    /\ CacheKept(t, n) /\ DiskKept(t, n) /\ SaidKept(t, n) /\ SecretsKept(t, n) /\ CallsKept(c)
    /\ torn \subseteq torn' /\ engines' = engines /\ up' = up /\ commands' = commands
    /\ DOMAIN cache["jobs"] \subseteq DOMAIN cache'["jobs"]
    /\ calls[c].op = "find" =>
           /\ cache' = cache /\ disk' = disk /\ secrets' = secrets
           /\ \A x \in Entries : said'[x] = said[x]

\* What the step has to see to for its own entry.
Differs(t, n) == /\ n \in DOMAIN cache'[t]
                 /\ n \notin DOMAIN cache[t] \/ cache'[t][n] # cache[t][n]
Gone(t, n) == n \in DOMAIN cache[t] /\ n \notin DOMAIN cache'[t]
Owned(c, t, n) ==
    /\ StepOK(c)' /\ EntryOK(t, n)'
    /\ Makes(calls[c], n) => n \in DOMAIN cache'["jobs"]
    /\ Differs(t, n) => /\ calls[c].op # "delete" /\ Config(t, cache'[t][n]) = calls[c].value
                        /\ t = "models" => calls[c].value.engine \in engines
                        /\ t = "agents" /\ <<t, n>> \notin torn =>
                               \A m \in calls[c].value.needs :
                                   <<"models", m>> \notin torn => m \in DOMAIN cache["models"]
                        /\ t = "fleets" => \A a \in calls[c].value : a \in DOMAIN cache["agents"]
    /\ Gone(t, n) => /\ calls[c].op = "delete"
                     /\ <<t, n>> \notin torn => Dependents(t, n) = {}
    /\ t = "agents" =>
           /\ n \in DOMAIN cache'["agents"] /\ <<t, n>> \notin torn' =>
                  cache'["agents"][n].key \in {NoKey, secrets'[n]}
           /\ n \in DOMAIN disk'["agents"] => disk'["agents"][n].key = NoKey

LEMMA IdleFields ==
    ASSUME NEW call, call = Idle
    PROVE  /\ call.op = "none" /\ call.table = "" /\ call.name = "" /\ call.value = 0
           /\ call.at = "done" /\ call.key = NoKey
           /\ Writes(call) = {} /\ Reads(call) = {}
  <1>1. /\ Idle.op = "none" /\ Idle.table = "" /\ Idle.name = "" /\ Idle.value = 0
        /\ Idle.at = "done" /\ Idle.key = NoKey
    BY DEF Idle
  <1> QED BY <1>1 DEF Writes, Reads

\* What the invariant says of an active client's call.
LEMMA ActiveCall ==
    ASSUME IInv, NEW c \in Clients, Active(c)
    PROVE  /\ Wanted(c, calls[c]) /\ calls[c] \in CallRecord
           /\ calls[c].table \in Cached /\ Entry(calls[c]) \in Entries
           /\ calls[c].table \in Saved /\ calls[c].op # "find" =>
                  Writes(calls[c]) = {Entry(calls[c])}
           /\ calls[c].table \notin Saved \/ calls[c].op = "find" => Writes(calls[c]) = {}
           /\ calls[c].table \notin Saved => calls[c].name \in {"fleet"} \cup JobsOf(c)
  <1>1. Wanted(c, calls[c]) /\ calls[c] \in CallRecord
    BY DEF IInv, CallOK, Types
  <1>2. /\ calls[c].table \in Cached /\ Entry(calls[c]) \in Entries
        /\ calls[c].table \notin Saved => calls[c].name \in {"fleet"} \cup JobsOf(c)
    BY <1>1 DEF Wanted, Entry, Entries, Cached, Saved, JobsOf, Jobs
  <1>3. calls[c].op # "none"
    BY <1>1 DEF Wanted
  <1> QED BY <1>1, <1>2, <1>3 DEF Writes, Entry

\* Another call that writes the entry of a step has met it, so that the entry is torn.
LEMMA OthersElsewhere ==
    ASSUME IInv, NEW c \in Clients, NEW d \in Clients, c # d, Active(c), Active(d),
           Writes(calls[c]) \cap (Writes(calls[d]) \cup Reads(calls[d])) # {}
    PROVE  Writes(calls[c]) \cup Writes(calls[d]) \subseteq torn
  <1>1. Meet(calls[c], calls[d]) \/ Meet(calls[d], calls[c])
    BY DEF Meet
  <1> QED BY <1>1 DEF IInv, Exclusive

LEMMA OthersCalls ==
    ASSUME IInv, NEW c \in Clients, NEW t, NEW n, Frame(c, t, n), NEW d \in Clients, d # c
    PROVE  CallOK(d)' /\ TodoOK(d)'
  <1>1. calls'[d] = calls[d] /\ todo'[d] = todo[d] /\ commands' = commands
    BY DEF Frame, CallsKept
  <1>2. \A id \in DOMAIN cache.jobs : id \in DOMAIN cache'.jobs
    BY DEF Frame
  <1>3. TodoOK(d)'
    <2>1. TodoOK(d)
      BY DEF IInv
    <2> QED BY <1>1, <1>2, <2>1 DEF TodoOK, Active
  <1>4. Active(d) /\ calls[d].table = "jobs" => said'[Entry(calls[d])].is = "unsaid"
    <2> HAVE Active(d) /\ calls[d].table = "jobs"
    <2>1. Wanted(d, calls[d]) /\ said[Entry(calls[d])].is = "unsaid" /\ Entry(calls[d]) \in Entries
      BY ActiveCall DEF IInv, CallOK
    <2>2. calls[d].name \in JobsOf(d)
      BY <2>1 DEF Wanted, Saved
    <2>3. Entry(calls[d]) # <<t, n>>
      <3>1. SUFFICES ASSUME t = "jobs", n = calls[d].name PROVE FALSE
        BY DEF Entry
      <3>2. Wanted(c, calls[c]) /\ calls[c].table = t /\ calls[c].name = n
        BY ActiveCall DEF Frame
      <3>3. n \in JobsOf(c)
        BY <3>1, <3>2 DEF Wanted, Saved
      <3> QED BY <2>2, <3>1, <3>3 DEF JobsOf
    <2> QED BY <2>1, <2>3 DEF Frame, SaidKept
  <1>5. CallOK(d)'
    <2>1. CallOK(d)
      BY DEF IInv
    <2>2. Active(d)' <=> Active(d)
      BY <1>1 DEF Active
    <2>3. Wanted(d, calls[d])' <=> Wanted(d, calls[d])
      BY <1>1 DEF Wanted
    <2> QED BY <1>1, <1>2, <1>4, <2>1, <2>2, <2>3 DEF CallOK
  <1> QED BY <1>3, <1>5

\* What another call relies on is still so: a step that touches it would have met that call.
LEMMA OthersStep ==
    ASSUME IInv, NEW c \in Clients, NEW t, NEW n, Frame(c, t, n), Owned(c, t, n),
           NEW d \in Clients, d # c
    PROVE  StepOK(d)'
  <1>1. calls'[d] = calls[d] /\ Active(c) /\ torn \subseteq torn'
    BY DEF Frame, CallsKept
  <1>2. PICK call, u, m : call = calls[d] /\ u = calls[d].table /\ m = calls[d].name
    OBVIOUS
  <1>3. SUFFICES ASSUME Active(d), Writes(call) # {}, <<u, m>> \notin torn'
                 PROVE  StepOK(d)'
    BY <1>1, <1>2 DEF StepOK, Active, Clean
  <1>4. StepOK(d) /\ Clean(u, m)
    BY <1>1, <1>3 DEF IInv, Clean
  <1>5. Wanted(d, call) /\ Writes(call) = {<<u, m>>} /\ u \in Saved /\ <<u, m>> \in Entries
    BY <1>2, <1>3, ActiveCall DEF Entry
  <1>6. \/ Writes(calls[c]) = {<<t, n>>}
        \/ t \notin Saved
        \/ /\ cache' = cache /\ disk' = disk /\ secrets' = secrets
           /\ said'[<<u, m>>] = said[<<u, m>>]
    BY <1>5, ActiveCall DEF Frame, Entry
  <1>7. CASE /\ cache' = cache /\ disk' = disk /\ secrets' = secrets
             /\ said'[<<u, m>>] = said[<<u, m>>]
    <2>1. \A r : Clean("models", r)' => Clean("models", r)
      BY <1>1 DEF Clean
    <2>2. \A p, q : /\ Has(p, q)' <=> Has(p, q)
                    /\ HasRow(p, q)' <=> HasRow(p, q)
                    /\ Agree(p, q)' <=> Agree(p, q)
                    /\ Dependents(p, q)' = Dependents(p, q)
      BY <1>7 DEF Has, HasRow, Agree, Dependents
    <2> QED BY <1>1, <1>2, <1>3, <1>4, <1>7, <2>1, <2>2 DEF StepOK
  <1>8. ASSUME Writes(calls[c]) = {<<t, n>>} \/ t \notin Saved PROVE StepOK(d)'
    <2>1. <<u, m>> # <<t, n>> /\ \A r \in Reads(call) : r = <<t, n>> =>
              t \notin Saved \/ <<t, n>> \in torn
      BY <1>1, <1>2, <1>3, <1>4, <1>5, <1>8, OthersElsewhere DEF Clean
    <2>2. /\ Has(u, m)' <=> Has(u, m)
          /\ HasRow(u, m)' <=> HasRow(u, m)
          /\ Has(u, m) => cache'[u][m] = cache[u][m]
          /\ HasRow(u, m) => disk'[u][m] = disk[u][m]
          /\ said'[<<u, m>>] = said[<<u, m>>]
      BY <1>5, <2>1 DEF Frame, CacheKept, DiskKept, SaidKept, Has, HasRow, Saved, Cached
    <2>3. Agree(u, m)' <=> Agree(u, m)
      BY <2>2 DEF Agree, Config
    <2>4. u = "agents" => secrets'[m] = secrets[m]
      BY <1>5, <2>1 DEF Frame, SecretsKept, Entries
    <2>5. call.op = "register" /\ u = "agents" =>
              \A r \in call.value.needs : Clean("models", r)' /\ (Clean("models", r) => Has("models", r))
                  => Has("models", r)'
      <3> SUFFICES ASSUME call.op = "register", u = "agents", NEW r \in call.value.needs,
                          <<"models", r>> \notin torn', r \in DOMAIN cache["models"],
                          r \notin DOMAIN cache'["models"]
                   PROVE  FALSE
        BY <1>1 DEF Clean, Has
      <3>1. <<"models", r>> = <<t, n>>
        BY DEF Frame, CacheKept, Cached
      <3>2. <<"models", r>> \in Reads(call)
        BY <1>2 DEF Reads
      <3>3. <<t, n>> \in torn
        BY <2>1, <3>1, <3>2 DEF Saved
      <3> QED BY <1>1, <3>1, <3>3
    <2>6. call.op = "delete" /\ Dependents(u, m) = {} => Dependents(u, m)' = {}
      <3> SUFFICES ASSUME call.op = "delete", Dependents(u, m) = {}, NEW a \in Dependents(u, m)'
                   PROVE  FALSE
        OBVIOUS
      <3>1. \A r \in Reads(calls[c]) : r # <<u, m>>
        BY <1>1, <1>2, <1>3, <1>4, <1>5, OthersElsewhere DEF Clean
      <3>2. CASE u = "models"
        <4>1. a \in DOMAIN cache'["agents"] /\ m \in cache'["agents"][a].config.needs
          BY <3>2 DEF Dependents
        <4>2. ~(a \in DOMAIN cache["agents"] /\ m \in cache["agents"][a].config.needs)
          BY <3>2 DEF Dependents
        <4>3. t = "agents" /\ n = a /\ Differs(t, n)
          BY <4>1, <4>2 DEF Frame, CacheKept, Cached, Differs
        <4>4. calls[c].op # "delete" /\ m \in calls[c].value.needs /\ calls[c].table = "agents"
          BY <4>1, <4>3 DEF Owned, Config, AgentOnWire, Frame
        <4>5. calls[c].op = "register" \/ calls[c].op = "find"
          BY <1>1, <4>4, ActiveCall DEF Wanted
        <4>6. calls[c].op = "register"
          BY <4>3, <4>5 DEF Frame, Differs
        <4> QED BY <3>1, <3>2, <4>4, <4>6 DEF Reads
      <3>3. CASE u = "agents"
        <4>1. a \in DOMAIN cache'["fleets"] /\ m \in cache'["fleets"][a]
          BY <3>3 DEF Dependents
        <4>2. ~(a \in DOMAIN cache["fleets"] /\ m \in cache["fleets"][a])
          BY <3>3 DEF Dependents
        <4>3. t = "fleets" /\ n = a /\ Differs(t, n)
          BY <4>1, <4>2 DEF Frame, CacheKept, Cached, Differs
        <4>4. m \in calls[c].value /\ calls[c].table = "fleets"
          BY <4>1, <4>3 DEF Owned, Config, Frame
        <4>5. calls[c].op = "register"
          BY <1>1, <4>4, ActiveCall DEF Wanted, Saved
        <4> QED BY <3>1, <3>3, <4>4, <4>5 DEF Reads
      <3>4. CASE u \notin {"models", "agents"}
        BY <3>4 DEF Dependents
      <3> QED BY <3>2, <3>3, <3>4
    <2> QED
      <3>1. /\ said[<<u, m>>].is = "unsaid"
            /\ ~HalfDone(call) => Agree(u, m)
            /\ call.op = "register" /\ u \in {"models", "agents"} /\ call.at = "save" =>
                   Has(u, m) /\ Config(u, cache[u][m]) = call.value
            /\ call.op = "register" /\ u = "mcp" /\ call.at = "insert" =>
                   HasRow(u, m) /\ disk[u][m] = call.value
            /\ call.op = "delete" /\ call.at = "evict" => ~HasRow(u, m)
            /\ call.op = "delete" /\ call.at \in {"erase", "evict"} => Dependents(u, m) = {}
            /\ call.op = "register" /\ u = "agents" /\ call.at \in {"identify", "generate", "insert"}
                   => /\ ~Has(u, m)
                      /\ \A r \in call.value.needs : Clean("models", r) => Has("models", r)
            /\ call.op = "register" /\ u = "agents" /\ call.at = "insert" => call.key = secrets[m]
        BY <1>2, <1>3, <1>4 DEF StepOK
      <3>2. \A r : Clean("models", r)' => Clean("models", r)
        BY <1>1 DEF Clean
      <3>3. /\ call.op = "register" /\ u \in {"models", "agents"} /\ call.at = "save" =>
                   Has(u, m)' /\ Config(u, cache'[u][m]) = call.value
            /\ call.op = "register" /\ u = "mcp" /\ call.at = "insert" =>
                   HasRow(u, m)' /\ disk'[u][m] = call.value
        BY <2>2, <3>1
      <3>4. call.op = "register" /\ u = "agents" /\ call.at \in {"identify", "generate", "insert"}
                   => /\ ~Has(u, m)'
                      /\ \A r \in call.value.needs : Clean("models", r)' => Has("models", r)'
        BY <2>2, <2>5, <3>1, <3>2
      <3>5. call.op = "register" /\ u = "agents" /\ call.at = "insert" => call.key = secrets'[m]
        BY <2>4, <3>1
      <3> QED BY <1>1, <1>2, <2>2, <2>3, <2>6, <3>1, <3>3, <3>4, <3>5 DEF StepOK
  <1> QED BY <1>6, <1>7, <1>8

\* The other entries are as they were, and are not less busy.
LEMMA OtherEntries ==
    ASSUME IInv, NEW c \in Clients, NEW t, NEW n, Frame(c, t, n), Owned(c, t, n)
    PROVE  EntriesOK'
  <1>1. SUFFICES ASSUME NEW u, NEW m, <<u, m>> \in Entries, <<u, m>> # <<t, n>>,
                        Clean(u, m)', ~Busy(u, m)'
                 PROVE  (u \in Saved => Agree(u, m)') /\ Told(u, m)'
    BY DEF EntriesOK, Owned, EntryOK
  <1>2. Clean(u, m)
    BY <1>1 DEF Clean, Frame
  <1>3. ~Busy(u, m)
    <2> SUFFICES ASSUME NEW d \in Clients, Active(d), <<u, m>> \in Writes(calls[d]) PROVE FALSE
      BY DEF Busy
    <2>1. <<u, m>> = Entry(calls[d])
      BY ActiveCall
    <2>2. d # c
      BY <1>1, <2>1 DEF Frame, Entry
    <2>3. calls'[d] = calls[d]
      BY <2>2 DEF Frame, CallsKept
    <2> QED BY <1>1, <2>3 DEF Busy, Active
  <1>4. (u \in Saved => Agree(u, m)) /\ Told(u, m)
    BY <1>1, <1>2, <1>3 DEF IInv, EntriesOK, EntryOK
  <1>5. u \in Cached
    BY <1>1 DEF Entries, Cached
  <1>6. /\ Has(u, m)' <=> Has(u, m)
        /\ Has(u, m) => cache'[u][m] = cache[u][m]
        /\ u \in Saved => HasRow(u, m)' <=> HasRow(u, m)
        /\ u \in Saved /\ HasRow(u, m) => disk'[u][m] = disk[u][m]
        /\ said'[<<u, m>>] = said[<<u, m>>]
    BY <1>1, <1>5 DEF Frame, CacheKept, DiskKept, SaidKept, Has, HasRow
  <1> QED BY <1>4, <1>6 DEF Agree, Told, Config

LEMMA ExclusiveKept ==
    ASSUME IInv, NEW c \in Clients, NEW t, NEW n, Frame(c, t, n)
    PROVE  Exclusive'
  <1>1. SUFFICES ASSUME NEW d \in Clients, NEW e \in Clients, d # e, Active(d)', Active(e)',
                        Meet(calls[d], calls[e])'
                 PROVE  (Writes(calls[d]) \cup Writes(calls[e]))' \subseteq torn'
    BY DEF Exclusive
  <1>2. \A x \in Clients : Active(x)' =>
            Active(x) /\ Writes(calls'[x]) = Writes(calls[x]) /\ Reads(calls'[x]) = Reads(calls[x])
    <2> TAKE x \in Clients
    <2>1. CASE x # c
      BY <2>1 DEF Frame, CallsKept, Active
    <2>2. CASE x = c
      <3>1. ASSUME calls'[c] = Idle PROVE ~Active(c)'
        BY <3>1, IdleFields DEF Active
      <3> QED BY <2>2, <3>1 DEF Frame, CallsKept, Writes, Reads
    <2> QED BY <2>1, <2>2
  <1>3. Meet(calls[d], calls[e])
    BY <1>1, <1>2 DEF Meet
  <1>4. Writes(calls[d]) \cup Writes(calls[e]) \subseteq torn
    BY <1>1, <1>2, <1>3 DEF IInv, Exclusive
  <1> QED BY <1>1, <1>2, <1>4 DEF Frame

\* What the client itself goes on with.
LEMMA OwnCalls ==
    ASSUME IInv, NEW c \in Clients, NEW t, NEW n, Frame(c, t, n), Owned(c, t, n)
    PROVE  CallOK(c)' /\ TodoOK(c)'
  <1>1. CallOK(c) /\ TodoOK(c) /\ Active(c) /\ Wanted(c, calls[c])
    BY ActiveCall DEF IInv, Frame
  <1>2. CallOK(c)'
    <2>1. CASE calls'[c] = Idle
      <3>1. ~Active(c)' /\ calls'[c].op # "update"
        BY <2>1, IdleFields DEF Active
      <3> QED BY <2>1, <3>1 DEF CallOK
    <2>2. CASE calls'[c] # Idle
      <3>1. /\ calls'[c].at # "done" /\ calls'[c].op = calls[c].op
            /\ calls'[c].table = calls[c].table
            /\ calls'[c].name = calls[c].name /\ calls'[c].value = calls[c].value
            /\ calls[c].op # "update" /\ calls[c].table # "jobs"
        BY <2>2 DEF Frame, CallsKept, Saved
      <3>2. Active(c)'
        BY <3>1 DEF Active
      <3>3. Wanted(c, calls[c])'
        BY <1>1, <3>1 DEF Wanted, Entry
      <3> QED BY <3>1, <3>2, <3>3 DEF CallOK
    <2> QED BY <2>1, <2>2
  <1>3. TodoOK(c)'
    <2>1. todo'[c] = todo[c] \/ DOMAIN todo'[c] = {}
      BY DEF Frame, CallsKept
    <2>2. commands' # 0
      BY <1>1 DEF TodoOK, Frame
    <2>3. \A id : /\ id \in DOMAIN cache["jobs"] => id \in DOMAIN cache'["jobs"]
                  /\ Makes(calls[c], id) => id \in DOMAIN cache'["jobs"]
      BY DEF Frame, Owned, Makes
    <2>4. CASE todo'[c] = todo[c]
      BY <1>1, <2>2, <2>3, <2>4 DEF TodoOK
    <2>5. CASE DOMAIN todo'[c] = {}
      BY <2>2, <2>5 DEF TodoOK
    <2> QED BY <2>1, <2>4, <2>5
  <1> QED BY <1>2, <1>3

\* The names that entries of the cache use.
LEMMA NamesKept ==
    ASSUME IInv, NEW c \in Clients, NEW t, NEW n, Frame(c, t, n), Owned(c, t, n), TypeOK'
    PROVE  KeyOfAgent' /\ Engined' /\ Served' /\ Manned' /\ NoKeyOnDisk'
  <1>1. torn \subseteq torn' /\ engines' = engines /\ up' = up
    BY DEF Frame
  <1>2. KeyOfAgent'
    <2> SUFFICES ASSUME NEW a \in DOMAIN cache'["agents"], Clean("agents", a)'
                 PROVE  cache'["agents"][a].key \in {NoKey, secrets'[a]}
      BY DEF KeyOfAgent
    <2>1. a \in Agents
      BY PartialElement DEF TypeOK
    <2>2. CASE <<"agents", a>> = <<t, n>>
      BY <2>2 DEF Owned, Clean
    <2>3. CASE <<"agents", a>> # <<t, n>>
      <3>1. a \in DOMAIN cache["agents"] /\ cache'["agents"][a] = cache["agents"][a]
            /\ secrets'[a] = secrets[a]
        BY <2>1, <2>3 DEF Frame, CacheKept, SecretsKept, Cached
      <3> QED BY <1>1, <3>1 DEF IInv, KeyOfAgent, Clean
    <2> QED BY <2>2, <2>3
  <1>3. NoKeyOnDisk'
    <2> SUFFICES ASSUME NEW a \in DOMAIN disk'["agents"]
                 PROVE  disk'["agents"][a].key = NoKey
      BY DEF NoKeyOnDisk
    <2>1. CASE <<"agents", a>> = <<t, n>>
      BY <2>1 DEF Owned
    <2>2. CASE <<"agents", a>> # <<t, n>>
      <3>1. a \in DOMAIN disk["agents"] /\ disk'["agents"][a] = disk["agents"][a]
        BY <2>2 DEF Frame, DiskKept, Saved
      <3> QED BY <3>1 DEF IInv, NoKeyOnDisk
    <2> QED BY <2>1, <2>2
  <1>4. Engined'
    <2> SUFFICES ASSUME up, NEW m \in DOMAIN cache'["models"]
                 PROVE  cache'["models"][m].engine \in engines
      BY <1>1 DEF Engined
    <2>1. CASE t = "models" /\ n = m /\ Differs(t, n)
      BY <2>1 DEF Owned, Config
    <2>2. CASE ~(t = "models" /\ n = m /\ Differs(t, n))
      <3>1. m \in DOMAIN cache["models"] /\ cache'["models"][m] = cache["models"][m]
        BY <2>2 DEF Frame, CacheKept, Cached, Differs
      <3> QED BY <3>1 DEF IInv, Engined
    <2> QED BY <2>1, <2>2
  <1>5. Served'
    <2> SUFFICES ASSUME NEW a \in DOMAIN cache'["agents"],
                        NEW m \in cache'["agents"][a].config.needs,
                        Clean("agents", a)', Clean("models", m)'
                 PROVE  m \in DOMAIN cache'["models"]
      BY DEF Served, Has
    <2>1. <<"agents", a>> \notin torn /\ <<"models", m>> \notin torn
      BY <1>1 DEF Clean
    <2>2. CASE t = "agents" /\ n = a /\ Differs(t, n)
      <3>1. m \in calls[c].value.needs
        BY <2>2 DEF Owned, Config, AgentOnWire
      <3>2. m \in DOMAIN cache["models"]
        BY <2>1, <2>2, <3>1 DEF Owned
      <3> QED BY <2>2, <3>2 DEF Frame, CacheKept, Cached
    <2>3. CASE ~(t = "agents" /\ n = a /\ Differs(t, n))
      <3>1. a \in DOMAIN cache["agents"] /\ cache'["agents"][a] = cache["agents"][a]
        BY <2>3 DEF Frame, CacheKept, Cached, Differs
      <3>2. m \in DOMAIN cache["models"]
        BY <2>1, <3>1 DEF IInv, Served, Clean, Has
      <3>3. ASSUME m \notin DOMAIN cache'["models"] PROVE FALSE
        <4>1. t = "models" /\ n = m /\ Gone(t, n)
          BY <3>2, <3>3 DEF Frame, CacheKept, Cached, Gone
        <4>2. Dependents("models", m) = {}
          BY <2>1, <4>1 DEF Owned
        <4> QED BY <3>1, <4>2 DEF Dependents
      <3> QED BY <3>3
    <2> QED BY <2>2, <2>3
  <1>6. Manned'
    <2> SUFFICES ASSUME NEW f \in DOMAIN cache'["fleets"], NEW a \in cache'["fleets"][f],
                        Clean("agents", a)'
                 PROVE  a \in DOMAIN cache'["agents"]
      BY DEF Manned, Has
    <2>1. <<"agents", a>> \notin torn
      BY <1>1 DEF Clean
    <2>2. CASE t = "fleets" /\ n = f /\ Differs(t, n)
      <3>1. a \in calls[c].value
        BY <2>2 DEF Owned, Config
      <3>2. a \in DOMAIN cache["agents"]
        BY <2>2, <3>1 DEF Owned
      <3> QED BY <2>2, <3>2 DEF Frame, CacheKept, Cached
    <2>3. CASE ~(t = "fleets" /\ n = f /\ Differs(t, n))
      <3>1. f \in DOMAIN cache["fleets"] /\ cache'["fleets"][f] = cache["fleets"][f]
        BY <2>3 DEF Frame, CacheKept, Cached, Differs
      <3>2. a \in DOMAIN cache["agents"]
        BY <2>1, <3>1 DEF IInv, Manned, Clean, Has
      <3>3. ASSUME a \notin DOMAIN cache'["agents"] PROVE FALSE
        <4>1. t = "agents" /\ n = a /\ Gone(t, n)
          BY <3>2, <3>3 DEF Frame, CacheKept, Cached, Gone
        <4>2. Dependents("agents", a) = {}
          BY <2>1, <4>1 DEF Owned
        <4> QED BY <3>1, <4>2 DEF Dependents
      <3> QED BY <3>3
    <2> QED BY <2>2, <2>3
  <1> QED BY <1>2, <1>3, <1>4, <1>5, <1>6

\* Together: the step keeps the invariant.
LEMMA StepKeeps ==
    ASSUME IInv, NEW c \in Clients, NEW t, NEW n, Frame(c, t, n), Owned(c, t, n), TypeOK', Types'
    PROVE  IInv'
  <1>1. \A d \in Clients : CallOK(d)' /\ TodoOK(d)' /\ StepOK(d)'
    <2> TAKE d \in Clients
    <2>1. CASE d = c
      BY <2>1, OwnCalls DEF Owned
    <2>2. CASE d # c
      BY <2>2, OthersCalls, OthersStep
    <2> QED BY <2>1, <2>2
  <1> QED BY <1>1, OtherEntries, ExclusiveKept, NamesKept DEF IInv

-----------------------------------------------------------------------------
(* Types, and how a call goes on or ends *)

CacheTyped ==
    /\ DOMAIN cache = Cached
    /\ cache.models \in Partial(Models, ModelDefs) /\ cache.agents \in Partial(Agents, Agent)
    /\ cache.mcp \in Partial(Servers, {1}) /\ cache.fleets \in Partial({"fleet"}, Fleets)
    /\ DOMAIN cache.jobs \subseteq Jobs
    /\ \A id \in DOMAIN cache.jobs : cache.jobs[id] \in {"pending", "running", "completed"}
DiskTyped ==
    /\ DOMAIN disk = Saved
    /\ disk.models \in Partial(Models, ModelDefs)
    /\ disk.agents \in Partial(Agents, Agent) /\ disk.mcp \in Partial(Servers, {1})
CallsTyped ==
    /\ calls \in [Clients -> CallRecord] /\ todo \in [Clients -> Seq(CallRecord)]
    /\ DOMAIN said = Entries /\ faults \in 0..MaxFaults
RestTyped == /\ secrets \in [Agents -> Keys] /\ engines \subseteq Engines /\ up \in BOOLEAN
             /\ torn \subseteq Entries /\ commands \in 0..MaxCommands

LEMMA TypesSplit == TypeOK /\ Types => CacheTyped /\ DiskTyped /\ CallsTyped /\ RestTyped
  BY DEF TypeOK, Types, CacheTyped, DiskTyped, CallsTyped, RestTyped

LEMMA TypesMake == CacheTyped /\ DiskTyped /\ CallsTyped /\ RestTyped => TypeOK /\ Types
  <1> SUFFICES ASSUME CacheTyped, DiskTyped, CallsTyped, RestTyped PROVE TypeOK /\ Types
    OBVIOUS
  <1>1. Types
    BY DEF Types, CacheTyped, DiskTyped, CallsTyped
  <1>2. \A c \in Clients : calls[c].key \in Keys /\ Len(todo[c]) \in Nat
    BY LenProperties DEF CallsTyped, CallRecord
  <1>3. TypeOK
    BY <1>2 DEF TypeOK, CacheTyped, DiskTyped, CallsTyped, RestTyped
  <1> QED BY <1>1, <1>3

LEMMA IdleRecord == Idle \in CallRecord
  <1>1. "" \in Names /\ 0 \in Values /\ NoKey \in Keys
    BY DEF Names, Values, Keys
  <1> QED BY <1>1 DEF Idle, CallRecord, Cached

\* A call that ends, whatever its outcome.
Ended(c) ==
    /\ calls' = [calls EXCEPT ![c] = Idle]
    /\ todo' = todo \/ GiveUp(c)
    /\ said' = said \/ said' = [said EXCEPT ![Entry(calls[c])] = Outcome(calls[c])]
    /\ faults' = faults \/ (faults < MaxFaults /\ faults' = faults + 1)

LEMMA EndedKeeps ==
    ASSUME IInv, NEW c \in Clients, NEW t, NEW n, Active(c), calls[c].table = t, calls[c].name = n,
           Ended(c)
    PROVE  /\ CallsKept(c) /\ SaidKept(t, n) /\ CallsTyped' /\ StepOK(c)'
           /\ said'[<<t, n>>] = said[<<t, n>>] \/ said'[<<t, n>>] = Outcome(calls[c])
           /\ calls[c].op = "find" => \A y \in Entries : said'[y] = said[y]
           /\ calls'[c] = Idle
  <1>1. PICK x : x = <<t, n>>
    OBVIOUS
  <1>2. Entry(calls[c]) = x /\ x \in Entries
    BY <1>1, ActiveCall DEF Entry
  <1>3. CallsTyped
    BY TypesSplit DEF IInv
  <1>4. /\ calls'[c] = Idle
        /\ \A d \in Clients \ {c} : calls'[d] = calls[d]
        /\ calls' \in [Clients -> CallRecord]
    BY <1>3, IdleRecord DEF Ended, CallsTyped
  <1>5. /\ todo'[c] = todo[c] \/ todo'[c] = <<>>
        /\ \A d \in Clients \ {c} : todo'[d] = todo[d]
        /\ todo' \in [Clients -> Seq(CallRecord)]
    <2>1. PICK q : q = <<>> /\ q \in Seq(CallRecord)
      BY EmptySeq
    <2>2. todo \in [Clients -> Seq(CallRecord)]
      BY <1>3 DEF CallsTyped
    <2>3. todo' = todo \/ todo' = [todo EXCEPT ![c] = q]
      BY <2>1, <2>2 DEF Ended, GiveUp
    <2> QED BY <2>1, <2>2, <2>3
  <1>6. /\ SaidKept(t, n)
        /\ said'[<<t, n>>] = said[<<t, n>>] \/ said'[<<t, n>>] = Outcome(calls[c])
        /\ DOMAIN said' = Entries
    <2>1. PICK o : o = Outcome(calls[c])
      OBVIOUS
    <2>2. said' = said \/ said' = [said EXCEPT ![x] = o]
      BY <1>2, <2>1 DEF Ended
    <2>3. DOMAIN said = Entries
      BY <1>3 DEF CallsTyped
    <2>4. /\ said'[x] = said[x] \/ said'[x] = o
          /\ DOMAIN said' = Entries
          /\ \A y \in Entries : y # x => said'[y] = said[y]
      BY <1>2, <2>2, <2>3
    <2> QED BY <1>1, <2>1, <2>4 DEF SaidKept
  <1>7. calls[c].op = "find" => \A y \in Entries : said'[y] = said[y]
    <2> HAVE calls[c].op = "find"
    <2>1. Outcome(calls[c]) = said[x]
      BY <1>2 DEF Outcome
    <2> QED BY <1>1, <1>6, <2>1 DEF SaidKept
  <1>8. StepOK(c)'
    BY <1>4, IdleFields DEF StepOK, Active
  <1>9. faults' \in 0..MaxFaults
    BY <1>3, RegistryConstants DEF Ended, CallsTyped
  <1> QED BY <1>4, <1>5, <1>6, <1>7, <1>8, <1>9 DEF CallsKept, CallsTyped

\* A call that goes on.
Goes(old, new, at) ==
    /\ new \in CallRecord /\ new.at = at /\ new.op = old.op /\ new.table = old.table
    /\ new.name = old.name /\ new.value = old.value
Places == {"identify", "generate", "insert", "save", "id", "dependents", "erase", "evict"}

LEMMA SteppedKeeps ==
    ASSUME IInv, NEW c \in Clients, NEW t, NEW n, Active(c), calls[c].table = t, calls[c].name = n,
           calls[c].op \in {"register", "delete"}, t \in Saved,
           NEW at \in Places, NEW call, Goes(calls[c], call, at),
           calls'[c] = call, \A d \in Clients \ {c} : calls'[d] = calls[d],
           calls' \in [Clients -> CallRecord], todo' = todo, said' = said, faults' = faults
    PROVE  /\ CallsKept(c) /\ SaidKept(t, n) /\ CallsTyped' /\ EntryOK(t, n)'
           /\ calls'[c] = call /\ Active(c)' /\ Writes(call) = {<<t, n>>}
  <1>1. CallsTyped
    BY TypesSplit DEF IInv
  <1>3. /\ calls'[c] = call /\ \A d \in Clients \ {c} : calls'[d] = calls[d]
        /\ calls' \in [Clients -> CallRecord]
    OBVIOUS
  <1>4. CallsTyped'
    BY <1>1, <1>3 DEF CallsTyped
  <1>5. Active(c)' /\ Writes(call) = {<<t, n>>}
    BY <1>3, ActiveCall DEF Active, Writes, Goes, Places
  <1>6. EntryOK(t, n)'
    BY <1>3, <1>5 DEF EntryOK, Busy
  <1>7. CallsKept(c)
    BY <1>3 DEF CallsKept, Goes, Places
  <1> QED BY <1>3, <1>4, <1>5, <1>6, <1>7 DEF SaidKept

\* The same when only the place changes.
LEMMA SteppedAt ==
    ASSUME IInv, NEW c \in Clients, NEW t, NEW n, Active(c), calls[c].table = t, calls[c].name = n,
           calls[c].op \in {"register", "delete"}, t \in Saved,
           NEW at \in Places, Step(c, at)
    PROVE  /\ CallsKept(c) /\ SaidKept(t, n) /\ CallsTyped' /\ EntryOK(t, n)'
           /\ Goes(calls[c], calls'[c], at) /\ calls'[c].key = calls[c].key /\ Active(c)'
           /\ Writes(calls'[c]) = {<<t, n>>}
  <1>1. calls \in [Clients -> CallRecord] /\ calls[c] \in CallRecord
    BY TypesSplit DEF IInv, CallsTyped
  <1>2. PICK call : call = [calls[c] EXCEPT !.at = at]
    OBVIOUS
  <1>3. call \in CallRecord
    BY <1>1, <1>2 DEF CallRecord, Places
  <1>4. Goes(calls[c], call, at) /\ call.key = calls[c].key
    BY <1>1, <1>2, <1>3 DEF CallRecord, Goes
  <1>5. /\ calls'[c] = call /\ \A d \in Clients \ {c} : calls'[d] = calls[d]
        /\ calls' \in [Clients -> CallRecord]
        /\ todo' = todo /\ said' = said /\ faults' = faults
    BY <1>1, <1>2, <1>3 DEF Step
  <1>6. /\ CallsKept(c) /\ SaidKept(t, n) /\ CallsTyped' /\ EntryOK(t, n)'
        /\ calls'[c] = call /\ Active(c)' /\ Writes(call) = {<<t, n>>}
    BY <1>4, <1>5, SteppedKeeps
  <1> QED BY <1>4, <1>6

\* What an action starts from.
LEMMA DoingCall ==
    ASSUME IInv, NEW c \in Clients, NEW op, NEW t, NEW at, Doing(c, op, t, at), at # "done"
    PROVE  /\ Active(c) /\ calls[c].op = op /\ calls[c].table = t /\ calls[c].at = at
           /\ up /\ Wanted(c, calls[c]) /\ StepOK(c) /\ CallOK(c)
           /\ CacheTyped /\ DiskTyped /\ CallsTyped /\ RestTyped
           /\ Entry(calls[c]) = <<t, calls[c].name>> /\ <<t, calls[c].name>> \in Entries
  <1>1. Active(c) /\ calls[c].op = op /\ calls[c].table = t /\ calls[c].at = at /\ up
    BY DEF Doing, Active
  <1> QED BY <1>1, ActiveCall, TypesSplit DEF IInv, Entry

-----------------------------------------------------------------------------
(* Steps that leave the stores as they are *)

Still == /\ cache' = cache /\ disk' = disk /\ secrets' = secrets
         /\ engines' = engines /\ up' = up /\ commands' = commands

LEMMA StillKeeps ==
    ASSUME IInv, NEW c \in Clients, NEW t, NEW n, Active(c), calls[c].table = t, calls[c].name = n,
           t # "jobs", Still, torn \subseteq torn', torn' \subseteq Entries,
           CallsKept(c), SaidKept(t, n), CallsTyped', StepOK(c)', EntryOK(t, n)',
           calls[c].op = "find" => said'[<<t, n>>] = said[<<t, n>>]
    PROVE  IInv'
  <1>1. CacheTyped /\ DiskTyped /\ RestTyped
    BY TypesSplit DEF IInv
  <1>2. CacheTyped' /\ DiskTyped' /\ RestTyped'
    BY <1>1 DEF Still, CacheTyped, DiskTyped, RestTyped
  <1>3. TypeOK' /\ Types'
    BY <1>2, TypesMake, PTL
  <1>4. Frame(c, t, n)
    <2>1. calls[c].op = "find" => \A x \in Entries : said'[x] = said[x]
      BY DEF SaidKept
    <2> QED BY <2>1 DEF Frame, Still, CacheKept, DiskKept, SecretsKept
  <1>5. ~Differs(t, n) /\ ~Gone(t, n) /\ ~Makes(calls[c], n)
    BY DEF Still, Differs, Gone, Makes
  <1>6. t = "agents" =>
           /\ n \in DOMAIN cache'["agents"] /\ <<t, n>> \notin torn' =>
                  cache'["agents"][n].key \in {NoKey, secrets'[n]}
           /\ n \in DOMAIN disk'["agents"] => disk'["agents"][n].key = NoKey
    BY DEF Still, IInv, KeyOfAgent, NoKeyOnDisk, Clean
  <1>7. Owned(c, t, n)
    BY <1>5, <1>6 DEF Owned
  <1> QED BY <1>3, <1>4, <1>7, StepKeeps

\* A call that goes on.
LEMMA StillStep ==
    ASSUME IInv, NEW c \in Clients, NEW op \in {"register", "delete"}, NEW t \in Saved, NEW at,
           Doing(c, op, t, at), at # "done", NEW next \in Places, Step(c, next),
           Still, torn' = torn, StepOK(c)'
    PROVE  IInv'
  <1>1. PICK n : n = calls[c].name
    OBVIOUS
  <1>2. /\ Active(c) /\ calls[c].table = t /\ calls[c].op = op /\ RestTyped
    BY DoingCall
  <1>3. CallsKept(c) /\ SaidKept(t, n) /\ CallsTyped' /\ EntryOK(t, n)'
    BY <1>1, <1>2, SteppedAt
  <1> QED BY <1>1, <1>2, <1>3, StillKeeps DEF RestTyped, Saved

\* A call that ends: nothing was done, or what is said of it is so.
LEMMA StillEnd ==
    ASSUME IInv, NEW c \in Clients, NEW op, NEW t, NEW n, NEW at,
           Doing(c, op, t, at), at # "done", calls[c].name = n, Ended(c), Still, torn' = torn,
           t # "jobs", ~HalfDone(calls[c]),
           \/ said'[<<t, n>>] = said[<<t, n>>]
           \/ op = "find"
           \/ op = "delete" /\ (Clean(t, n) => ~Has(t, n))
           \/ op = "register" /\ Has(t, n) /\ Config(t, cache[t][n]) = calls[c].value
    PROVE  IInv'
  <1>1. /\ Active(c) /\ calls[c].table = t /\ calls[c].op = op /\ RestTyped
        /\ <<t, n>> \in Entries /\ StepOK(c) /\ Wanted(c, calls[c]) /\ Entry(calls[c]) = <<t, n>>
    BY DoingCall
  <1>2. /\ CallsKept(c) /\ SaidKept(t, n) /\ CallsTyped' /\ StepOK(c)'
        /\ said'[<<t, n>>] = said[<<t, n>>] \/ said'[<<t, n>>] = Outcome(calls[c])
        /\ calls[c].op = "find" => said'[<<t, n>>] = said[<<t, n>>]
        /\ calls'[c] = Idle
    BY <1>1, EndedKeeps
  <1>3. EntryOK(t, n)'
    <2>0. SUFFICES ASSUME Clean(t, n)', ~Busy(t, n)' PROVE (t \in Saved => Agree(t, n)') /\ Told(t, n)'
      BY DEF EntryOK
    <2>1. Clean(t, n)
      BY <2>0 DEF Clean
    <2>2. (t \in Saved => Agree(t, n)) /\ Told(t, n)
      <3>1. CASE Writes(calls[c]) # {}
        <4>1. Agree(t, n) /\ said[<<t, n>>].is = "unsaid"
          BY <1>1, <2>1, <3>1 DEF StepOK
        <4> QED BY <4>1 DEF Told
      <3>2. CASE Writes(calls[c]) = {}
        <4>1. ASSUME NEW d \in Clients, Active(d), <<t, n>> \in Writes(calls[d]) PROVE FALSE
          <5>1. d # c
            BY <3>2, <4>1
          <5>2. calls'[d] = calls[d]
            BY <1>2, <5>1 DEF CallsKept
          <5> QED BY <2>0, <4>1, <5>2 DEF Busy, Active
        <4>2. ~Busy(t, n)
          BY <4>1 DEF Busy
        <4> QED BY <1>1, <2>1, <4>2 DEF IInv, EntriesOK, EntryOK
      <3> QED BY <3>1, <3>2
    <2>3. Agree(t, n)' <=> Agree(t, n)
      BY DEF Agree, Has, HasRow, Still
    <2>4. CASE said'[<<t, n>>] = said[<<t, n>>]
      BY <2>2, <2>3, <2>4 DEF Told, Has, Still
    <2>5. CASE said'[<<t, n>>] # said[<<t, n>>]
      <3>1. said'[<<t, n>>] = Outcome(calls[c]) /\ op # "find"
        BY <1>1, <1>2, <2>5
      <3>2. CASE op = "delete" /\ ~Has(t, n)
        <4>1. said'[<<t, n>>].is = "gone" /\ t \in Saved
          BY <1>1, <3>1, <3>2 DEF Outcome, Wanted
        <4> QED BY <2>2, <2>3, <3>2, <4>1 DEF Told, Has, Still
      <3>3. CASE op = "register" /\ Has(t, n) /\ Config(t, cache[t][n]) = calls[c].value
        <4>1. said'[<<t, n>>] = [is |-> "there", value |-> calls[c].value]
          BY <1>1, <3>1, <3>3 DEF Outcome
        <4>2. said'[<<t, n>>].is = "there" /\ said'[<<t, n>>].value = calls[c].value
          BY <4>1
        <4> QED BY <2>2, <2>3, <3>3, <4>2 DEF Told, Has, Still
      <3> QED BY <2>1, <2>5, <3>1, <3>2, <3>3
    <2> QED BY <2>4, <2>5
  <1> QED BY <1>1, <1>2, <1>3, StillKeeps DEF RestTyped

\* A write that fails.
LEMMA StillFail ==
    ASSUME IInv, NEW c \in Clients, NEW op \in {"register", "delete"}, NEW t \in Saved, NEW at,
           Doing(c, op, t, at), at # "done", Fail(c), Still
    PROVE  IInv'
  <1>1. PICK n : n = calls[c].name
    OBVIOUS
  <1>2. /\ Active(c) /\ calls[c].table = t /\ calls[c].op = op /\ RestTyped
        /\ <<t, n>> \in Entries /\ Entry(calls[c]) = <<t, n>>
    BY <1>1, DoingCall
  <1>3. Ended(c)
    BY DEF Fail, Ended
  <1>4. CallsKept(c) /\ SaidKept(t, n) /\ CallsTyped' /\ StepOK(c)'
    BY <1>1, <1>2, <1>3, EndedKeeps
  <1>5. torn' = torn \cup {<<t, n>>}
    BY <1>2, ActiveCall DEF Fail
  <1>6. EntryOK(t, n)'
    BY <1>5 DEF EntryOK, Clean
  <1> QED BY <1>1, <1>2, <1>4, <1>5, <1>6, StillKeeps DEF RestTyped, Saved

LEMMA UnchangedStore == ASSUME UNCHANGED <<store, commands>> PROVE Still
  BY DEF store, Still

LEMMA ValidateAgentKeeps ==
    ASSUME IInv, NEW c \in Clients, ValidateAgent(c)
    PROVE  IInv'
  <1>1. PICK n : n = calls[c].name
    OBVIOUS
  <1>2. Doing(c, "register", "agents", "validate") /\ Still /\ torn' = torn
    BY UnchangedStore DEF ValidateAgent
  <1>3. /\ Active(c) /\ calls[c].op = "register" /\ calls[c].table = "agents" /\ StepOK(c)
        /\ calls[c].at = "validate" /\ Wanted(c, calls[c]) /\ Writes(calls[c]) = {<<"agents", n>>}
    BY <1>1, <1>2, DoingCall, ActiveCall DEF Saved
  <1>4. ~HalfDone(calls[c])
    BY <1>3 DEF HalfDone
  <1>5. Clean("agents", n) => Agree("agents", n) /\ said[<<"agents", n>>].is = "unsaid"
    BY <1>1, <1>3, <1>4 DEF StepOK
  <1>6. CASE Same(c) /\ Step(c, "save")
    <2>1. Goes(calls[c], calls'[c], "save") /\ said' = said
      BY <1>3, <1>6, SteppedAt DEF Saved, Places, Step
    <2>2. Has("agents", n)' /\ Config("agents", cache'["agents"][n]) = calls[c].value
      BY <1>1, <1>2, <1>6 DEF Same, Has, Config, AgentOnWire, Still, Named, Value
    <2>3. HalfDone(calls[c])'
      BY <1>3, <2>1 DEF HalfDone, Goes
    <2>4. StepOK(c)'
      BY <1>1, <1>2, <1>3, <1>5, <2>1, <2>2, <2>3 DEF StepOK, Goes, Clean
    <2> QED BY <1>2, <1>6, <2>4, StillStep DEF Saved, Places
  <1>7. CASE Valid(c) /\ Step(c, "identify")
    <2>1. Goes(calls[c], calls'[c], "identify") /\ said' = said
      BY <1>3, <1>7, SteppedAt DEF Saved, Places, Step
    <2>2. ~Has("agents", n)' /\ \A m \in calls[c].value.needs : Has("models", m)'
      BY <1>1, <1>2, <1>7 DEF Valid, Has, Still, Named, Value
    <2>3. Agree("agents", n)' <=> Agree("agents", n)
      BY <1>2 DEF Still, Agree, Has, HasRow
    <2>4. StepOK(c)'
      BY <1>1, <1>2, <1>3, <1>5, <2>1, <2>2, <2>3 DEF StepOK, Goes, Clean
    <2> QED BY <1>2, <1>7, <2>4, StillStep DEF Saved, Places
  <1>8. CASE End(c, FALSE)
    <2>1. Ended(c) /\ said' = said
      BY <1>8 DEF End, Ended
    <2> QED BY <1>1, <1>2, <1>4, <2>1, StillEnd
  <1> QED BY <1>6, <1>7, <1>8 DEF ValidateAgent

LEMMA LookUpKeyKeeps ==
    ASSUME IInv, NEW c \in Clients, LookUpKey(c)
    PROVE  IInv'
  <1>1. PICK n, at, key : /\ n = calls[c].name /\ key = secrets[n]
                          /\ at = IF key = NoKey THEN "generate" ELSE "insert"
    OBVIOUS
  <1>2. Doing(c, "register", "agents", "identify") /\ Still /\ torn' = torn
    BY UnchangedStore DEF LookUpKey
  <1>3. /\ Active(c) /\ calls[c].op = "register" /\ calls[c].table = "agents" /\ StepOK(c)
        /\ calls[c].at = "identify" /\ Writes(calls[c]) = {<<"agents", n>>}
        /\ n \in Agents /\ CallsTyped /\ RestTyped
    <2>1. /\ Active(c) /\ calls[c].op = "register" /\ calls[c].table = "agents" /\ StepOK(c)
          /\ calls[c].at = "identify" /\ Wanted(c, calls[c]) /\ CallsTyped /\ RestTyped
      BY <1>2, DoingCall
    <2>2. Writes(calls[c]) = {<<"agents", n>>}
      BY <1>1, <2>1, ActiveCall DEF Saved, Entry
    <2> QED BY <1>1, <2>1, <2>2 DEF Wanted
  <1>4. /\ key \in Keys /\ at \in Places /\ calls[c] \in CallRecord
        /\ calls \in [Clients -> CallRecord]
    <2>1. at \in {"generate", "insert"}
      BY <1>1
    <2>2. secrets \in [Agents -> Keys] /\ calls \in [Clients -> CallRecord]
      BY <1>3 DEF RestTyped, CallsTyped
    <2>3. key \in Keys /\ calls[c] \in CallRecord
      BY <1>1, <1>3, <2>2
    <2> QED BY <2>1, <2>2, <2>3 DEF Places
  <1>5. PICK call : call = [calls[c] EXCEPT !.at = at, !.key = key]
    OBVIOUS
  <1>6. call \in CallRecord
    BY <1>4, <1>5 DEF CallRecord, Places
  <1>7. Goes(calls[c], call, at) /\ call.key = key
    <2>1. call.at = at /\ call.key = key
      BY <1>4, <1>5 DEF CallRecord
    <2>2. /\ call.op = calls[c].op /\ call.table = calls[c].table
          /\ call.name = calls[c].name /\ call.value = calls[c].value
      BY <1>4, <1>5 DEF CallRecord
    <2> QED BY <1>6, <2>1, <2>2 DEF Goes
  <1>8. /\ calls'[c] = call /\ \A d \in Clients \ {c} : calls'[d] = calls[d]
        /\ calls' \in [Clients -> CallRecord]
        /\ todo' = todo /\ said' = said /\ faults' = faults
    BY <1>1, <1>4, <1>5, <1>6 DEF LookUpKey, Named
  <1>9. /\ CallsKept(c) /\ SaidKept("agents", n) /\ CallsTyped' /\ EntryOK("agents", n)'
    BY <1>1, <1>3, <1>4, <1>7, <1>8, SteppedKeeps DEF Saved
  <1>10. StepOK(c)'
    <2>1. /\ calls'[c].op = "register" /\ calls'[c].table = "agents" /\ calls'[c].name = n
          /\ calls'[c].at \in {"generate", "insert"} /\ calls'[c].value = calls[c].value
          /\ calls'[c].key = secrets[n]
      BY <1>1, <1>3, <1>7, <1>8 DEF Goes
    <2>2. Clean("agents", n) =>
            /\ said[<<"agents", n>>].is = "unsaid" /\ Agree("agents", n) /\ ~Has("agents", n)
            /\ \A m \in calls[c].value.needs : Clean("models", m) => Has("models", m)
      BY <1>1, <1>3 DEF StepOK, HalfDone
    <2>3. /\ Agree("agents", n)' <=> Agree("agents", n)
          /\ \A t, m : (Has(t, m)' <=> Has(t, m)) /\ (Clean(t, m)' <=> Clean(t, m))
      BY <1>2 DEF Still, Agree, Has, HasRow, Clean
    <2> QED BY <1>2, <1>8, <2>1, <2>2, <2>3 DEF StepOK, Still
  <1> QED BY <1>1, <1>2, <1>3, <1>9, <1>10, StillKeeps DEF RestTyped

LEMMA FindAgentKeeps ==
    ASSUME IInv, NEW c \in Clients, FindAgent(c)
    PROVE  IInv'
  <1>1. PICK n : n = calls[c].name
    OBVIOUS
  <1>2. Doing(c, "find", "agents", "find") /\ Still /\ torn' = torn
    BY UnchangedStore DEF FindAgent
  <1>3. Ended(c)
    BY DEF FindAgent, End, Ended
  <1>4. ~HalfDone(calls[c])
    BY <1>2 DEF HalfDone, Doing
  <1>5. PICK op, t, at : op = "find" /\ t = "agents" /\ at = "find"
    OBVIOUS
  <1>6. Doing(c, op, t, at) /\ t # "jobs" /\ at # "done"
    BY <1>2, <1>5
  <1> QED BY <1>1, <1>2, <1>3, <1>4, <1>5, <1>6, StillEnd

LEMMA LookUpKeeps ==
    ASSUME IInv, NEW c \in Clients, LookUp(c)
    PROVE  IInv'
  <1>1. PICK t, n : t = calls[c].table /\ n = calls[c].name
    OBVIOUS
  <1>2. Doing(c, "delete", t, "lookup") /\ t \in Saved /\ Still /\ torn' = torn
    BY <1>1, UnchangedStore DEF LookUp, Doing
  <1>3. /\ Active(c) /\ calls[c].op = "delete" /\ StepOK(c) /\ calls[c].at = "lookup"
        /\ Writes(calls[c]) = {<<t, n>>}
    BY <1>1, <1>2, DoingCall, ActiveCall DEF Saved
  <1>4. ~HalfDone(calls[c])
    BY <1>3 DEF HalfDone
  <1>5. Clean(t, n) => Agree(t, n) /\ said[<<t, n>>].is = "unsaid"
    BY <1>1, <1>3, <1>4 DEF StepOK
  <1>6. CASE ~Has(t, n) /\ End(c, TRUE)
    <2>1. Ended(c)
      BY <1>6 DEF End, Ended
    <2>2. t # "jobs" /\ "lookup" # "done"
      BY <1>2 DEF Saved
    <2> QED BY <1>1, <1>2, <1>4, <1>6, <2>1, <2>2, StillEnd
  <1>7. ASSUME NEW next \in {"id", "dependents", "erase"}, Step(c, next),
               next = "erase" => t = "mcp"
        PROVE  IInv'
    <2>1. Goes(calls[c], calls'[c], next) /\ said' = said
      BY <1>1, <1>2, <1>3, <1>7, SteppedAt DEF Places, Step
    <2>2. Agree(t, n)' <=> Agree(t, n)
      BY <1>2 DEF Still, Agree, Has, HasRow
    <2>3. t = "mcp" => Dependents(t, n)' = {}
      BY DEF Dependents
    <2>4. StepOK(c)'
      BY <1>1, <1>2, <1>3, <1>5, <1>7, <2>1, <2>2, <2>3 DEF StepOK, Goes, Clean
    <2> QED BY <1>2, <1>7, <2>4, StillStep DEF Places
  <1> QED
    <2>1. CASE ~Has(t, n)
      BY <1>1, <1>6, <2>1 DEF LookUp, Named
    <2>2. CASE Has(t, n)
      <3>1. Step(c, CASE calls[c].table = "agents" -> "id"
                       [] calls[c].table = "models" -> "dependents"
                       [] OTHER -> "erase")
        BY <1>1, <2>2 DEF LookUp, Named
      <3>2. PICK next : next = CASE t = "agents" -> "id" [] t = "models" -> "dependents"
                                 [] OTHER -> "erase"
        OBVIOUS
      <3>3. next \in {"id", "dependents", "erase"} /\ (next = "erase" => t = "mcp")
        BY <1>2, <3>2 DEF Saved
      <3>4. Step(c, next)
        BY <1>1, <3>1, <3>2
      <3> QED BY <1>7, <3>3, <3>4
    <2> QED BY <2>1, <2>2

LEMMA ExpectIdKeeps ==
    ASSUME IInv, NEW c \in Clients, ExpectId(c)
    PROVE  IInv'
  <1>1. PICK t, n : t = "agents" /\ n = calls[c].name
    OBVIOUS
  <1>2. Doing(c, "delete", t, "id") /\ t \in Saved /\ Still /\ torn' = torn
    BY <1>1, UnchangedStore DEF ExpectId, Saved
  <1>3. /\ Active(c) /\ calls[c].op = "delete" /\ calls[c].table = t /\ StepOK(c)
        /\ calls[c].at = "id" /\ Writes(calls[c]) = {<<t, n>>}
    <2>1. /\ Active(c) /\ calls[c].op = "delete" /\ calls[c].table = t /\ StepOK(c)
          /\ calls[c].at = "id"
      BY <1>2, DoingCall
    <2> QED BY <1>1, <1>2, <2>1, ActiveCall DEF Entry
  <1>4. ~HalfDone(calls[c])
    BY <1>3 DEF HalfDone
  <1>5. Clean(t, n) => Agree(t, n) /\ said[<<t, n>>].is = "unsaid"
    BY <1>1, <1>3, <1>4 DEF StepOK
  <1>6. CASE End(c, FALSE)
    <2>1. Ended(c) /\ said' = said
      BY <1>6 DEF End, Ended
    <2>2. t # "jobs" /\ "id" # "done"
      BY <1>2 DEF Saved
    <2> QED BY <1>1, <1>2, <1>4, <2>1, <2>2, StillEnd
  <1>7. CASE Step(c, "dependents")
    <2>1. Goes(calls[c], calls'[c], "dependents") /\ said' = said
      BY <1>1, <1>2, <1>3, <1>7, SteppedAt DEF Places, Step
    <2>2. Agree(t, n)' <=> Agree(t, n)
      BY <1>2 DEF Still, Agree, Has, HasRow
    <2>3. StepOK(c)'
      BY <1>1, <1>2, <1>3, <1>5, <2>1, <2>2 DEF StepOK, Goes, Clean
    <2> QED BY <1>2, <1>7, <2>3, StillStep DEF Places
  <1> QED BY <1>6, <1>7 DEF ExpectId

LEMMA CheckDependentsKeeps ==
    ASSUME IInv, NEW c \in Clients, CheckDependents(c)
    PROVE  IInv'
  <1>1. PICK t, n : t = calls[c].table /\ n = calls[c].name
    OBVIOUS
  <1>2. Doing(c, "delete", t, "dependents") /\ t \in Saved /\ Still /\ torn' = torn
    BY <1>1, UnchangedStore DEF CheckDependents, Doing, Saved
  <1>3. /\ Active(c) /\ calls[c].op = "delete" /\ StepOK(c) /\ calls[c].at = "dependents"
        /\ Writes(calls[c]) = {<<t, n>>}
    BY <1>1, <1>2, DoingCall, ActiveCall DEF Saved
  <1>4. ~HalfDone(calls[c])
    BY <1>3 DEF HalfDone
  <1>5. Clean(t, n) => Agree(t, n) /\ said[<<t, n>>].is = "unsaid"
    BY <1>1, <1>3, <1>4 DEF StepOK
  <1>6. CASE Dependents(t, n) # {}
    <2>1. Ended(c) /\ said' = said
      BY <1>1, <1>6 DEF CheckDependents, Named, End, Ended
    <2>2. t # "jobs" /\ "dependents" # "done"
      BY <1>2 DEF Saved
    <2> QED BY <1>1, <1>2, <1>4, <2>1, <2>2, StillEnd
  <1>7. CASE Dependents(t, n) = {}
    <2>1. Step(c, "erase")
      BY <1>1, <1>7 DEF CheckDependents, Named
    <2>2. Goes(calls[c], calls'[c], "erase") /\ said' = said
      BY <1>1, <1>2, <1>3, <2>1, SteppedAt DEF Places, Step
    <2>3. Agree(t, n)' <=> Agree(t, n)
      BY <1>2 DEF Still, Agree, Has, HasRow
    <2>4. Dependents(t, n)' = {}
      BY <1>2, <1>7 DEF Dependents, Still
    <2>5. StepOK(c)'
      BY <1>1, <1>2, <1>3, <1>5, <2>2, <2>3, <2>4 DEF StepOK, Goes, Clean
    <2> QED BY <1>2, <2>1, <2>5, StillStep DEF Places
  <1> QED BY <1>6, <1>7

-----------------------------------------------------------------------------
(* Steps that write to the disk or to the secret store *)

LEMMA GenerateKeyKeeps ==
    ASSUME IInv, NEW c \in Clients, GenerateKey(c)
    PROVE  IInv'
  <1>1. PICK n : n = calls[c].name
    OBVIOUS
  <1>2. Doing(c, "register", "agents", "generate")
    BY DEF GenerateKey
  <1>3. /\ Active(c) /\ calls[c].op = "register" /\ calls[c].table = "agents" /\ StepOK(c)
        /\ calls[c].at = "generate" /\ Wanted(c, calls[c]) /\ TodoOK(c)
        /\ CacheTyped /\ DiskTyped /\ CallsTyped /\ RestTyped
    BY <1>2, DoingCall DEF IInv
  <1>4. Writes(calls[c]) = {<<"agents", n>>} /\ n \in Agents
    BY <1>1, <1>3, ActiveCall DEF Saved, Entry, Wanted
  <1>5. CASE Fail(c) /\ UNCHANGED secrets
    <2>1. Still
      BY <1>5 DEF GenerateKey, Still
    <2> QED BY <1>2, <1>5, <2>1, StillFail DEF Saved
  <1>6. CASE ~(Fail(c) /\ UNCHANGED secrets)
    <2>1. PICK key, call : key = <<c, commands>>
                           /\ call = [calls[c] EXCEPT !.at = "insert", !.key = key]
      OBVIOUS
    <2>2. /\ secrets' = [secrets EXCEPT ![n] = key]
          /\ calls' = [calls EXCEPT ![c].at = "insert", ![c].key = key]
          /\ todo' = todo /\ said' = said /\ torn' = torn /\ faults' = faults
          /\ cache' = cache /\ disk' = disk /\ engines' = engines /\ up' = up
          /\ commands' = commands
      BY <1>1, <1>6, <2>1 DEF GenerateKey, Named
    <2>3. key \in Keys
      <3>1. commands \in 1..MaxCommands
        BY <1>3 DEF TodoOK, RestTyped
      <3> QED BY <2>1, <3>1 DEF Keys, Jobs
    <2>4. secrets' \in [Agents -> Keys] /\ secrets'[n] = key
          /\ \A a \in Agents : a # n => secrets'[a] = secrets[a]
      BY <1>3, <1>4, <2>2, <2>3 DEF RestTyped
    <2>5. calls[c] \in CallRecord /\ calls \in [Clients -> CallRecord]
      BY <1>3 DEF CallsTyped
    <2>6. call \in CallRecord
      BY <2>1, <2>3, <2>5 DEF CallRecord
    <2>7. Goes(calls[c], call, "insert") /\ call.key = key
      BY <2>1, <2>5, <2>6 DEF CallRecord, Goes
    <2>8. /\ calls'[c] = call /\ \A d \in Clients \ {c} : calls'[d] = calls[d]
          /\ calls' \in [Clients -> CallRecord]
      BY <2>1, <2>2, <2>5, <2>6
    <2>9. CallsKept(c) /\ SaidKept("agents", n) /\ CallsTyped' /\ EntryOK("agents", n)'
      BY <1>1, <1>3, <2>2, <2>7, <2>8, SteppedKeeps DEF Saved, Places
    <2>10. Clean("agents", n) =>
            /\ said[<<"agents", n>>].is = "unsaid" /\ Agree("agents", n) /\ ~Has("agents", n)
            /\ \A m \in calls[c].value.needs : Clean("models", m) => Has("models", m)
      BY <1>1, <1>3, <1>4 DEF StepOK, HalfDone
    <2>11. StepOK(c)'
      <3>1. /\ Agree("agents", n)' <=> Agree("agents", n)
            /\ \A t, m : (Has(t, m)' <=> Has(t, m)) /\ (Clean(t, m)' <=> Clean(t, m))
        BY <2>2 DEF Agree, Has, HasRow, Clean
      <3> QED BY <1>1, <1>3, <2>2, <2>4, <2>7, <2>8, <2>10, <3>1 DEF StepOK, Goes
    <2>12. TypeOK' /\ Types'
      <3>1. CacheTyped' /\ DiskTyped' /\ RestTyped'
        BY <1>3, <2>2, <2>4 DEF CacheTyped, DiskTyped, RestTyped
      <3> QED BY <2>9, <3>1, TypesMake, PTL
    <2>13. Frame(c, "agents", n)
      BY <1>1, <1>3, <2>2, <2>4, <2>9 DEF Frame, CacheKept, DiskKept, SecretsKept
    <2>14. Owned(c, "agents", n)
      <3>1. ~Differs("agents", n) /\ ~Gone("agents", n) /\ ~Makes(calls[c], n)
        BY <1>3, <2>2 DEF Differs, Gone, Makes
      <3>2. n \in DOMAIN cache'["agents"] => <<"agents", n>> \in torn'
        BY <2>2, <2>10 DEF Has, Clean
      <3>3. n \in DOMAIN disk'["agents"] => disk'["agents"][n].key = NoKey
        BY <2>2 DEF IInv, NoKeyOnDisk
      <3> QED BY <2>9, <2>11, <3>1, <3>2, <3>3 DEF Owned
    <2> QED BY <2>12, <2>13, <2>14, StepKeeps
  <1> QED BY <1>5, <1>6

\* What a call that writes starts from.
LEMMA WriterCall ==
    ASSUME IInv, NEW c \in Clients, NEW op \in {"register", "delete"}, NEW t \in Saved, NEW at,
           Doing(c, op, t, at), at # "done", NEW n, n = calls[c].name
    PROVE  /\ Active(c) /\ calls[c].op = op /\ calls[c].table = t /\ calls[c].at = at
           /\ Wanted(c, calls[c]) /\ StepOK(c) /\ t # "jobs"
           /\ CacheTyped /\ DiskTyped /\ CallsTyped /\ RestTyped
           /\ Writes(calls[c]) = {<<t, n>>} /\ Entry(calls[c]) = <<t, n>> /\ <<t, n>> \in Entries
           /\ Clean(t, n) => said[<<t, n>>].is = "unsaid"
  <1>1. /\ Active(c) /\ calls[c].op = op /\ calls[c].table = t /\ calls[c].at = at
        /\ Wanted(c, calls[c]) /\ StepOK(c)
        /\ CacheTyped /\ DiskTyped /\ CallsTyped /\ RestTyped
        /\ Entry(calls[c]) = <<t, n>> /\ <<t, n>> \in Entries
    BY DoingCall
  <1>2. Writes(calls[c]) = {<<t, n>>}
    BY <1>1, ActiveCall
  <1> QED BY <1>1, <1>2 DEF StepOK, Saved

LEMMA DiskKeeps ==
    ASSUME IInv, NEW c \in Clients, NEW op \in {"register", "delete"}, NEW t \in Saved, NEW at,
           Doing(c, op, t, at), at # "done", NEW n, n = calls[c].name,
           DiskTyped', DiskKept(t, n), cache' = cache, secrets' = secrets, engines' = engines,
           up' = up, commands' = commands, torn' = torn,
           CallsKept(c), SaidKept(t, n), CallsTyped', StepOK(c)', EntryOK(t, n)',
           t = "agents" /\ n \in DOMAIN disk'["agents"] => disk'["agents"][n].key = NoKey
    PROVE  IInv'
  <1>1. /\ Active(c) /\ calls[c].op = op /\ calls[c].table = t /\ t # "jobs"
        /\ CacheTyped /\ RestTyped
    BY DoingCall DEF Saved
  <1>2. TypeOK' /\ Types'
    <2>1. CacheTyped' /\ RestTyped'
      BY <1>1 DEF CacheTyped, RestTyped
    <2> QED BY <2>1, TypesMake, PTL
  <1>3. Frame(c, t, n)
    BY <1>1 DEF Frame, CacheKept, SecretsKept
  <1>4. Owned(c, t, n)
    <2>1. ~Differs(t, n) /\ ~Gone(t, n) /\ ~Makes(calls[c], n)
      BY <1>1 DEF Differs, Gone, Makes
    <2>2. t = "agents" /\ n \in DOMAIN cache'["agents"] /\ <<t, n>> \notin torn' =>
              cache'["agents"][n].key \in {NoKey, secrets'[n]}
      BY DEF IInv, KeyOfAgent, Clean
    <2> QED BY <2>1, <2>2 DEF Owned
  <1> QED BY <1>2, <1>3, <1>4, StepKeeps

\* The second write of a registration: the cache has the entry already.
LEMMA SavedLast ==
    ASSUME IInv, NEW c \in Clients, NEW t \in {"models", "agents"}, NEW row,
           Doing(c, "register", t, "save"), disk' = With(disk, t, calls[c].name, row),
           DiskTyped', Config(t, row) = calls[c].value, t = "agents" => row.key = NoKey,
           Ended(c), cache' = cache, secrets' = secrets, engines' = engines,
           up' = up, commands' = commands, torn' = torn
    PROVE  IInv'
  <1>1. PICK n : n = calls[c].name
    OBVIOUS
  <1>2. t \in Saved /\ "save" # "done"
    BY DEF Saved
  <1>3. /\ Active(c) /\ calls[c].op = "register" /\ calls[c].table = t /\ calls[c].at = "save"
        /\ StepOK(c) /\ DiskTyped /\ Writes(calls[c]) = {<<t, n>>}
        /\ Clean(t, n) => said[<<t, n>>].is = "unsaid"
    BY <1>1, <1>2, WriterCall
  <1>4. /\ CallsKept(c) /\ SaidKept(t, n) /\ CallsTyped' /\ StepOK(c)'
        /\ said'[<<t, n>>] = said[<<t, n>>] \/ said'[<<t, n>>] = Outcome(calls[c])
    BY <1>1, <1>3, EndedKeeps
  <1>5. /\ \A u \in Saved : u # t => disk'[u] = disk[u]
        /\ DOMAIN disk'[t] = DOMAIN disk[t] \cup {n} /\ disk'[t][n] = row
        /\ \A m \in DOMAIN disk[t] : m # n => disk'[t][m] = disk[t][m]
    <2>1. t \in DOMAIN disk /\ DOMAIN disk = Saved
      BY <1>2, <1>3 DEF DiskTyped
    <2> QED BY <1>1, <2>1, WithEntry
  <1>6. DiskKept(t, n)
    BY <1>5 DEF DiskKept
  <1>7. EntryOK(t, n)'
    <2> SUFFICES ASSUME Clean(t, n)' PROVE Agree(t, n)' /\ Told(t, n)'
      BY DEF EntryOK
    <2>1. /\ Has(t, n) /\ Config(t, cache[t][n]) = calls[c].value
          /\ said[<<t, n>>].is = "unsaid"
      BY <1>1, <1>3 DEF StepOK, Clean
    <2>2. Agree(t, n)'
      BY <1>5, <2>1 DEF Agree, Has, HasRow
    <2>3. Outcome(calls[c]) = [is |-> "there", value |-> calls[c].value]
      BY <1>3 DEF Outcome
    <2>4. \/ said'[<<t, n>>].is = "unsaid"
          \/ said'[<<t, n>>].is = "there" /\ said'[<<t, n>>].value = calls[c].value
      BY <1>4, <2>1, <2>3
    <2>5. Told(t, n)'
      BY <2>1, <2>4 DEF Told, Has
    <2> QED BY <2>2, <2>5
  <1> QED BY <1>1, <1>2, <1>4, <1>5, <1>6, <1>7, DiskKeeps

LEMMA SaveModelKeeps ==
    ASSUME IInv, NEW c \in Clients, SaveModel(c)
    PROVE  IInv'
  <1>1. PICK t, n, v : t = "models" /\ n = calls[c].name /\ v = calls[c].value
    OBVIOUS
  <1>2. Doing(c, "register", t, "save") /\ t \in Saved /\ t \in {"models", "agents"}
    BY <1>1 DEF SaveModel, Saved
  <1>3. CASE Fail(c) /\ UNCHANGED disk
    BY <1>2, <1>3, StillFail DEF SaveModel, Still
  <1>4. CASE ~(Fail(c) /\ UNCHANGED disk)
    <2>1. disk' = With(disk, t, n, v) /\ End(c, TRUE)
          /\ cache' = cache /\ secrets' = secrets /\ engines' = engines
          /\ up' = up /\ commands' = commands /\ torn' = torn
      BY <1>1, <1>4 DEF SaveModel, Named, Value
    <2>2. Wanted(c, calls[c]) /\ calls[c].op = "register" /\ calls[c].table = t /\ DiskTyped
      BY <1>2, DoingCall
    <2>3. v \in ModelDefs /\ n \in Models
      BY <1>1, <2>2 DEF Wanted
    <2>4. DiskTyped'
      BY <1>1, <2>1, <2>2, <2>3, WithEntry, PartialPut DEF DiskTyped, Saved
    <2>5. Ended(c)
      BY <2>1 DEF End, Ended
    <2>6. Config(t, v) = v
      BY <1>1 DEF Config
    <2>7. t # "agents"
      BY <1>1
    <2> QED BY <1>1, <1>2, <2>1, <2>4, <2>5, <2>6, <2>7, SavedLast
  <1> QED BY <1>3, <1>4

LEMMA SaveAgentKeeps ==
    ASSUME IInv, NEW c \in Clients, SaveAgent(c)
    PROVE  IInv'
  <1>1. PICK t, n, row : /\ t = "agents" /\ n = calls[c].name
                         /\ row = AgentRow(AgentOffWire(calls[c].value))
    OBVIOUS
  <1>2. Doing(c, "register", t, "save") /\ t \in Saved /\ t \in {"models", "agents"}
    BY <1>1 DEF SaveAgent, Saved
  <1>3. CASE Fail(c) /\ UNCHANGED disk
    BY <1>2, <1>3, StillFail DEF SaveAgent, Still
  <1>4. CASE ~(Fail(c) /\ UNCHANGED disk)
    <2>1. disk' = With(disk, t, n, row) /\ End(c, TRUE)
          /\ cache' = cache /\ secrets' = secrets /\ engines' = engines
          /\ up' = up /\ commands' = commands /\ torn' = torn
      BY <1>1, <1>4 DEF SaveAgent, Named, Value
    <2>2. Wanted(c, calls[c]) /\ calls[c].op = "register" /\ calls[c].table = t /\ DiskTyped
      BY <1>2, DoingCall
    <2>3. calls[c].value \in Configs /\ n \in Agents
      BY <1>1, <2>2 DEF Wanted
    <2>4. row.config = calls[c].value /\ row.key = NoKey /\ row \in Agent
      BY <1>1, <2>3 DEF AgentRow, AgentOffWire, Agent, Keys
    <2>5. DiskTyped'
      BY <1>1, <2>1, <2>2, <2>3, <2>4, WithEntry, PartialPut DEF DiskTyped, Saved
    <2>6. Ended(c)
      BY <2>1 DEF End, Ended
    <2>7. Config(t, row) = calls[c].value
      BY <1>1, <2>4 DEF Config, AgentOnWire
    <2> QED BY <1>1, <1>2, <2>1, <2>4, <2>5, <2>6, <2>7, SavedLast
  <1> QED BY <1>3, <1>4

LEMMA SaveMcpServerKeeps ==
    ASSUME IInv, NEW c \in Clients, SaveMcpServer(c)
    PROVE  IInv'
  <1>1. PICK t, n, v : t = "mcp" /\ n = calls[c].name /\ v = calls[c].value
    OBVIOUS
  <1>2. Doing(c, "register", t, "save") /\ t \in Saved
    BY <1>1 DEF SaveMcpServer, Saved
  <1>3. CASE Fail(c) /\ UNCHANGED disk
    BY <1>2, <1>3, StillFail DEF SaveMcpServer, Still
  <1>4. CASE ~(Fail(c) /\ UNCHANGED disk)
    <2>1. disk' = With(disk, t, n, v) /\ Step(c, "insert")
          /\ cache' = cache /\ secrets' = secrets /\ engines' = engines
          /\ up' = up /\ commands' = commands /\ torn' = torn
      BY <1>1, <1>4 DEF SaveMcpServer, Named, Value
    <2>2. /\ Active(c) /\ calls[c].op = "register" /\ calls[c].table = t /\ DiskTyped
          /\ Wanted(c, calls[c])
      BY <1>2, DoingCall
    <2>3. v = 1 /\ n \in Servers
      BY <1>1, <2>2 DEF Wanted
    <2>4. /\ CallsKept(c) /\ SaidKept(t, n) /\ CallsTyped' /\ EntryOK(t, n)'
          /\ Goes(calls[c], calls'[c], "insert") /\ Writes(calls'[c]) = {<<t, n>>}
          /\ said' = said
      BY <1>1, <1>2, <2>1, <2>2, SteppedAt DEF Places, Step
    <2>5. /\ DiskTyped' /\ DiskKept(t, n) /\ n \in DOMAIN disk'[t] /\ disk'[t][n] = v
      <3>1. t \in DOMAIN disk /\ DOMAIN disk = Saved
        BY <1>2, <2>2 DEF DiskTyped
      <3>2. /\ \A u \in Saved : u # t => disk'[u] = disk[u]
            /\ DOMAIN disk'[t] = DOMAIN disk[t] \cup {n} /\ disk'[t][n] = v
            /\ \A m \in DOMAIN disk[t] : m # n => disk'[t][m] = disk[t][m]
            /\ disk'[t] = Put(disk[t], n, v) /\ DOMAIN disk' = Saved
        BY <2>1, <3>1, WithEntry
      <3>3. DiskTyped'
        BY <1>1, <2>2, <2>3, <3>2, PartialPut DEF DiskTyped, Saved
      <3> QED BY <3>2, <3>3 DEF DiskKept
    <2>6. StepOK(c)'
      <3>1. Clean(t, n) => said[<<t, n>>].is = "unsaid"
        BY <1>1, <1>2, WriterCall
      <3>2. /\ calls'[c].op = "register" /\ calls'[c].table = t /\ calls'[c].name = n
            /\ calls'[c].at = "insert" /\ calls'[c].value = v /\ HalfDone(calls'[c])
        BY <1>1, <2>2, <2>4 DEF Goes, HalfDone
      <3> QED BY <1>1, <2>1, <2>4, <2>5, <3>1, <3>2 DEF StepOK, Clean, HasRow
    <2>7. t # "agents" /\ "save" # "done"
      BY <1>1
    <2> QED BY <1>1, <1>2, <2>1, <2>4, <2>5, <2>6, <2>7, DiskKeeps
  <1> QED BY <1>3, <1>4

LEMMA EraseKeeps ==
    ASSUME IInv, NEW c \in Clients, Erase(c)
    PROVE  IInv'
  <1>1. PICK t, n : t = calls[c].table /\ n = calls[c].name
    OBVIOUS
  <1>2. Doing(c, "delete", t, "erase") /\ t \in Saved /\ "erase" # "done"
    BY <1>1 DEF Erase, Doing
  <1>3. /\ Active(c) /\ calls[c].op = "delete" /\ calls[c].at = "erase" /\ StepOK(c) /\ DiskTyped
        /\ Writes(calls[c]) = {<<t, n>>} /\ t # "jobs"
        /\ Clean(t, n) => said[<<t, n>>].is = "unsaid"
    BY <1>1, <1>2, WriterCall
  <1>4. ~HalfDone(calls[c])
    BY <1>3 DEF HalfDone
  <1>5. Clean(t, n) => Agree(t, n) /\ Dependents(t, n) = {}
    BY <1>1, <1>3, <1>4 DEF StepOK
  <1>6. CASE Fail(c) /\ UNCHANGED disk
    BY <1>2, <1>6, StillFail DEF Erase, Still
  <1>7. CASE ~HasRow(t, n) /\ End(c, TRUE) /\ UNCHANGED <<disk, torn>>
    <2>1. Still /\ torn' = torn /\ Ended(c)
      BY <1>7 DEF Erase, Still, End, Ended
    <2>2. Clean(t, n) => ~Has(t, n)
      BY <1>5, <1>7 DEF Agree
    <2> QED BY <1>1, <1>2, <1>3, <1>4, <2>1, <2>2, StillEnd
  <1>8. CASE disk' = Without(disk, t, n) /\ Step(c, "evict") /\ UNCHANGED torn
    <2>1. /\ cache' = cache /\ secrets' = secrets /\ engines' = engines
          /\ up' = up /\ commands' = commands /\ torn' = torn
      BY <1>8 DEF Erase
    <2>2. /\ CallsKept(c) /\ SaidKept(t, n) /\ CallsTyped' /\ EntryOK(t, n)'
          /\ Goes(calls[c], calls'[c], "evict") /\ Writes(calls'[c]) = {<<t, n>>}
          /\ said' = said
      BY <1>1, <1>2, <1>3, <1>8, SteppedAt DEF Places, Step
    <2>3. /\ DiskTyped' /\ DiskKept(t, n) /\ n \notin DOMAIN disk'[t]
      <3>1. t \in DOMAIN disk /\ DOMAIN disk = Saved
        BY <1>2, <1>3 DEF DiskTyped
      <3>2. /\ \A u \in Saved : u # t => disk'[u] = disk[u]
            /\ DOMAIN disk'[t] = DOMAIN disk[t] \ {n}
            /\ \A m \in DOMAIN disk[t] : m # n => disk'[t][m] = disk[t][m]
            /\ disk'[t] = Restrict(disk[t], DOMAIN disk[t] \ {n}) /\ DOMAIN disk' = Saved
        BY <1>8, <3>1, WithoutEntry
      <3>3. PICK E : E = DOMAIN disk[t] \ {n} /\ E \subseteq DOMAIN disk[t]
        OBVIOUS
      <3>4. \A S, T : disk[t] \in Partial(S, T) => disk'[t] \in Partial(S, T)
        BY <3>2, <3>3, PartialRestrict
      <3>5. DiskTyped'
        BY <1>2, <1>3, <3>2, <3>4 DEF DiskTyped, Saved
      <3> QED BY <3>2, <3>5 DEF DiskKept
    <2>4. StepOK(c)'
      <3>1. /\ calls'[c].op = "delete" /\ calls'[c].table = t /\ calls'[c].name = n
            /\ calls'[c].at = "evict" /\ HalfDone(calls'[c])
        BY <1>1, <1>3, <2>2 DEF Goes, HalfDone
      <3>2. Dependents(t, n)' = Dependents(t, n)
        BY <2>1 DEF Dependents
      <3> QED BY <1>3, <1>5, <2>1, <2>2, <2>3, <3>1, <3>2 DEF StepOK, Clean, HasRow
    <2> QED BY <1>1, <1>2, <2>1, <2>2, <2>3, <2>4, DiskKeeps
  <1> QED BY <1>1, <1>6, <1>7, <1>8 DEF Erase, Named

-----------------------------------------------------------------------------
(* Steps that write to the cache *)

LEMMA PutKeeps ==
    ASSUME IInv, NEW c \in Clients, NEW op \in {"register", "update"}, NEW t \in Cached, NEW at,
           Doing(c, op, t, at), at # "done", NEW n, n = calls[c].name, NEW v,
           cache' = With(cache, t, n, v), CacheTyped', Config(t, v) = calls[c].value,
           disk' = disk, secrets' = secrets, engines' = engines, up' = up, commands' = commands,
           torn' = torn, CallsKept(c), SaidKept(t, n), CallsTyped', StepOK(c)', EntryOK(t, n)',
           t = "models" => calls[c].value.engine \in engines,
           t = "agents" /\ Clean(t, n) =>
               /\ v.key \in {NoKey, secrets[n]}
               /\ \A m \in calls[c].value.needs : Clean("models", m) => Has("models", m),
           t = "fleets" => \A a \in calls[c].value : Has("agents", a)
    PROVE  IInv'
  <1>1. /\ Active(c) /\ calls[c].op = op /\ calls[c].table = t
        /\ CacheTyped /\ DiskTyped /\ RestTyped
    BY DoingCall
  <1>2. TypeOK' /\ Types'
    <2>1. DiskTyped' /\ RestTyped'
      BY <1>1 DEF DiskTyped, RestTyped
    <2> QED BY <2>1, TypesMake, PTL
  <1>3. /\ \A u \in Cached : u # t => cache'[u] = cache[u]
        /\ DOMAIN cache'[t] = DOMAIN cache[t] \cup {n} /\ cache'[t][n] = v
        /\ \A m \in DOMAIN cache[t] : m # n => cache'[t][m] = cache[t][m]
    <2>1. t \in DOMAIN cache /\ DOMAIN cache = Cached
      BY <1>1 DEF CacheTyped
    <2> QED BY <2>1, WithEntry
  <1>4. Frame(c, t, n)
    <2>1. CacheKept(t, n) /\ DiskKept(t, n) /\ SecretsKept(t, n)
      BY <1>3 DEF CacheKept, DiskKept, SecretsKept
    <2>2. DOMAIN cache["jobs"] \subseteq DOMAIN cache'["jobs"]
      BY <1>3 DEF Cached
    <2>3. calls[c].op # "find"
      BY <1>1
    <2> QED BY <1>1, <2>1, <2>2, <2>3 DEF Frame
  <1>5. Owned(c, t, n)
    <2>1. Makes(calls[c], n) => n \in DOMAIN cache'["jobs"]
      BY <1>1, <1>3 DEF Makes
    <2>2. ~Gone(t, n)
      BY <1>3 DEF Gone
    <2>3. /\ calls[c].op # "delete" /\ Config(t, cache'[t][n]) = calls[c].value
          /\ t = "models" => calls[c].value.engine \in engines
          /\ t = "agents" /\ <<t, n>> \notin torn =>
                 \A m \in calls[c].value.needs :
                     <<"models", m>> \notin torn => m \in DOMAIN cache["models"]
          /\ t = "fleets" => \A a \in calls[c].value : a \in DOMAIN cache["agents"]
      BY <1>1, <1>3 DEF Clean, Has
    <2>4. t = "agents" =>
           /\ n \in DOMAIN cache'["agents"] /\ <<t, n>> \notin torn' =>
                  cache'["agents"][n].key \in {NoKey, secrets'[n]}
           /\ n \in DOMAIN disk'["agents"] => disk'["agents"][n].key = NoKey
      BY <1>3 DEF IInv, NoKeyOnDisk, Clean
    <2> QED BY <2>1, <2>2, <2>3, <2>4 DEF Owned
  <1> QED BY <1>2, <1>4, <1>5, StepKeeps

\* The tables after an entry is put into one of them.
LEMMA PutTyped ==
    ASSUME CacheTyped, NEW t \in Cached, NEW n, NEW v, cache' = With(cache, t, n, v),
           \/ t = "models" /\ n \in Models /\ v \in ModelDefs
           \/ t = "agents" /\ n \in Agents /\ v \in Agent
           \/ t = "mcp" /\ n \in Servers /\ v = 1
           \/ t = "fleets" /\ n = "fleet" /\ v \in Fleets
           \/ t = "jobs" /\ n \in Jobs /\ v \in {"pending", "running", "completed"}
    PROVE  /\ CacheTyped' /\ n \in DOMAIN cache'[t] /\ cache'[t][n] = v
  <1>1. t \in DOMAIN cache /\ DOMAIN cache = Cached
    BY DEF CacheTyped
  <1>2. /\ \A u \in Cached : u # t => cache'[u] = cache[u]
        /\ DOMAIN cache'[t] = DOMAIN cache[t] \cup {n} /\ cache'[t][n] = v
        /\ \A m \in DOMAIN cache[t] : m # n => cache'[t][m] = cache[t][m]
        /\ cache'[t] = Put(cache[t], n, v) /\ DOMAIN cache' = Cached
    BY <1>1, WithEntry
  <1>3. CASE t = "models" /\ n \in Models /\ v \in ModelDefs
    BY <1>2, <1>3, PartialPut DEF CacheTyped, Cached
  <1>4. CASE t = "agents" /\ n \in Agents /\ v \in Agent
    BY <1>2, <1>4, PartialPut DEF CacheTyped, Cached
  <1>5. CASE t = "mcp" /\ n \in Servers /\ v = 1
    BY <1>2, <1>5, PartialPut DEF CacheTyped, Cached
  <1>6. CASE t = "fleets" /\ n = "fleet" /\ v \in Fleets
    BY <1>2, <1>6, PartialPut DEF CacheTyped, Cached
  <1>7. CASE t = "jobs" /\ n \in Jobs /\ v \in {"pending", "running", "completed"}
    BY <1>2, <1>7 DEF CacheTyped, Cached
  <1> QED BY <1>2, <1>3, <1>4, <1>5, <1>6, <1>7

LEMMA RegisterModelKeeps ==
    ASSUME IInv, NEW c \in Clients, RegisterModel(c)
    PROVE  IInv'
  <1>1. PICK t, n, v : t = "models" /\ n = calls[c].name /\ v = calls[c].value
    OBVIOUS
  <1>2. /\ Doing(c, "register", t, "validate") /\ t \in Saved /\ t \in Cached
        /\ "validate" # "done" /\ t # "agents" /\ t # "fleets"
    BY <1>1 DEF RegisterModel, Saved, Cached
  <1>3. /\ Active(c) /\ calls[c].op = "register" /\ calls[c].table = t /\ calls[c].at = "validate"
        /\ Wanted(c, calls[c]) /\ CacheTyped /\ t # "jobs" /\ StepOK(c)
        /\ Clean(t, n) => said[<<t, n>>].is = "unsaid"
    BY <1>1, <1>2, WriterCall
  <1>4. CASE v.engine \in engines
    <2>1. /\ cache' = With(cache, t, n, v) /\ Step(c, "save") /\ disk' = disk
          /\ secrets' = secrets /\ engines' = engines /\ up' = up /\ commands' = commands
          /\ torn' = torn
      BY <1>1, <1>4 DEF RegisterModel, Named, Value
    <2>2. v \in ModelDefs /\ n \in Models
      BY <1>1, <1>3 DEF Wanted
    <2>3. CacheTyped' /\ n \in DOMAIN cache'[t] /\ cache'[t][n] = v
      BY <1>1, <1>2, <1>3, <2>1, <2>2, PutTyped
    <2>4. /\ CallsKept(c) /\ SaidKept(t, n) /\ CallsTyped' /\ EntryOK(t, n)'
          /\ Goes(calls[c], calls'[c], "save") /\ said' = said
      BY <1>1, <1>2, <1>3, <2>1, SteppedAt DEF Places, Step
    <2>5. Config(t, v) = v
      BY <1>1 DEF Config
    <2>6. StepOK(c)'
      <3>1. /\ calls'[c].op = "register" /\ calls'[c].table = t /\ calls'[c].name = n
            /\ calls'[c].at = "save" /\ calls'[c].value = v /\ HalfDone(calls'[c])
        BY <1>1, <1>3, <2>4 DEF Goes, HalfDone
      <3> QED BY <1>1, <1>2, <1>3, <2>1, <2>3, <2>4, <2>5, <3>1 DEF StepOK, Clean, Has
    <2> QED BY <1>1, <1>2, <1>4, <2>1, <2>3, <2>4, <2>5, <2>6, PutKeeps
  <1>5. CASE v.engine \notin engines
    <2>1. End(c, FALSE) /\ Still /\ torn' = torn
      BY <1>1, <1>5 DEF RegisterModel, Value, Still
    <2>2. Ended(c) /\ said' = said
      BY <2>1 DEF End, Ended
    <2>3. ~HalfDone(calls[c])
      BY <1>3 DEF HalfDone
    <2> QED BY <1>1, <1>2, <1>3, <2>1, <2>2, <2>3, StillEnd
  <1> QED BY <1>4, <1>5

LEMMA InsertAgentKeeps ==
    ASSUME IInv, NEW c \in Clients, InsertAgent(c)
    PROVE  IInv'
  <1>1. PICK t, n, v : /\ t = "agents" /\ n = calls[c].name
                       /\ v = [config |-> calls[c].value, key |-> calls[c].key]
    OBVIOUS
  <1>2. /\ Doing(c, "register", t, "insert") /\ t \in Saved /\ t \in Cached
        /\ "insert" # "done" /\ t # "models" /\ t # "fleets"
    BY <1>1 DEF InsertAgent, Saved, Cached
  <1>3. /\ Active(c) /\ calls[c].op = "register" /\ calls[c].table = t /\ calls[c].at = "insert"
        /\ Wanted(c, calls[c]) /\ CacheTyped /\ CallsTyped /\ t # "jobs" /\ StepOK(c)
        /\ Clean(t, n) => said[<<t, n>>].is = "unsaid"
        /\ Writes(calls[c]) = {<<t, n>>}
    BY <1>1, <1>2, WriterCall
  <1>4. /\ cache' = With(cache, t, n, v) /\ Step(c, "save") /\ disk' = disk
        /\ secrets' = secrets /\ engines' = engines /\ up' = up /\ commands' = commands
        /\ torn' = torn
    BY <1>1 DEF InsertAgent, Named, Value
  <1>5. /\ calls[c].value \in Configs /\ n \in Agents /\ calls[c].key \in Keys
        /\ v.config = calls[c].value /\ v.key = calls[c].key
    BY <1>1, <1>3 DEF Wanted, CallsTyped, CallRecord
  <1>6. v \in Agent
    BY <1>1, <1>5 DEF Agent
  <1>7. CacheTyped' /\ n \in DOMAIN cache'[t] /\ cache'[t][n] = v
    BY <1>1, <1>2, <1>3, <1>4, <1>5, <1>6, PutTyped
  <1>8. /\ CallsKept(c) /\ SaidKept(t, n) /\ CallsTyped' /\ EntryOK(t, n)'
        /\ Goes(calls[c], calls'[c], "save") /\ said' = said
    BY <1>1, <1>2, <1>3, <1>4, SteppedAt DEF Places, Step
  <1>9. Config(t, v) = calls[c].value
    BY <1>1, <1>5 DEF Config, AgentOnWire
  <1>10. StepOK(c)'
    <2>1. /\ calls'[c].op = "register" /\ calls'[c].table = t /\ calls'[c].name = n
          /\ calls'[c].at = "save" /\ calls'[c].value = calls[c].value /\ HalfDone(calls'[c])
      BY <1>1, <1>3, <1>8 DEF Goes, HalfDone
    <2> QED BY <1>1, <1>2, <1>3, <1>4, <1>7, <1>8, <1>9, <2>1 DEF StepOK, Clean, Has
  <1>11. Clean(t, n) =>
             /\ v.key \in {NoKey, secrets[n]}
             /\ \A m \in calls[c].value.needs : Clean("models", m) => Has("models", m)
    BY <1>1, <1>3, <1>5 DEF StepOK
  <1> QED BY <1>1, <1>2, <1>4, <1>7, <1>8, <1>9, <1>10, <1>11, PutKeeps

LEMMA InsertMcpServerKeeps ==
    ASSUME IInv, NEW c \in Clients, InsertMcpServer(c)
    PROVE  IInv'
  <1>1. PICK t, n, v : t = "mcp" /\ n = calls[c].name /\ v = calls[c].value
    OBVIOUS
  <1>2. /\ Doing(c, "register", t, "insert") /\ t \in Saved /\ t \in Cached
        /\ "insert" # "done" /\ t # "models" /\ t # "fleets" /\ t # "agents"
    BY <1>1 DEF InsertMcpServer, Saved, Cached
  <1>3. /\ Active(c) /\ calls[c].op = "register" /\ calls[c].table = t /\ calls[c].at = "insert"
        /\ Wanted(c, calls[c]) /\ CacheTyped /\ t # "jobs" /\ StepOK(c)
        /\ Clean(t, n) => said[<<t, n>>].is = "unsaid"
        /\ Writes(calls[c]) = {<<t, n>>}
    BY <1>1, <1>2, WriterCall
  <1>4. /\ cache' = With(cache, t, n, v) /\ End(c, TRUE) /\ disk' = disk
        /\ secrets' = secrets /\ engines' = engines /\ up' = up /\ commands' = commands
        /\ torn' = torn
    BY <1>1 DEF InsertMcpServer, Named, Value
  <1>5. v = 1 /\ n \in Servers
    BY <1>1, <1>3 DEF Wanted
  <1>6. CacheTyped' /\ n \in DOMAIN cache'[t] /\ cache'[t][n] = v
    BY <1>1, <1>2, <1>3, <1>4, <1>5, PutTyped
  <1>7. Ended(c)
    BY <1>4 DEF End, Ended
  <1>8. /\ CallsKept(c) /\ SaidKept(t, n) /\ CallsTyped' /\ StepOK(c)'
        /\ said'[<<t, n>>] = said[<<t, n>>] \/ said'[<<t, n>>] = Outcome(calls[c])
    BY <1>1, <1>3, <1>7, EndedKeeps
  <1>9. EntryOK(t, n)'
    <2> SUFFICES ASSUME Clean(t, n)' PROVE Agree(t, n)' /\ Told(t, n)'
      BY DEF EntryOK
    <2>1. HasRow(t, n) /\ disk[t][n] = v /\ said[<<t, n>>].is = "unsaid"
      BY <1>1, <1>3, <1>4 DEF StepOK, Clean
    <2>2. Agree(t, n)'
      BY <1>4, <1>6, <2>1 DEF Agree, Has, HasRow
    <2>3. Outcome(calls[c]) = [is |-> "there", value |-> v]
      BY <1>1, <1>3 DEF Outcome
    <2>4. \/ said'[<<t, n>>].is = "unsaid"
          \/ said'[<<t, n>>].is = "there" /\ said'[<<t, n>>].value = v
      BY <1>8, <2>1, <2>3
    <2>5. Config(t, cache'[t][n]) = v
      BY <1>2, <1>6 DEF Config
    <2>6. Told(t, n)'
      BY <1>6, <2>4, <2>5 DEF Told, Has
    <2> QED BY <2>2, <2>6
  <1>10. Config(t, v) = v
    BY <1>2 DEF Config
  <1> QED BY <1>1, <1>2, <1>4, <1>6, <1>8, <1>9, <1>10, PutKeeps

\* What is in the cache only is not torn, and never busy.
LEMMA CacheOnly ==
    ASSUME IInv, NEW t \in {"fleets", "jobs"}, NEW n, <<t, n>> \in Entries, Clean(t, n)
    PROVE  Told(t, n)
  <1>1. t \notin Saved
    BY DEF Saved
  <1>2. ~Busy(t, n)
    BY <1>1 DEF Busy, Writes
  <1> QED BY <1>2 DEF IInv, EntriesOK, EntryOK

LEMMA RegisterFleetKeeps ==
    ASSUME IInv, NEW c \in Clients, RegisterFleet(c)
    PROVE  IInv'
  <1>1. PICK t, n, v : t = "fleets" /\ n = calls[c].name /\ v = calls[c].value
    OBVIOUS
  <1>2. /\ Doing(c, "register", t, "validate") /\ t \notin Saved /\ t \in Cached
        /\ "validate" # "done" /\ t # "models" /\ t # "agents" /\ t # "jobs"
    BY <1>1 DEF RegisterFleet, Saved, Cached
  <1>3. /\ Active(c) /\ calls[c].op = "register" /\ calls[c].table = t /\ calls[c].at = "validate"
        /\ Wanted(c, calls[c]) /\ CacheTyped /\ <<t, n>> \in Entries
    BY <1>1, <1>2, DoingCall
  <1>4. Config(t, v) = v /\ (Has(t, n) => Config(t, cache[t][n]) = cache[t][n])
    BY <1>2 DEF Config
  <1>5. CASE Has(t, n) \/ \E a \in v : ~Has("agents", a)
    <2>1. End(c, Has(t, n) /\ cache[t][n] = v) /\ Still /\ torn' = torn
      BY <1>1, <1>5 DEF RegisterFleet, Named, Value, Still
    <2>2. Ended(c) /\ (said' = said \/ (Has(t, n) /\ cache[t][n] = v))
      BY <2>1 DEF End, Ended
    <2>3. ~HalfDone(calls[c])
      BY <1>3 DEF HalfDone
    <2>4. \/ said'[<<t, n>>] = said[<<t, n>>]
          \/ Has(t, n) /\ Config(t, cache[t][n]) = calls[c].value
      BY <1>1, <1>4, <2>2
    <2>5. PICK op : op = "register"
      OBVIOUS
    <2> QED BY <1>1, <1>2, <2>1, <2>2, <2>3, <2>4, <2>5, StillEnd
  <1>6. CASE ~Has(t, n) /\ \A a \in v : Has("agents", a)
    <2>1. /\ cache' = With(cache, t, n, v) /\ End(c, TRUE) /\ disk' = disk
          /\ secrets' = secrets /\ engines' = engines /\ up' = up /\ commands' = commands
          /\ torn' = torn
      BY <1>1, <1>6 DEF RegisterFleet, Named, Value
    <2>2. v \in Fleets /\ n = "fleet"
      BY <1>1, <1>3 DEF Wanted
    <2>3. CacheTyped' /\ n \in DOMAIN cache'[t] /\ cache'[t][n] = v
      BY <1>1, <1>2, <1>3, <2>1, <2>2, PutTyped
    <2>4. Ended(c)
      BY <2>1 DEF End, Ended
    <2>5. /\ CallsKept(c) /\ SaidKept(t, n) /\ CallsTyped' /\ StepOK(c)'
          /\ said'[<<t, n>>] = said[<<t, n>>] \/ said'[<<t, n>>] = Outcome(calls[c])
      BY <1>1, <1>3, <2>4, EndedKeeps
    <2>6. EntryOK(t, n)'
      <3> SUFFICES ASSUME Clean(t, n)' PROVE Told(t, n)'
        BY <1>2 DEF EntryOK
      <3>1. Clean(t, n)
        BY <2>1 DEF Clean
      <3>2. Told(t, n)
        BY <1>1, <1>3, <3>1, CacheOnly
      <3>3. said[<<t, n>>].is # "there" /\ said[<<t, n>>].is # "gone"
        BY <1>2, <1>6, <3>2 DEF Told
      <3>4. Outcome(calls[c]) = [is |-> "there", value |-> v]
        BY <1>1, <1>3 DEF Outcome
      <3>5. \/ said'[<<t, n>>] = said[<<t, n>>]
            \/ said'[<<t, n>>].is = "there" /\ said'[<<t, n>>].value = v
        BY <2>5, <3>4
      <3>6. Config(t, cache'[t][n]) = v
        BY <1>4, <2>3
      <3> QED BY <2>3, <3>3, <3>5, <3>6 DEF Told, Has
    <2>7. PICK op : op = "register"
      OBVIOUS
    <2> QED BY <1>1, <1>2, <1>4, <1>6, <2>1, <2>3, <2>5, <2>6, <2>7, PutKeeps
  <1> QED BY <1>5, <1>6

\* A job that is made, or updated.
LEMMA JobKeeps ==
    ASSUME IInv, NEW c \in Clients, NEW op \in {"register", "update"}, NEW at,
           Doing(c, op, "jobs", at), at # "done",
           cache' = With(cache, "jobs", calls[c].name, calls[c].value), End(c, TRUE),
           disk' = disk, secrets' = secrets, engines' = engines, up' = up, commands' = commands,
           torn' = torn
    PROVE  IInv'
  <1>1. PICK t, n, v : t = "jobs" /\ n = calls[c].name /\ v = calls[c].value
    OBVIOUS
  <1>2. t \notin Saved /\ t \in Cached /\ t # "models" /\ t # "agents" /\ t # "fleets"
    BY <1>1 DEF Saved, Cached
  <1>3. /\ Active(c) /\ calls[c].op = op /\ calls[c].table = t /\ Doing(c, op, t, at)
        /\ Wanted(c, calls[c]) /\ CacheTyped /\ <<t, n>> \in Entries
        /\ CallOK(c) /\ Entry(calls[c]) = <<t, n>>
    BY <1>1, DoingCall
  <1>4. n \in Jobs /\ v \in {"pending", "running", "completed"}
    BY <1>1, <1>3 DEF Wanted, JobsOf, Jobs, Saved
  <1>5. CacheTyped' /\ n \in DOMAIN cache'[t] /\ cache'[t][n] = v
    BY <1>1, <1>2, <1>3, <1>4, PutTyped
  <1>6. Ended(c)
    BY DEF End, Ended
  <1>7. /\ CallsKept(c) /\ SaidKept(t, n) /\ CallsTyped' /\ StepOK(c)'
        /\ said'[<<t, n>>] = said[<<t, n>>] \/ said'[<<t, n>>] = Outcome(calls[c])
    BY <1>1, <1>3, <1>6, EndedKeeps
  <1>8. Config(t, v) = v /\ Config(t, cache'[t][n]) = v
    BY <1>2, <1>5 DEF Config
  <1>9. EntryOK(t, n)'
    <2>1. said[<<t, n>>].is = "unsaid"
      BY <1>1, <1>3 DEF CallOK
    <2>2. Outcome(calls[c]) = [is |-> "there", value |-> v]
      BY <1>1, <1>3 DEF Outcome
    <2>3. \/ said'[<<t, n>>].is = "unsaid"
          \/ said'[<<t, n>>].is = "there" /\ said'[<<t, n>>].value = v
      BY <1>7, <2>1, <2>2
    <2>4. Told(t, n)'
      BY <1>5, <1>8, <2>3 DEF Told, Has
    <2> QED BY <1>2, <2>4 DEF EntryOK
  <1> QED BY <1>1, <1>2, <1>3, <1>5, <1>7, <1>8, <1>9, PutKeeps

LEMMA CreateJobKeeps ==
    ASSUME IInv, NEW c \in Clients, CreateJob(c)
    PROVE  IInv'
  <1>1. PICK op, at : op = "register" /\ at = "insert"
    OBVIOUS
  <1>2. /\ Doing(c, op, "jobs", at) /\ at # "done" /\ op \in {"register", "update"}
        /\ cache' = With(cache, "jobs", calls[c].name, calls[c].value) /\ End(c, TRUE)
        /\ disk' = disk /\ secrets' = secrets /\ engines' = engines /\ up' = up
        /\ commands' = commands /\ torn' = torn
    BY <1>1 DEF CreateJob, Named, Value
  <1> QED BY <1>2, JobKeeps

LEMMA UpdateJobKeeps ==
    ASSUME IInv, NEW c \in Clients, UpdateJob(c)
    PROVE  IInv'
  <1>1. PICK op, at : op = "update" /\ at = "update"
    OBVIOUS
  <1>2. /\ Doing(c, op, "jobs", at) /\ at # "done" /\ op \in {"register", "update"}
    BY <1>1 DEF UpdateJob
  <1>3. Has("jobs", Named(c))
    BY <1>1, <1>2 DEF IInv, CallOK, Doing, Has, Named
  <1>4. /\ cache' = With(cache, "jobs", calls[c].name, calls[c].value) /\ End(c, TRUE)
        /\ disk' = disk /\ secrets' = secrets /\ engines' = engines /\ up' = up
        /\ commands' = commands /\ torn' = torn
    BY <1>3 DEF UpdateJob, Named, Value
  <1> QED BY <1>2, <1>4, JobKeeps

LEMMA EvictKeeps ==
    ASSUME IInv, NEW c \in Clients, Evict(c)
    PROVE  IInv'
  <1>1. PICK t, n : t = calls[c].table /\ n = calls[c].name
    OBVIOUS
  <1>2. Doing(c, "delete", t, "evict") /\ t \in Saved /\ "evict" # "done"
    BY <1>1 DEF Evict, Doing
  <1>3. /\ Active(c) /\ calls[c].op = "delete" /\ calls[c].at = "evict" /\ StepOK(c)
        /\ CacheTyped /\ DiskTyped /\ RestTyped /\ Writes(calls[c]) = {<<t, n>>} /\ t # "jobs"
        /\ Clean(t, n) => said[<<t, n>>].is = "unsaid"
    BY <1>1, <1>2, WriterCall
  <1>4. /\ cache' = Without(cache, t, n) /\ End(c, TRUE) /\ disk' = disk
        /\ secrets' = secrets /\ engines' = engines /\ up' = up /\ commands' = commands
        /\ torn' = torn
    BY <1>1 DEF Evict, Named
  <1>5. Ended(c)
    BY <1>4 DEF End, Ended
  <1>6. /\ CallsKept(c) /\ SaidKept(t, n) /\ CallsTyped' /\ StepOK(c)'
        /\ said'[<<t, n>>] = said[<<t, n>>] \/ said'[<<t, n>>] = Outcome(calls[c])
    BY <1>1, <1>3, <1>5, EndedKeeps
  <1>7. /\ \A u \in Cached : u # t => cache'[u] = cache[u]
        /\ DOMAIN cache'[t] = DOMAIN cache[t] \ {n}
        /\ \A m \in DOMAIN cache[t] : m # n => cache'[t][m] = cache[t][m]
        /\ cache'[t] = Restrict(cache[t], DOMAIN cache[t] \ {n}) /\ DOMAIN cache' = Cached
    <2>1. t \in DOMAIN cache /\ DOMAIN cache = Cached
      BY <1>2, <1>3 DEF CacheTyped, Saved, Cached
    <2> QED BY <1>4, <2>1, WithoutEntry
  <1>8. TypeOK' /\ Types'
    <2>1. PICK E : E = DOMAIN cache[t] \ {n} /\ E \subseteq DOMAIN cache[t]
      OBVIOUS
    <2>2. \A S, T : cache[t] \in Partial(S, T) => cache'[t] \in Partial(S, T)
      BY <1>7, <2>1, PartialRestrict
    <2>3. CacheTyped'
      BY <1>2, <1>3, <1>7, <2>2 DEF CacheTyped, Cached, Saved
    <2>4. DiskTyped' /\ RestTyped'
      BY <1>3, <1>4 DEF DiskTyped, RestTyped
    <2> QED BY <1>6, <2>3, <2>4, TypesMake, PTL
  <1>9. Frame(c, t, n)
    <2>1. CacheKept(t, n) /\ DiskKept(t, n) /\ SecretsKept(t, n)
      BY <1>4, <1>7 DEF CacheKept, DiskKept, SecretsKept
    <2>2. DOMAIN cache["jobs"] \subseteq DOMAIN cache'["jobs"]
      BY <1>3, <1>7 DEF Cached
    <2>3. calls[c].op # "find"
      BY <1>3
    <2> QED BY <1>1, <1>3, <1>4, <1>6, <2>1, <2>2, <2>3 DEF Frame
  <1>10. EntryOK(t, n)'
    <2> SUFFICES ASSUME Clean(t, n)' PROVE Agree(t, n)' /\ Told(t, n)'
      BY DEF EntryOK
    <2>1. ~HasRow(t, n) /\ said[<<t, n>>].is = "unsaid"
      BY <1>1, <1>3, <1>4 DEF StepOK, Clean
    <2>2. ~Has(t, n)' /\ ~HasRow(t, n)'
      BY <1>4, <1>7, <2>1 DEF Has, HasRow
    <2>3. said'[<<t, n>>].is \in {"unsaid", "gone"}
      BY <1>3, <1>6, <2>1 DEF Outcome
    <2> QED BY <1>2, <2>2, <2>3 DEF Agree, Told
  <1>11. Owned(c, t, n)
    <2>1. ~Differs(t, n) /\ ~Makes(calls[c], n)
      BY <1>3, <1>7 DEF Differs, Makes
    <2>2. <<t, n>> \notin torn => Dependents(t, n) = {}
      BY <1>1, <1>3 DEF StepOK, Clean
    <2>3. t = "agents" =>
           /\ n \in DOMAIN cache'["agents"] /\ <<t, n>> \notin torn' =>
                  cache'["agents"][n].key \in {NoKey, secrets'[n]}
           /\ n \in DOMAIN disk'["agents"] => disk'["agents"][n].key = NoKey
      BY <1>4, <1>7 DEF IInv, NoKeyOnDisk
    <2> QED BY <1>3, <1>6, <1>10, <2>1, <2>2, <2>3 DEF Owned
  <1> QED BY <1>8, <1>9, <1>11, StepKeeps

-----------------------------------------------------------------------------
(* Commands, and the next call of one *)

\* A client that is not active has no call.
LEMMA InactiveIdle ==
    ASSUME IInv, NEW c \in Clients, ~Active(c)
    PROVE  calls[c] = Idle
  BY DEF IInv, CallOK

\* The requests that a client may make.
Allowed(c, q) ==
    \A i \in DOMAIN q :
        /\ Wanted(c, q[i]) /\ Fresh(q[i])
        /\ q[i].op = "update" => \E j \in 1..(i - 1) : Makes(q[j], q[i].name)

LEMMA CommandKeeps ==
    ASSUME IInv, NEW c \in Clients, NEW q \in Seq(CallRecord), Allowed(c, q), Command(c, q)
    PROVE  IInv'
  <1>1. CacheTyped /\ DiskTyped /\ CallsTyped /\ RestTyped
    BY TypesSplit DEF IInv
  <1>2. /\ todo'[c] = q /\ \A d \in Clients \ {c} : todo'[d] = todo[d]
        /\ todo' \in [Clients -> Seq(CallRecord)]
        /\ commands' = commands + 1 /\ commands < MaxCommands /\ ~Active(c)
        /\ cache' = cache /\ disk' = disk /\ secrets' = secrets /\ engines' = engines /\ up' = up
        /\ calls' = calls /\ said' = said /\ torn' = torn /\ faults' = faults
    BY <1>1 DEF Command, CallsTyped, store
  <1>3. commands \in Nat /\ commands' # 0 /\ commands' \in 0..MaxCommands
    BY <1>1, <1>2, RegistryConstants DEF RestTyped
  <1>4. TypeOK' /\ Types'
    <2>1. CacheTyped' /\ DiskTyped'
      BY <1>1, <1>2 DEF CacheTyped, DiskTyped
    <2>2. CallsTyped' /\ RestTyped'
      BY <1>1, <1>2, <1>3 DEF CallsTyped, RestTyped
    <2> QED BY <2>1, <2>2, TypesMake, PTL
  <1>5. \A d \in Clients : CallOK(d)' /\ TodoOK(d)' /\ StepOK(d)'
    <2> TAKE d \in Clients
    <2>1. CallOK(d) /\ TodoOK(d) /\ StepOK(d)
      BY DEF IInv
    <2>2. CallOK(d)'
      BY <1>2, <2>1 DEF CallOK, Active, Wanted
    <2>3. StepOK(d)'
      BY <1>2, <2>1 DEF StepOK, Active, Clean, Agree, Has, HasRow, Dependents
    <2>4. TodoOK(d)'
      <3>1. CASE d = c
        BY <1>2, <1>3, <3>1 DEF TodoOK, Allowed
      <3>2. CASE d # c
        BY <1>2, <1>3, <2>1, <3>2 DEF TodoOK
      <3> QED BY <3>1, <3>2
    <2> QED BY <2>2, <2>3, <2>4
  <1>6. Exclusive' /\ EntriesOK'
    <2>1. Exclusive'
      BY <1>2 DEF IInv, Exclusive, Active
    <2>2. EntriesOK'
      BY <1>2 DEF IInv, EntriesOK, EntryOK, Clean, Busy, Active, Agree, Told, Has, HasRow
    <2> QED BY <2>1, <2>2
  <1>7. KeyOfAgent' /\ Engined' /\ Served' /\ Manned' /\ NoKeyOnDisk'
    BY <1>2 DEF IInv, KeyOfAgent, Engined, Served, Manned, NoKeyOnDisk, Clean, Has
  <1> QED BY <1>4, <1>5, <1>6, <1>7 DEF IInv

\* The first of the requests is sent.
LEMMA SendKeeps ==
    ASSUME IInv, NEW c \in Clients, Send(c)
    PROVE  IInv'
  <1>1. CacheTyped /\ DiskTyped /\ CallsTyped /\ RestTyped
    BY TypesSplit DEF IInv
  <1>2. PICK q, r, t, n : q = todo[c] /\ r = Head(q) /\ t = r.table /\ n = r.name
    OBVIOUS
  <1>3. /\ q \in Seq(CallRecord) /\ q # <<>> /\ r = q[1] /\ 1 \in DOMAIN q /\ r \in CallRecord
        /\ Tail(q) \in Seq(CallRecord) /\ Len(q) \in Nat /\ DOMAIN q = 1..Len(q)
        /\ DOMAIN Tail(q) = 1..(Len(q) - 1)
        /\ \A i \in 1..(Len(q) - 1) : Tail(q)[i] = q[i + 1]
    <2>1. q \in Seq(CallRecord) /\ q # <<>>
      BY <1>1, <1>2 DEF Send, CallsTyped
    <2>2. Len(q) \in Nat /\ Len(q) # 0 /\ DOMAIN q = 1..Len(q)
      BY <2>1, EmptySeq, LenProperties
    <2>3. /\ Tail(q) \in Seq(CallRecord) /\ Len(Tail(q)) = Len(q) - 1
          /\ \A i \in 1..Len(Tail(q)) : Tail(q)[i] = q[i + 1]
          /\ Head(q) \in CallRecord
      BY <2>1, HeadTailProperties
    <2>4. Head(q) = q[1] /\ 1 \in DOMAIN q
      BY <2>2
    <2>5. DOMAIN Tail(q) = 1..Len(Tail(q))
      BY <2>3, LenProperties
    <2> QED BY <1>2, <2>1, <2>2, <2>3, <2>4, <2>5
  <1>4. /\ ~Active(c) /\ calls[c] = Idle /\ TodoOK(c) /\ Wanted(c, r) /\ Fresh(r)
        /\ Entry(r) = <<t, n>> /\ <<t, n>> \in Entries
    <2>1. ~Active(c) /\ calls[c] = Idle /\ TodoOK(c)
      BY InactiveIdle DEF Send, IInv
    <2>2. Wanted(c, r) /\ Fresh(r)
      BY <1>2, <1>3, <2>1 DEF TodoOK
    <2>3. Entry(r) = <<t, n>>
      BY <1>2 DEF Entry
    <2>4. <<t, n>> \in Entries
      BY <1>2, <2>2 DEF Wanted, Entry, Entries, JobsOf, Jobs
    <2> QED BY <2>1, <2>2, <2>3, <2>4
  <1>5. /\ calls'[c] = r /\ \A d \in Clients \ {c} : calls'[d] = calls[d]
        /\ calls' \in [Clients -> CallRecord]
        /\ todo'[c] = Tail(q) /\ \A d \in Clients \ {c} : todo'[d] = todo[d]
        /\ todo' \in [Clients -> Seq(CallRecord)]
        /\ torn' = torn \cup Met(r) /\ commands' = commands /\ faults' = faults
        /\ cache' = cache /\ disk' = disk /\ secrets' = secrets /\ engines' = engines /\ up' = up
    BY <1>1, <1>2, <1>3 DEF Send, CallsTyped, store
  <1>6. /\ DOMAIN said' = Entries
        /\ \A x \in Entries : x # <<t, n>> => said'[x] = said[x]
        /\ r.op = "find" => said'[<<t, n>>] = said[<<t, n>>]
        /\ r.op # "find" => said'[<<t, n>>].is = "unsaid"
    <2>1. PICK x : x = <<t, n>>
      OBVIOUS
    <2>2. said' = IF r.op = "find" THEN said ELSE [said EXCEPT ![x] = Unsaid]
      BY <1>2, <1>4, <2>1 DEF Send
    <2>3. Unsaid.is = "unsaid"
      BY DEF Unsaid
    <2>4. DOMAIN said = Entries /\ x \in Entries
      BY <1>1, <1>4, <2>1 DEF CallsTyped
    <2> QED BY <2>1, <2>2, <2>3, <2>4
  <1>7. /\ t \in Saved /\ r.op # "find" => Writes(r) = {<<t, n>>}
        /\ t \notin Saved \/ r.op = "find" => Writes(r) = {}
    BY <1>2, <1>4 DEF Writes, Wanted
  <1>8. /\ torn' \subseteq Entries
        /\ \A d \in Clients : Active(d) /\ Meet(calls[d], r) =>
               Writes(calls[d]) \cup Writes(r) \subseteq torn'
    <2>1. \A d \in Clients : Active(d) => Writes(calls[d]) \subseteq Entries
      BY ActiveCall
    <2>2. Writes(r) \subseteq Entries
      BY <1>4, <1>7
    <2>3. Met(r) \subseteq Entries
      BY <2>1, <2>2 DEF Met
    <2>4. \A d \in Clients : Active(d) /\ Meet(calls[d], r) =>
               Writes(calls[d]) \cup Writes(r) \subseteq Met(r)
      BY DEF Met
    <2> QED BY <1>1, <1>5, <2>3, <2>4 DEF RestTyped
  <1>9. TypeOK' /\ Types'
    <2>1. CacheTyped' /\ DiskTyped'
      BY <1>1, <1>5 DEF CacheTyped, DiskTyped
    <2>2. CallsTyped' /\ RestTyped'
      BY <1>1, <1>5, <1>6, <1>8 DEF CallsTyped, RestTyped
    <2> QED BY <2>1, <2>2, TypesMake, PTL
  <1>10. \A d \in Clients : d # c => (Active(d)' <=> Active(d))
    BY <1>5 DEF Active
  <1>11. Exclusive'
    <2> SUFFICES ASSUME NEW d \in Clients, NEW e \in Clients, d # e, Active(d)', Active(e)',
                        Meet(calls'[d], calls'[e])
                 PROVE  Writes(calls'[d]) \cup Writes(calls'[e]) \subseteq torn'
      BY DEF Exclusive
    <2>1. CASE d = c
      <3>1. Active(e) /\ calls'[e] = calls[e] /\ calls'[d] = r
        BY <1>5, <1>10, <2>1
      <3>2. Meet(calls[e], r)
        BY <3>1 DEF Meet
      <3> QED BY <1>8, <3>1, <3>2
    <2>2. CASE e = c
      <3>1. Active(d) /\ calls'[d] = calls[d] /\ calls'[e] = r
        BY <1>5, <1>10, <2>2
      <3> QED BY <1>8, <3>1
    <2>3. CASE d # c /\ e # c
      <3>1. Active(d) /\ calls'[d] = calls[d] /\ Active(e) /\ calls'[e] = calls[e]
        BY <1>5, <1>10, <2>3
      <3>2. Writes(calls[d]) \cup Writes(calls[e]) \subseteq torn
        BY <3>1 DEF IInv, Exclusive
      <3> QED BY <1>5, <3>1, <3>2
    <2> QED BY <2>1, <2>2, <2>3
  <1>12. \A u, m : <<u, m>> \in Entries => EntryOK(u, m)'
    <2> SUFFICES ASSUME NEW u, NEW m, <<u, m>> \in Entries, Clean(u, m)', ~Busy(u, m)'
                 PROVE  (u \in Saved => Agree(u, m)') /\ Told(u, m)'
      BY DEF EntryOK
    <2>1. Clean(u, m)
      BY <1>5 DEF Clean
    <2>2. ~Busy(u, m)
      <3> SUFFICES ASSUME NEW d \in Clients, Active(d), <<u, m>> \in Writes(calls[d]) PROVE FALSE
        BY DEF Busy
      <3>1. d # c
        BY <1>4
      <3> QED BY <1>5, <1>10, <3>1 DEF Busy
    <2>3. (u \in Saved => Agree(u, m)) /\ Told(u, m)
      BY <2>1, <2>2 DEF IInv, EntriesOK, EntryOK
    <2>4. Agree(u, m)' <=> Agree(u, m)
      BY <1>5 DEF Agree, Has, HasRow
    <2>5. said'[<<u, m>>] = said[<<u, m>>] \/ said'[<<u, m>>].is = "unsaid"
      <3>1. CASE <<u, m>> = <<t, n>>
        BY <1>6, <3>1
      <3>2. CASE <<u, m>> # <<t, n>>
        BY <1>6, <3>2
      <3> QED BY <3>1, <3>2
    <2> QED BY <1>5, <2>3, <2>4, <2>5 DEF Told, Has
  <1>13. \A d \in Clients : CallOK(d)'
    <2> TAKE d \in Clients
    <2>1. CASE d # c
      <3>1. CallOK(d) /\ calls'[d] = calls[d]
        BY <1>5, <2>1 DEF IInv
      <3>2. Wanted(d, calls[d])' <=> Wanted(d, calls[d])
        BY <3>1 DEF Wanted
      <3>3. Active(d) => Entry(calls[d]) \in Entries
        BY ActiveCall
      <3>4. Active(d) /\ said[Entry(calls[d])].is = "unsaid" =>
                said'[Entry(calls[d])].is = "unsaid"
        BY <1>6, <3>3
      <3>5. Active(d)' <=> Active(d)
        BY <1>10, <2>1
      <3> QED BY <1>5, <3>1, <3>2, <3>4, <3>5 DEF CallOK
    <2>2. CASE d = c
      <3>1. r.op = "update" => r.name \in DOMAIN cache.jobs
        <4>1. r.op = "update" => \/ r.name \in DOMAIN cache.jobs
                                 \/ Makes(Idle, r.name)
          BY <1>2, <1>3, <1>4 DEF TodoOK
        <4>2. ~Makes(Idle, r.name)
          BY IdleFields DEF Makes
        <4> QED BY <4>1, <4>2
      <3>2. r.table = "jobs" => said'[Entry(r)].is = "unsaid"
        BY <1>4, <1>6 DEF Wanted, Saved
      <3>3. Wanted(c, calls[c])' /\ calls'[c].at # "done"
        BY <1>4, <1>5 DEF Wanted, Fresh
      <3> QED BY <1>5, <2>2, <3>1, <3>2, <3>3 DEF CallOK, Active
    <2> QED BY <2>1, <2>2
  <1>14. \A d \in Clients : TodoOK(d)'
    <2> TAKE d \in Clients
    <2>1. CASE d # c
      <3>1. TodoOK(d) /\ calls'[d] = calls[d] /\ todo'[d] = todo[d]
        BY <1>5, <2>1 DEF IInv
      <3> QED BY <1>5, <3>1 DEF TodoOK, Active
    <2>2. CASE d = c
      <3>1. commands' # 0
        BY <1>2, <1>3, <1>4, <1>5 DEF TodoOK
      <3>2. ASSUME NEW i \in 1..(Len(q) - 1)
            PROVE  /\ Wanted(c, Tail(q)[i]) /\ Fresh(Tail(q)[i])
                   /\ Tail(q)[i].op = "update" =>
                          \/ Tail(q)[i].name \in DOMAIN cache.jobs
                          \/ Makes(r, Tail(q)[i].name)
                          \/ \E j \in 1..(i - 1) : Makes(Tail(q)[j], Tail(q)[i].name)
        <4>1. i + 1 \in DOMAIN q /\ Tail(q)[i] = q[i + 1] /\ (i + 1) - 1 = i
          BY <1>3
        <4>2. PICK s : s = q[i + 1]
          OBVIOUS
        <4>3. /\ Wanted(c, s) /\ Fresh(s)
              /\ s.op = "update" =>
                     \/ s.name \in DOMAIN cache.jobs
                     \/ Makes(Idle, s.name)
                     \/ \E j \in 1..i : Makes(q[j], s.name)
          BY <1>2, <1>4, <4>1, <4>2 DEF TodoOK
        <4>4. ~Makes(Idle, s.name)
          BY IdleFields DEF Makes
        <4>5. ASSUME NEW j \in 1..i, Makes(q[j], s.name)
              PROVE  Makes(r, s.name) \/ \E k \in 1..(i - 1) : Makes(Tail(q)[k], s.name)
          <5>1. CASE j = 1
            BY <1>3, <4>5, <5>1
          <5>2. CASE j # 1
            <6>1. j - 1 \in 1..(i - 1) /\ j - 1 \in 1..(Len(q) - 1) /\ (j - 1) + 1 = j
              BY <1>3, <5>2
            <6>2. Tail(q)[j - 1] = q[j]
              BY <1>3, <6>1
            <6> QED BY <4>5, <6>1, <6>2
          <5> QED BY <5>1, <5>2
        <4> QED BY <4>1, <4>2, <4>3, <4>4, <4>5
      <3> QED BY <1>3, <1>5, <2>2, <3>1, <3>2 DEF TodoOK
    <2> QED BY <2>1, <2>2
  <1>15. \A d \in Clients : StepOK(d)'
    <2> TAKE d \in Clients
    <2>1. /\ \A u, m : Agree(u, m)' <=> Agree(u, m)
          /\ \A u, m : (Has(u, m)' <=> Has(u, m)) /\ (HasRow(u, m)' <=> HasRow(u, m))
          /\ \A u, m : Dependents(u, m)' = Dependents(u, m)
          /\ \A u, m : Clean(u, m)' => Clean(u, m)
      BY <1>5 DEF Agree, Has, HasRow, Dependents, Clean
    <2>2. CASE d # c
      <3>1. StepOK(d) /\ calls'[d] = calls[d] /\ (Active(d)' <=> Active(d))
        BY <1>5, <1>10, <2>2 DEF IInv
      <3>2. PICK u, m : u = calls[d].table /\ m = calls[d].name
        OBVIOUS
      <3>3. Active(d) => <<u, m>> \in Entries
        BY <3>2, ActiveCall DEF Entry
      <3>4. Active(d) /\ said[<<u, m>>].is = "unsaid" => said'[<<u, m>>].is = "unsaid"
        BY <1>6, <3>3
      <3> QED BY <1>5, <2>1, <3>1, <3>2, <3>4 DEF StepOK
    <2>3. CASE d = c
      <3> SUFFICES ASSUME Writes(r) # {}, Clean(t, n)'
                   PROVE  StepOK(c)'
        BY <1>2, <1>5, <2>3 DEF StepOK
      <3>1. t \in Saved /\ r.op # "find" /\ Writes(r) = {<<t, n>>}
        BY <1>7
      <3>2. ~Busy(t, n)
        <4> SUFFICES ASSUME NEW e \in Clients, Active(e), <<t, n>> \in Writes(calls[e])
                     PROVE  FALSE
          BY DEF Busy
        <4>1. Meet(calls[e], r)
          BY <3>1 DEF Meet
        <4> QED BY <1>8, <4>1 DEF Clean
      <3>3. Agree(t, n)
        BY <1>4, <2>1, <3>1, <3>2 DEF IInv, EntriesOK, EntryOK
      <3>4. /\ r.op = "register" /\ t \in {"models", "agents"} => r.at = "validate"
            /\ r.op = "register" /\ t = "mcp" => r.at = "save"
            /\ r.op = "delete" => r.at = "lookup"
        BY <1>2, <1>4 DEF Fresh
      <3>5. said'[<<t, n>>].is = "unsaid"
        BY <1>6, <3>1
      <3> QED BY <1>2, <1>5, <2>1, <3>1, <3>3, <3>4, <3>5 DEF StepOK
    <2> QED BY <2>2, <2>3
  <1>16. KeyOfAgent' /\ Engined' /\ Served' /\ Manned' /\ NoKeyOnDisk'
    BY <1>5 DEF IInv, KeyOfAgent, Engined, Served, Manned, NoKeyOnDisk, Clean, Has
  <1> QED BY <1>9, <1>11, <1>12, <1>13, <1>14, <1>15, <1>16 DEF IInv, EntriesOK

\* A finite set as a sequence.
LEMMA SetAsSeq ==
    ASSUME NEW S, IsFiniteSet(S)
    PROVE  SetToSeq(S) \in Seq(S)
  <1>1. PICK k \in Nat : k = Cardinality(S) /\ ExistsBijection(1..k, S)
    BY FS_CardinalityType
  <1>2. PICK f \in Bijection(1..k, S) : TRUE
    BY <1>1 DEF ExistsBijection
  <1>3. f \in [1..k -> S] /\ IsInjective(f)
    BY <1>2 DEF Bijection, Injection, IsInjective
  <1>4. SetToSeq(S) \in [1..k -> S]
    BY <1>1, <1>3 DEF SetToSeq
  <1> QED BY <1>1, <1>4, SeqDef

\* Requests without the update of a job.
Plain(c, q) == /\ q \in Seq(CallRecord)
               /\ \A i \in DOMAIN q : Wanted(c, q[i]) /\ Fresh(q[i]) /\ q[i].op # "update"

LEMMA PlainAllowed == ASSUME NEW c, NEW q, Plain(c, q) PROVE q \in Seq(CallRecord) /\ Allowed(c, q)
  BY DEF Plain, Allowed

LEMMA PlainOne ==
    ASSUME NEW c, NEW r \in CallRecord, Wanted(c, r), Fresh(r), r.op # "update"
    PROVE  Plain(c, <<r>>)
  BY DEF Plain

LEMMA PlainConcat ==
    ASSUME NEW c, NEW q, NEW r, Plain(c, q), Plain(c, r)
    PROVE  Plain(c, q \o r)
  <1>1. /\ q \in Seq(CallRecord) /\ r \in Seq(CallRecord) /\ Len(q) \in Nat /\ Len(r) \in Nat
        /\ DOMAIN q = 1..Len(q) /\ DOMAIN r = 1..Len(r)
    BY LenProperties DEF Plain
  <1>2. PICK s : s = q \o r
    OBVIOUS
  <1>3. /\ s \in Seq(CallRecord) /\ Len(s) = Len(q) + Len(r)
        /\ \A i \in 1..Len(q) + Len(r) : s[i] = IF i <= Len(q) THEN q[i] ELSE r[i - Len(q)]
    BY <1>1, <1>2, ConcatProperties
  <1>4. DOMAIN s = 1..Len(q) + Len(r)
    BY <1>3, LenProperties
  <1>5. ASSUME NEW i \in DOMAIN s
        PROVE  Wanted(c, s[i]) /\ Fresh(s[i]) /\ s[i].op # "update"
    <2>1. CASE i <= Len(q)
      <3>1. s[i] = q[i] /\ i \in DOMAIN q
        BY <1>1, <1>3, <1>4, <2>1
      <3> QED BY <3>1 DEF Plain
    <2>2. CASE ~(i <= Len(q))
      <3>1. s[i] = r[i - Len(q)] /\ i - Len(q) \in DOMAIN r
        BY <1>1, <1>3, <1>4, <2>2
      <3> QED BY <3>1 DEF Plain
    <2> QED BY <2>1, <2>2
  <1> QED BY <1>2, <1>3, <1>5 DEF Plain

\* The requests one by one.
LEMMA Requests ==
    ASSUME NEW c
    PROVE  /\ \A m \in Models, d \in ModelDefs : Plain(c, <<RegisterModelRequest(m, d)>>)
           /\ \A m \in Models : Plain(c, <<DeleteModelRequest(m)>>)
           /\ \A a \in Agents, k \in Configs : Plain(c, <<RegisterAgentRequest(a, k)>>)
           /\ \A a \in Agents : Plain(c, <<DeleteAgentRequest(a)>>)
           /\ \A a \in Agents : Plain(c, <<GetAgentRequest(a)>>)
           /\ \A s \in Servers : Plain(c, <<RegisterMcpServerRequest(s)>>)
           /\ \A s \in Servers : Plain(c, <<DeleteMcpServerRequest(s)>>)
           /\ \A f \in Fleets : Plain(c, <<RegisterFleetRequest(f)>>)
  <1>1. ASSUME NEW m \in Models, NEW d \in ModelDefs PROVE Plain(c, <<RegisterModelRequest(m, d)>>)
    <2>1. PICK r : r = RegisterModelRequest(m, d)
      OBVIOUS
    <2>2. /\ r.op = "register" /\ r.table = "models" /\ r.name = m /\ r.value = d
          /\ r.at = "validate" /\ r.key = NoKey /\ r \in CallRecord
      BY <2>1 DEF Request, CallRecord, Keys, RegisterModelRequest, Cached, Names, Values
    <2> QED BY <2>1, <2>2, PlainOne DEF Wanted, Fresh
  <1>2. ASSUME NEW m \in Models PROVE Plain(c, <<DeleteModelRequest(m)>>)
    <2>1. PICK r : r = DeleteModelRequest(m)
      OBVIOUS
    <2>2. /\ r.op = "delete" /\ r.table = "models" /\ r.name = m
          /\ r.at = "lookup" /\ r.key = NoKey /\ r \in CallRecord
      BY <2>1 DEF Request, CallRecord, Keys, DeleteModelRequest, Cached, Names, Values
    <2> QED BY <2>1, <2>2, PlainOne DEF Wanted, Fresh, Entry, Entries, Saved
  <1>3. ASSUME NEW a \in Agents, NEW k \in Configs PROVE Plain(c, <<RegisterAgentRequest(a, k)>>)
    <2>1. PICK r : r = RegisterAgentRequest(a, k)
      OBVIOUS
    <2>2. r = Request("register", "agents", a, k, "validate")
      BY <2>1 DEF RegisterAgentRequest, AgentOnWire
    <2>3. /\ r.op = "register" /\ r.table = "agents" /\ r.name = a /\ r.value = k
          /\ r.at = "validate" /\ r.key = NoKey /\ r \in CallRecord
      BY <2>2 DEF Request, CallRecord, Keys, Cached, Names, Values
    <2> QED BY <2>1, <2>3, PlainOne DEF Wanted, Fresh
  <1>4. ASSUME NEW a \in Agents PROVE Plain(c, <<DeleteAgentRequest(a)>>)
    <2>1. PICK r : r = DeleteAgentRequest(a)
      OBVIOUS
    <2>2. /\ r.op = "delete" /\ r.table = "agents" /\ r.name = a
          /\ r.at = "lookup" /\ r.key = NoKey /\ r \in CallRecord
      BY <2>1 DEF Request, CallRecord, Keys, DeleteAgentRequest, Cached, Names, Values
    <2> QED BY <2>1, <2>2, PlainOne DEF Wanted, Fresh, Entry, Entries, Saved
  <1>5. ASSUME NEW a \in Agents PROVE Plain(c, <<GetAgentRequest(a)>>)
    <2>1. PICK r : r = GetAgentRequest(a)
      OBVIOUS
    <2>2. /\ r.op = "find" /\ r.table = "agents" /\ r.name = a
          /\ r.at = "find" /\ r.key = NoKey /\ r \in CallRecord
      BY <2>1 DEF Request, CallRecord, Keys, GetAgentRequest, Cached, Names, Values
    <2> QED BY <2>1, <2>2, PlainOne DEF Wanted, Fresh
  <1>6. ASSUME NEW s \in Servers PROVE Plain(c, <<RegisterMcpServerRequest(s)>>)
    <2>1. PICK r : r = RegisterMcpServerRequest(s)
      OBVIOUS
    <2>2. /\ r.op = "register" /\ r.table = "mcp" /\ r.name = s /\ r.value = 1
          /\ r.at = "save" /\ r.key = NoKey /\ r \in CallRecord
      BY <2>1 DEF Request, CallRecord, Keys, RegisterMcpServerRequest, Cached, Names, Values
    <2> QED BY <2>1, <2>2, PlainOne DEF Wanted, Fresh
  <1>7. ASSUME NEW s \in Servers PROVE Plain(c, <<DeleteMcpServerRequest(s)>>)
    <2>1. PICK r : r = DeleteMcpServerRequest(s)
      OBVIOUS
    <2>2. /\ r.op = "delete" /\ r.table = "mcp" /\ r.name = s
          /\ r.at = "lookup" /\ r.key = NoKey /\ r \in CallRecord
      BY <2>1 DEF Request, CallRecord, Keys, DeleteMcpServerRequest, Cached, Names, Values
    <2> QED BY <2>1, <2>2, PlainOne DEF Wanted, Fresh, Entry, Entries, Saved
  <1>8. ASSUME NEW f \in Fleets PROVE Plain(c, <<RegisterFleetRequest(f)>>)
    <2>1. PICK r : r = RegisterFleetRequest(f)
      OBVIOUS
    <2>2. /\ r.op = "register" /\ r.table = "fleets" /\ r.name = "fleet" /\ r.value = f
          /\ r.at = "validate" /\ r.key = NoKey /\ r \in CallRecord
      BY <2>1 DEF Request, CallRecord, Keys, RegisterFleetRequest, Cached, Names, Values
    <2> QED BY <2>1, <2>2, PlainOne DEF Wanted, Fresh
  <1> QED BY <1>1, <1>2, <1>3, <1>4, <1>5, <1>6, <1>7, <1>8

\* A sequence of such requests.
LEMMA PlainEach ==
    ASSUME NEW c, NEW k \in Nat, NEW q, q = [i \in 1..k |-> q[i]],
           \A i \in 1..k : Plain(c, <<q[i]>>)
    PROVE  Plain(c, q)
  <1>1. ASSUME NEW i \in 1..k
        PROVE  q[i] \in CallRecord /\ Wanted(c, q[i]) /\ Fresh(q[i]) /\ q[i].op # "update"
    <2>1. PICK r : r = q[i]
      OBVIOUS
    <2>2. Plain(c, <<r>>) /\ 1 \in DOMAIN <<r>> /\ <<r>>[1] = r
      BY <2>1
    <2>3. <<r>>[1] \in CallRecord
      BY <2>2, SeqElement DEF Plain
    <2> QED BY <2>1, <2>2, <2>3 DEF Plain
  <1>2. q \in [1..k -> CallRecord] /\ DOMAIN q = 1..k
    BY <1>1
  <1>3. q \in Seq(CallRecord)
    BY <1>2, SeqDef
  <1> QED BY <1>1, <1>2, <1>3 DEF Plain

LEMMA ModelRequestsPlain ==
    ASSUME NEW c, NEW files \in Files
    PROVE  Plain(c, ModelRequests(files))
  <1>1. PICK ms \in SUBSET Models : IsFiniteSet(ms) /\ files \in [ms -> ModelDefs]
    BY DEF Files
  <1>2. IsFiniteSet(DOMAIN files)
    BY <1>1
  <1>3. PICK names : names = SetToSeq(DOMAIN files)
    OBVIOUS
  <1>4. names \in Seq(ms)
    BY <1>1, <1>2, <1>3, SetAsSeq
  <1>5. PICK k \in Nat : k = Len(names) /\ DOMAIN names = 1..k /\ \A i \in 1..k : names[i] \in ms
    BY <1>4, SeqElement
  <1>6. PICK q : q = ModelRequests(files)
    OBVIOUS
  <1>7. q = [i \in 1..k |-> RegisterModelRequest(names[i], files[names[i]])]
    BY <1>3, <1>5, <1>6 DEF ModelRequests
  <1>8. \A i \in 1..k : Plain(c, <<q[i]>>)
    BY <1>1, <1>5, <1>7, Requests
  <1> QED BY <1>6, <1>7, <1>8, PlainEach

LEMMA AgentRequestsPlain ==
    ASSUME NEW c, NEW f \in Fleets, NEW config \in [f -> Configs]
    PROVE  /\ Plain(c, AgentRequests(SetToSeq(f), config))
           /\ Plain(c, FleetFromManifest(SetToSeq(f)))
  <1>1. f \subseteq Agents /\ IsFiniteSet(f)
    BY RegistryConstants
  <1>2. PICK agents : agents = SetToSeq(f) /\ agents \in Seq(f)
    BY <1>1, SetAsSeq
  <1>3. PICK k \in Nat : k = Len(agents) /\ DOMAIN agents = 1..k /\ \A i \in 1..k : agents[i] \in f
    BY <1>2, SeqElement
  <1>4. Plain(c, FleetFromManifest(agents))
    <2>1. PICK q : q = FleetFromManifest(agents)
      OBVIOUS
    <2>2. q = [i \in 1..k |-> GetAgentRequest(agents[i])]
      BY <1>3, <2>1 DEF FleetFromManifest
    <2>3. \A i \in 1..k : Plain(c, <<q[i]>>)
      BY <1>1, <1>3, <2>2, Requests
    <2> QED BY <2>1, <2>2, <2>3, PlainEach
  <1>5. Plain(c, AgentRequests(agents, config))
    <2>1. PICK q : q = AgentRequests(agents, config)
      OBVIOUS
    <2>2. q = [i \in 1..(2 * k) |->
                  IF i % 2 = 1 THEN RegisterAgentRequest(agents[(i + 1) \div 2],
                                                         config[agents[(i + 1) \div 2]])
                  ELSE GetAgentRequest(agents[(i + 1) \div 2])]
      BY <1>3, <2>1 DEF AgentRequests
    <2>3. ASSUME NEW i \in 1..(2 * k)
          PROVE  Plain(c, <<q[i]>>)
      <3>1. PICK a : a = agents[(i + 1) \div 2]
        OBVIOUS
      <3>2. (i + 1) \div 2 \in 1..k
        BY <1>3
      <3>3. a \in f /\ config[a] \in Configs /\ a \in Agents
        BY <1>1, <1>3, <3>1, <3>2
      <3>4. q[i] = RegisterAgentRequest(a, config[a]) \/ q[i] = GetAgentRequest(a)
        BY <2>2, <3>1
      <3> QED BY <3>3, <3>4, Requests
    <2>4. 2 * k \in Nat /\ q = [i \in 1..(2 * k) |-> q[i]]
      BY <1>3, <2>2
    <2> QED BY <2>1, <2>3, <2>4, PlainEach
  <1> QED BY <1>2, <1>4, <1>5

LEMMA PlainCommand ==
    ASSUME IInv, NEW c \in Clients, NEW q, Plain(c, q), Command(c, q)
    PROVE  IInv'
  BY PlainAllowed, CommandKeeps

LEMMA DeployFleetKeeps ==
    ASSUME IInv, NEW c \in Clients, DeployFleet(c)
    PROVE  IInv'
  <1>1. PICK files \in Files, f \in Fleets : \E config \in [f -> Configs] :
            Command(c, ModelRequests(files) \o AgentRequests(SetToSeq(f), config)
                           \o FleetFromManifest(SetToSeq(f)) \o <<RegisterFleetRequest(f)>>)
    BY DEF DeployFleet
  <1>2. PICK config \in [f -> Configs] :
            Command(c, ModelRequests(files) \o AgentRequests(SetToSeq(f), config)
                           \o FleetFromManifest(SetToSeq(f)) \o <<RegisterFleetRequest(f)>>)
    BY <1>1
  <1>3. PICK q1, q2, q3, q4 :
            /\ q1 = ModelRequests(files) /\ q2 = AgentRequests(SetToSeq(f), config)
            /\ q3 = FleetFromManifest(SetToSeq(f)) /\ q4 = <<RegisterFleetRequest(f)>>
    OBVIOUS
  <1>4. Plain(c, q1) /\ Plain(c, q2) /\ Plain(c, q3) /\ Plain(c, q4)
    BY <1>3, ModelRequestsPlain, AgentRequestsPlain, Requests
  <1>5. Plain(c, q1 \o q2 \o q3 \o q4)
    <2>1. Plain(c, q1 \o q2)
      BY <1>4, PlainConcat
    <2>2. Plain(c, (q1 \o q2) \o q3)
      BY <1>4, <2>1, PlainConcat
    <2> QED BY <1>4, <2>2, PlainConcat
  <1>6. Command(c, q1 \o q2 \o q3 \o q4)
    BY <1>2, <1>3
  <1> QED BY <1>5, <1>6, PlainCommand

LEMMA RunJobKeeps ==
    ASSUME IInv, NEW c \in Clients, RunJob(c)
    PROVE  IInv'
  <1>1. PICK id, r1, r2, r3 :
            /\ id = <<c, commands + 1>> /\ r1 = CreateJobRequest(id)
            /\ r2 = UpdateJobRequest(id, "running") /\ r3 = UpdateJobRequest(id, "completed")
    OBVIOUS
  <1>2. PICK q : q = <<r1, r2, r3>>
    OBVIOUS
  <1>3. Command(c, q)
    BY <1>1, <1>2 DEF RunJob
  <1>4. id \in JobsOf(c) /\ id \in Names
    <2>1. commands \in 0..MaxCommands /\ commands < MaxCommands
      BY <1>3, TypesSplit DEF IInv, RestTyped, Command
    <2>2. commands + 1 \in 1..MaxCommands
      BY <2>1, RegistryConstants
    <2> QED BY <1>1, <2>2 DEF JobsOf, Names, Jobs
  <1>5. /\ r1.op = "register" /\ r1.table = "jobs" /\ r1.name = id /\ r1.value = "pending"
        /\ r1.at = "insert" /\ r1.key = NoKey /\ r1 \in CallRecord
    BY <1>1, <1>4 DEF CreateJobRequest, Request, CallRecord, Keys, Cached, Values
  <1>6. /\ r2.op = "update" /\ r2.table = "jobs" /\ r2.name = id /\ r2.value = "running"
        /\ r2.at = "update" /\ r2.key = NoKey /\ r2 \in CallRecord
    BY <1>1, <1>4 DEF UpdateJobRequest, Request, CallRecord, Keys, Cached, Values
  <1>7. /\ r3.op = "update" /\ r3.table = "jobs" /\ r3.name = id /\ r3.value = "completed"
        /\ r3.at = "update" /\ r3.key = NoKey /\ r3 \in CallRecord
    BY <1>1, <1>4 DEF UpdateJobRequest, Request, CallRecord, Keys, Cached, Values
  <1>8. Wanted(c, r1) /\ Fresh(r1) /\ Wanted(c, r2) /\ Fresh(r2) /\ Wanted(c, r3) /\ Fresh(r3)
    BY <1>4, <1>5, <1>6, <1>7 DEF Wanted, Fresh
  <1>9. Makes(r1, id) /\ r1.op # "update"
    BY <1>5 DEF Makes
  <1>10. q \in Seq(CallRecord) /\ q[1] = r1 /\ q[2] = r2 /\ q[3] = r3 /\ DOMAIN q = 1..3
    BY <1>2, <1>5, <1>6, <1>7
  <1>11. Allowed(c, q)
    <2> SUFFICES ASSUME NEW i \in 1..3
                 PROVE  /\ Wanted(c, q[i]) /\ Fresh(q[i])
                        /\ q[i].op = "update" => \E j \in 1..(i - 1) : Makes(q[j], q[i].name)
      BY <1>10 DEF Allowed
    <2>1. CASE i = 1
      BY <1>8, <1>9, <1>10, <2>1
    <2>2. CASE i = 2
      <3>1. 1 \in 1..(i - 1) /\ Makes(q[1], q[i].name)
        BY <1>6, <1>9, <1>10, <2>2
      <3> QED BY <1>8, <1>10, <2>2, <3>1
    <2>3. CASE i = 3
      <3>1. 1 \in 1..(i - 1) /\ Makes(q[1], q[i].name)
        BY <1>7, <1>9, <1>10, <2>3
      <3> QED BY <1>8, <1>10, <2>3, <3>1
    <2> QED BY <2>1, <2>2, <2>3
  <1> QED BY <1>3, <1>10, <1>11, CommandKeeps

LEMMA AskKeeps ==
    ASSUME IInv, NEW c \in Clients, Ask(c)
    PROVE  IInv'
  <1>1. CASE AddModels(c)
    <2>1. PICK files \in Files : Command(c, ModelRequests(files))
      BY <1>1 DEF AddModels
    <2> QED BY <2>1, ModelRequestsPlain, PlainCommand
  <1>2. CASE RemoveModel(c)
    BY <1>2, Requests, PlainCommand DEF RemoveModel
  <1>3. CASE AddMcpServer(c)
    BY <1>3, Requests, PlainCommand DEF AddMcpServer
  <1>4. CASE RemoveMcpServer(c)
    BY <1>4, Requests, PlainCommand DEF RemoveMcpServer
  <1>5. CASE DeployAgent(c)
    BY <1>5, Requests, PlainCommand DEF DeployAgent
  <1>6. CASE DeleteAgent(c)
    BY <1>6, Requests, PlainCommand DEF DeleteAgent
  <1> QED BY <1>1, <1>2, <1>3, <1>4, <1>5, <1>6, DeployFleetKeeps, RunJobKeeps DEF Ask

-----------------------------------------------------------------------------
(* Restart *)

\* A row gives back the agent that was saved.
LEMMA LoadedTables ==
    ASSUME DiskTyped, NEW new, new = Loaded
    PROVE  /\ DOMAIN new = Cached
           /\ \A t \in Saved : DOMAIN new[t] = DOMAIN disk[t]
           /\ \A n \in DOMAIN disk["models"] : new["models"][n] = disk["models"][n]
           /\ \A n \in DOMAIN disk["mcp"] : new["mcp"][n] = disk["mcp"][n]
           /\ \A n \in DOMAIN disk["agents"] :
                 /\ new["agents"][n].config = disk["agents"][n].config
                 /\ new["agents"][n].key = disk["agents"][n].key
           /\ new["models"] \in Partial(Models, ModelDefs)
           /\ new["agents"] \in Partial(Agents, Agent)
           /\ new["mcp"] \in Partial(Servers, {1})
           /\ new["fleets"] = Empty /\ new["jobs"] = Empty
  <1>1. /\ DOMAIN new = Cached /\ new["models"] = disk["models"] /\ new["mcp"] = disk["mcp"]
        /\ new["fleets"] = Empty /\ new["jobs"] = Empty
        /\ new["agents"] = [a \in DOMAIN disk["agents"] |-> AgentOfRow(disk["agents"][a])]
    BY DEF Loaded, Cached
  <1>2. \A n \in DOMAIN disk["agents"] :
            /\ new["agents"][n] = AgentOfRow(disk["agents"][n])
            /\ disk["agents"][n] \in Agent /\ n \in Agents
    BY <1>1, PartialElement DEF DiskTyped
  <1>3. \A n \in DOMAIN disk["agents"] :
            /\ new["agents"][n].config = disk["agents"][n].config
            /\ new["agents"][n].key = disk["agents"][n].key
            /\ new["agents"][n] \in Agent
    BY <1>2 DEF AgentOfRow, Agent
  <1>4. new["agents"] \in Partial(Agents, Agent)
    <2>1. PICK D : D = DOMAIN disk["agents"] /\ D \in SUBSET Agents
      BY <1>2
    <2>2. new["agents"] \in [D -> Agent]
      BY <1>1, <1>3, <2>1
    <2> QED BY <2>1, <2>2 DEF Partial
  <1>5. new["models"] \in Partial(Models, ModelDefs) /\ new["mcp"] \in Partial(Servers, {1})
    BY <1>1 DEF DiskTyped
  <1>6. \A t \in Saved : DOMAIN new[t] = DOMAIN disk[t]
    BY <1>1 DEF Saved
  <1> QED BY <1>1, <1>3, <1>4, <1>5, <1>6

LEMMA RestartKeeps ==
    ASSUME IInv, NEW e \in SUBSET Engines, Restart(e)
    PROVE  IInv'
  <1>1. CacheTyped /\ DiskTyped /\ CallsTyped /\ RestTyped
    BY TypesSplit DEF IInv
  <1>2. /\ \A c \in Clients : calls'[c] = Idle /\ todo'[c] = <<>> /\ ~Active(c)'
        /\ calls' \in [Clients -> CallRecord] /\ todo' \in [Clients -> Seq(CallRecord)]
        /\ commands' = commands /\ disk' = disk /\ secrets' = secrets /\ engines' = e
        /\ faults' \in 0..MaxFaults
    <2>1. /\ calls' = [c \in Clients |-> Idle] /\ todo' = [c \in Clients |-> <<>>]
          /\ commands' = commands /\ disk' = disk /\ secrets' = secrets /\ engines' = e
          /\ faults < MaxFaults /\ faults' = faults + 1
      BY DEF Restart
    <2>2. faults' \in 0..MaxFaults
      BY <1>1, <2>1, RegistryConstants DEF CallsTyped
    <2>3. PICK q : q = <<>> /\ q \in Seq(CallRecord)
      BY EmptySeq
    <2>4. \A c \in Clients : calls'[c] = Idle /\ ~Active(c)'
      BY <2>1, IdleFields DEF Active
    <2> QED BY <2>1, <2>2, <2>3, <2>4, IdleRecord
  <1>3. /\ torn \subseteq torn' /\ torn' \subseteq Entries
        /\ \A c \in Clients : Active(c) => Writes(calls[c]) \subseteq torn'
    <2>1. torn' = torn \cup UNION {Writes(calls[c]) : c \in {d \in Clients : Active(d)}}
      BY DEF Restart
    <2>2. \A c \in Clients : Active(c) => Writes(calls[c]) \subseteq Entries
      BY ActiveCall
    <2> QED BY <1>1, <2>1, <2>2 DEF RestTyped
  <1>4. /\ DOMAIN said' = Entries
        /\ \A t, n : <<t, n>> \in Entries =>
               /\ t \in Saved => said'[<<t, n>>] = said[<<t, n>>]
               /\ t \notin Saved => said'[<<t, n>>].is = "unsaid"
    <2>1. said' = [x \in Entries |-> IF x[1] \in Saved THEN said[x] ELSE Unsaid]
      BY <1>1 DEF Restart, CallsTyped
    <2>2. ASSUME NEW t, NEW n, <<t, n>> \in Entries
          PROVE  said'[<<t, n>>] = IF t \in Saved THEN said[<<t, n>>] ELSE Unsaid
      <3>1. <<t, n>>[1] = t
        OBVIOUS
      <3>2. PICK x : x = <<t, n>>
        OBVIOUS
      <3> QED BY <2>1, <2>2, <3>1, <3>2
    <2>3. Unsaid.is = "unsaid"
      BY DEF Unsaid
    <2> QED BY <2>1, <2>2, <2>3
  <1>5. PICK new : new = Loaded
    OBVIOUS
  <1>6. cache' = new
    BY <1>5 DEF Restart
  <1>7. /\ DOMAIN new = Cached
        /\ \A t \in Saved : DOMAIN new[t] = DOMAIN disk[t]
        /\ \A n \in DOMAIN disk["models"] : new["models"][n] = disk["models"][n]
        /\ \A n \in DOMAIN disk["mcp"] : new["mcp"][n] = disk["mcp"][n]
        /\ \A n \in DOMAIN disk["agents"] :
              /\ new["agents"][n].config = disk["agents"][n].config
              /\ new["agents"][n].key = disk["agents"][n].key
        /\ new["models"] \in Partial(Models, ModelDefs)
        /\ new["agents"] \in Partial(Agents, Agent)
        /\ new["mcp"] \in Partial(Servers, {1})
        /\ new["fleets"] = Empty /\ new["jobs"] = Empty
    BY <1>1, <1>5, LoadedTables
  <1>8. TypeOK' /\ Types'
    <2>1. CacheTyped'
      <3>1. Empty \in Partial({"fleet"}, Fleets)
        BY PartialEmpty
      <3>2. DOMAIN Empty = {}
        BY DEF Empty
      <3> QED BY <1>6, <1>7, <3>1, <3>2 DEF CacheTyped
    <2>2. DiskTyped' /\ CallsTyped'
      BY <1>1, <1>2, <1>4 DEF DiskTyped, CallsTyped
    <2>3. RestTyped'
      <3>1. up' \in BOOLEAN
        BY DEF Restart
      <3> QED BY <1>1, <1>2, <1>3, <3>1 DEF RestTyped
    <2> QED BY <2>1, <2>2, <2>3, TypesMake, PTL
  <1>9. \A c \in Clients : CallOK(c)' /\ TodoOK(c)' /\ StepOK(c)'
    <2> TAKE c \in Clients
    <2>1. calls'[c].op # "update"
      BY <1>2, IdleFields
    <2> QED BY <1>2, <2>1 DEF CallOK, TodoOK, StepOK
  <1>10. Exclusive'
    BY <1>2 DEF Exclusive
  \* An entry that no call writes, and that is not torn, is on disk as it was in the cache.
  <1>11. ASSUME NEW t \in Saved, NEW n, <<t, n>> \in Entries, Clean(t, n)'
         PROVE  Clean(t, n) /\ Agree(t, n) /\ Told(t, n)
    <2>1. Clean(t, n)
      BY <1>3, <1>11 DEF Clean
    <2>2. ~Busy(t, n)
      BY <1>3, <1>11 DEF Clean, Busy
    <2> QED BY <1>11, <2>1, <2>2 DEF IInv, EntriesOK, EntryOK
  <1>12. ASSUME NEW t \in Saved, NEW n
         PROVE  /\ Has(t, n)' <=> HasRow(t, n)
                /\ HasRow(t, n) => Config(t, cache'[t][n]) = Config(t, disk[t][n])
    <2>1. Has(t, n)' <=> HasRow(t, n)
      BY <1>6, <1>7 DEF Has, HasRow
    <2>2. HasRow(t, n) => Config(t, cache'[t][n]) = Config(t, disk[t][n])
      <3>1. CASE t = "agents"
        BY <1>6, <1>7, <3>1 DEF Config, AgentOnWire, HasRow
      <3>2. CASE t # "agents"
        BY <1>6, <1>7, <3>2 DEF Saved, HasRow, Config
      <3> QED BY <3>1, <3>2
    <2> QED BY <2>1, <2>2
  <1>13. EntriesOK'
    <2> SUFFICES ASSUME NEW t, NEW n, <<t, n>> \in Entries, Clean(t, n)'
                 PROVE  (t \in Saved => Agree(t, n)') /\ Told(t, n)'
      BY DEF EntriesOK, EntryOK
    <2>1. CASE t \notin Saved
      BY <1>4, <2>1 DEF Told
    <2>2. CASE t \in Saved
      <3>1. Agree(t, n) /\ Told(t, n) /\ said'[<<t, n>>] = said[<<t, n>>]
        BY <1>4, <1>11, <2>2
      <3>2. /\ Has(t, n)' <=> HasRow(t, n)
            /\ HasRow(t, n) => Config(t, cache'[t][n]) = Config(t, disk[t][n])
            /\ HasRow(t, n)' <=> HasRow(t, n)
            /\ disk' = disk
        BY <1>2, <1>12, <2>2 DEF HasRow
      <3>3. Agree(t, n)'
        BY <3>2 DEF Agree
      <3>4. Told(t, n)'
        BY <2>2, <3>1, <3>2 DEF Told, Agree
      <3> QED BY <3>3, <3>4
    <2> QED BY <2>1, <2>2
  <1>14. KeyOfAgent' /\ NoKeyOnDisk'
    BY <1>2, <1>6, <1>7 DEF IInv, NoKeyOnDisk, KeyOfAgent, Saved
  <1>15. Engined'
    <2>1. up' = (\A m \in DOMAIN disk["models"] : disk["models"][m].engine \in e)
      BY DEF Restart
    <2> QED BY <1>2, <1>6, <1>7, <2>1 DEF Engined, Saved
  <1>16. Served'
    <2> SUFFICES ASSUME NEW a \in DOMAIN cache'["agents"],
                        NEW m \in cache'["agents"][a].config.needs,
                        Clean("agents", a)', Clean("models", m)'
                 PROVE  m \in DOMAIN cache'["models"]
      BY DEF Served, Has
    <2>1. /\ a \in DOMAIN disk["agents"] /\ disk["agents"][a] \in Agent /\ a \in Agents
          /\ m \in disk["agents"][a].config.needs
      BY <1>1, <1>6, <1>7, PartialElement DEF Saved, DiskTyped
    <2>2. m \in Models
      BY <2>1, RegistryConstants DEF Agent
    <2>3. Clean("agents", a) /\ Agree("agents", a) /\ Clean("models", m) /\ Agree("models", m)
      BY <1>11, <2>1, <2>2 DEF Saved, Entries
    <2>4. a \in DOMAIN cache["agents"] /\ m \in cache["agents"][a].config.needs
      BY <2>1, <2>3 DEF Agree, Has, HasRow, Config, AgentOnWire
    <2>5. m \in DOMAIN cache["models"]
      BY <2>3, <2>4 DEF IInv, Served, Has
    <2>6. m \in DOMAIN disk["models"]
      BY <2>3, <2>5 DEF Agree, Has, HasRow
    <2> QED BY <1>6, <1>7, <2>6 DEF Saved
  <1>17. Manned'
    <2>1. DOMAIN cache'["fleets"] = {}
      BY <1>6, <1>7 DEF Empty
    <2> QED BY <2>1 DEF Manned
  <1> QED BY <1>8, <1>9, <1>10, <1>13, <1>14, <1>15, <1>16, <1>17 DEF IInv

-----------------------------------------------------------------------------
(* The theorems *)

LEMMA InitHolds == Init => IInv
  <1> SUFFICES ASSUME Init PROVE IInv
    OBVIOUS
  <1>1. DOMAIN Empty = {} /\ \A S, T : Empty \in Partial(S, T)
    BY PartialEmpty DEF Empty
  <1>2. /\ \A t \in Cached : cache[t] = Empty
        /\ \A t \in Saved : disk[t] = Empty
        /\ DOMAIN cache = Cached /\ DOMAIN disk = Saved
    BY DEF Init
  <1>3. /\ cache["models"] = Empty /\ cache["agents"] = Empty /\ cache["mcp"] = Empty
        /\ cache["fleets"] = Empty /\ cache["jobs"] = Empty
        /\ disk["models"] = Empty /\ disk["agents"] = Empty /\ disk["mcp"] = Empty
    BY <1>2 DEF Cached, Saved
  <1>4. \A c \in Clients : calls[c] = Idle /\ ~Active(c) /\ todo[c] = <<>> /\ Writes(calls[c]) = {}
    <2>1. \A c \in Clients : calls[c] = Idle /\ todo[c] = <<>>
      BY DEF Init
    <2> QED BY <2>1, IdleFields DEF Active
  <1>5. \A t, n : <<t, n>> \in Entries => said[<<t, n>>].is = "unsaid"
    <2>1. Unsaid.is = "unsaid"
      BY DEF Unsaid
    <2>2. \A x \in Entries : said[x].is = "unsaid"
      BY <2>1 DEF Init
    <2> QED BY <2>2
  <1>6. TypeOK /\ Types
    <2>1. CacheTyped /\ DiskTyped
      BY <1>1, <1>2, <1>3 DEF CacheTyped, DiskTyped
    <2>2. CallsTyped
      <3>1. PICK q : q = <<>> /\ q \in Seq(CallRecord)
        BY EmptySeq
      <3> QED BY <3>1, IdleRecord, RegistryConstants DEF Init, CallsTyped
    <2>3. RestTyped
      BY RegistryConstants DEF Init, RestTyped, Keys
    <2> QED BY <2>1, <2>2, <2>3, TypesMake
  <1>7. \A c \in Clients : CallOK(c) /\ TodoOK(c) /\ StepOK(c)
    <2> TAKE c \in Clients
    <2>1. calls[c].op # "update"
      BY <1>4, IdleFields
    <2> QED BY <1>4, <2>1 DEF CallOK, TodoOK, StepOK
  <1>8. Exclusive
    BY <1>4 DEF Exclusive
  <1>9. EntriesOK
    <2>1. \A t \in Saved : \A n : Agree(t, n)
      BY <1>1, <1>2 DEF Agree, Has, HasRow, Saved, Cached
    <2> QED BY <1>5, <2>1 DEF EntriesOK, EntryOK, Told
  <1>10. KeyOfAgent /\ Engined /\ Served /\ Manned /\ NoKeyOnDisk
    BY <1>1, <1>3 DEF KeyOfAgent, Engined, Served, Manned, NoKeyOnDisk
  <1> QED BY <1>6, <1>7, <1>8, <1>9, <1>10 DEF IInv

LEMMA StutterKeeps == IInv /\ UNCHANGED vars => IInv'
  <1> SUFFICES ASSUME IInv, UNCHANGED vars PROVE IInv'
    OBVIOUS
  <1>1. /\ cache' = cache /\ disk' = disk /\ secrets' = secrets /\ engines' = engines /\ up' = up
        /\ todo' = todo /\ calls' = calls /\ commands' = commands /\ said' = said /\ torn' = torn
        /\ faults' = faults
    BY DEF vars
  <1>2. CacheTyped /\ DiskTyped /\ CallsTyped /\ RestTyped
    BY TypesSplit DEF IInv
  <1>3. TypeOK' /\ Types'
    <2>1. CacheTyped' /\ DiskTyped'
      BY <1>1, <1>2 DEF CacheTyped, DiskTyped
    <2>2. CallsTyped' /\ RestTyped'
      BY <1>1, <1>2 DEF CallsTyped, RestTyped
    <2> QED BY <2>1, <2>2, TypesMake, PTL
  <1>4. \A d \in Clients : CallOK(d)' /\ TodoOK(d)' /\ StepOK(d)'
    <2> TAKE d \in Clients
    <2>1. CallOK(d) /\ TodoOK(d) /\ StepOK(d)
      BY DEF IInv
    <2>2. CallOK(d)' /\ TodoOK(d)'
      BY <1>1, <2>1 DEF CallOK, TodoOK, Active, Wanted
    <2>3. StepOK(d)'
      BY <1>1, <2>1 DEF StepOK, Active, Clean, Agree, Has, HasRow, Dependents
    <2> QED BY <2>2, <2>3
  <1>5. Exclusive'
    BY <1>1 DEF IInv, Exclusive, Active
  <1>6. EntriesOK'
    BY <1>1 DEF IInv, EntriesOK, EntryOK, Clean, Busy, Active, Agree, Told, Has, HasRow
  <1>7. KeyOfAgent' /\ Engined' /\ Served' /\ Manned' /\ NoKeyOnDisk'
    BY <1>1 DEF IInv, KeyOfAgent, Engined, Served, Manned, NoKeyOnDisk, Clean, Has
  <1> QED BY <1>3, <1>4, <1>5, <1>6, <1>7 DEF IInv

LEMMA NextKeeps == IInv /\ [Next]_vars => IInv'
  <1> SUFFICES ASSUME IInv, [Next]_vars PROVE IInv'
    OBVIOUS
  <1>1. ASSUME NEW c \in Clients, Registration(c) PROVE IInv'
    BY <1>1, RegisterModelKeeps, ValidateAgentKeeps, LookUpKeyKeeps, GenerateKeyKeeps,
       InsertAgentKeeps, SaveModelKeeps, SaveAgentKeeps, SaveMcpServerKeeps,
       InsertMcpServerKeeps, FindAgentKeeps, RegisterFleetKeeps, CreateJobKeeps, UpdateJobKeeps
       DEF Registration
  <1>2. ASSUME NEW c \in Clients, Deletion(c) PROVE IInv'
    BY <1>2, LookUpKeeps, ExpectIdKeeps, CheckDependentsKeeps, EraseKeeps, EvictKeeps DEF Deletion
  <1>3. ASSUME NEW c \in Clients, Ask(c) PROVE IInv'
    BY <1>3, AskKeeps
  <1>4. ASSUME NEW c \in Clients, Send(c) PROVE IInv'
    BY <1>4, SendKeeps
  <1>5. ASSUME NEW e \in SUBSET Engines, Restart(e) PROVE IInv'
    BY <1>5, RestartKeeps
  <1>6. CASE UNCHANGED vars
    BY <1>6, StutterKeeps
  <1> QED BY <1>1, <1>2, <1>3, <1>4, <1>5, <1>6 DEF Next

LEMMA Inductive == Spec => []IInv
  BY InitHolds, NextKeeps, PTL DEF Spec

\* Cache, disk, secret store and calls have their types, whatever calls are made, in whatever order
\* their steps come, and with any failed writes and restarts.
THEOREM TypeCorrect == Spec => []TypeOK
  <1>1. IInv => TypeOK
    BY DEF IInv
  <1> QED BY <1>1, Inductive, PTL

\* The cache says what is on disk of every entry that no call is writing, unless a write of it
\* failed or two calls met at it; what clients were told of it is so; and an agent's key is the
\* one in the secret store.
THEOREM CacheAndAnswersTrue == Spec => []RegistryTrue
  <1>1. IInv => RegistryTrue
    <2> SUFFICES ASSUME IInv PROVE CacheIsDisk /\ AnswersHold
      BY DEF RegistryTrue
    <2>1. ASSUME NEW x \in Entries, Clean(x[1], x[2]), ~Busy(x[1], x[2])
          PROVE  x[1] \in Saved => Agree(x[1], x[2])
      <3>1. PICK t, n : t = x[1] /\ n = x[2]
        OBVIOUS
      <3>2. x = <<t, n>>
        BY <3>1 DEF Entries
      <3> QED BY <2>1, <3>1, <3>2 DEF IInv, EntriesOK, EntryOK
    <2>2. ASSUME NEW x \in Entries, Clean(x[1], x[2]), ~Busy(x[1], x[2])
          PROVE  Told(x[1], x[2]) /\ x = <<x[1], x[2]>>
      <3>1. PICK t, n : t = x[1] /\ n = x[2]
        OBVIOUS
      <3>2. x = <<t, n>>
        BY <3>1 DEF Entries
      <3> QED BY <2>2, <3>1, <3>2 DEF IInv, EntriesOK, EntryOK
    <2>3. CacheIsDisk
      BY <2>1 DEF CacheIsDisk, Agree, IInv
    <2>4. AnswersHold
      BY <2>2 DEF AnswersHold, Told
    <2> QED BY <2>3, <2>4
  <1> QED BY <1>1, Inductive, PTL

\* A model of the registry finds its engine, an agent its models and a fleet its agents, although
\* registration and deletion look at each other's entries in steps of their own and a restart
\* looks at none.
THEOREM NamesFound == Spec => []NamesResolve
  <1>1. IInv => NamesResolve
    BY DEF IInv, NamesResolve, Engined, Served, Manned
  <1> QED BY <1>1, Inductive, PTL

-----------------------------------------------------------------------------
(* The state service: the inductive invariant *)

Hashes == {Missing} \cup Nat
Snapshots == States \cup {NoState}
MessageBodies == Bodies \cup {NoState}
MessageData == [id : Nat, state : Snapshots, dag_parent : Hashes, body : MessageBodies,
                link : Hashes]
MessageKeys == [session : Range(Sessions) \cup {NoSession}, submission : Nat, branch : Nat]
MessageRecord == [kind : Kinds, key : MessageKeys, data : MessageData]
NodeRecord == [kind : Kinds, parent : Nat, session : Range(Sessions) \cup {NoSession},
               submission : Nat, branch : Nat, created : Nat, snapshot : Snapshots,
               content : MessageData \cup MessageBodies]
Branch == [name : Bodies \cup {NoState, "main"}, session : Range(Sessions)]
SentRecord == [kind : Kinds, key : MessageKeys, data : MessageData, hash : Hashes, ok : BOOLEAN]
RecorderStates ==
    {IdleRecorder}
    \cup [at : {"looked"}, message : MessageRecord, parent : Nat, snapshot : Snapshots]
    \cup [at : {"called"}, message : MessageRecord, node : NodeRecord]
    \cup [at : {"branching"}, name : MessageBodies, session : Range(Sessions)]
MessageRows == {RowOf(m) : m \in MessageRecord} \cup {NoRow}

StoreTypes == /\ nodes \in Seq(NodeRecord) /\ rows \in Seq(MessageRows) /\ Len(rows) = Len(nodes)
              /\ branches \in Seq(Branch) /\ Len(Sessions) <= Len(branches)
              /\ sent \in Seq(SentRecord)
              /\ recorders \in [Recorders -> RecorderStates]
              /\ now \in Nat /\ losses \in 0..MaxLosses

\* What is recorded comes of a session or of the infra plane, and from a branch that is there.
Sendable(m) == /\ m.key.session = NoSession <=> m.kind \in Infra
               /\ m.key.branch <= Len(branches)
               /\ m.kind = "fork" => branches # <<>>

\* A parent is older.
Follows(parent, created) ==
    /\ parent <= Len(nodes)
    /\ parent # Root => nodes[parent].created < created

NodeOK(i) == /\ nodes[i].parent < i /\ Follows(nodes[i].parent, nodes[i].created)
             /\ nodes[i].created < now
             /\ nodes[i].session = NoSession <=> nodes[i].kind \in Infra
             /\ nodes[i].branch <= Len(branches)
NodesInOrder == \A i \in DOMAIN nodes : NodeOK(i)

\* What a recorder has looked up stays true until it inserts.
NodeReady(n, m) == /\ Follows(n.parent, n.created) /\ n.created < now
                   /\ n.kind = m.kind /\ n.session = m.key.session
                   /\ n.submission = m.key.submission /\ n.branch = m.key.branch
RecorderOK(r) ==
    /\ r \in Recording => Sendable(recorders[r].message)
    /\ recorders[r].at = "looked" => Follows(recorders[r].parent, now)
    /\ recorders[r].at = "called" => NodeReady(recorders[r].node, recorders[r].message)
RecordersOK == \A r \in Recorders : RecorderOK(r)

SentOne(i) == /\ Sendable(sent[i])
              /\ sent[i].hash <= Len(nodes) /\ sent[i].hash # 0
              /\ sent[i].ok => sent[i].hash # Missing
SentOK == \A i \in DOMAIN sent : SentOne(i)

\* Nothing is in the tables that was not sent.
TablesSent ==
    /\ \A h \in DOMAIN nodes : \E i \in DOMAIN sent : sent[i].hash = h
    /\ \A h \in DOMAIN rows : rows[h] # NoRow =>
          \E i \in DOMAIN sent : sent[i].data.id = rows[h].message_id

\* The first recording under its hash and its id has both rows.
FirstStored ==
    \A i \in DOMAIN sent : FirstOf(i) =>
        LET h == sent[i].hash IN
        /\ rows[h] = RowOf([kind |-> sent[i].kind, key |-> sent[i].key, data |-> sent[i].data])
        /\ nodes[h].session = sent[i].key.session
        /\ nodes[h].submission = sent[i].key.submission
        /\ nodes[h].branch = sent[i].key.branch

RecordingBounded == /\ IsFiniteSet(Recording)
                    /\ Len(sent) + Cardinality(Recording) <= MaxSent

StoreInv == /\ StoreTypes /\ NodesInOrder /\ RecordersOK /\ SentOK /\ TablesSent
            /\ FirstStored /\ RecordingBounded

-----------------------------------------------------------------------------
(* Lists by creation *)

LEMMA NodeFacts ==
    ASSUME StoreTypes
    PROVE  /\ DOMAIN nodes = 1..Len(nodes) /\ Len(nodes) \in Nat
           /\ \A i \in DOMAIN nodes : /\ nodes[i] \in NodeRecord
                                     /\ nodes[i].created \in Nat /\ nodes[i].parent \in Nat
                                     /\ nodes[i].branch \in Nat
  <1>1. nodes \in Seq(NodeRecord)
    BY DEF StoreTypes
  <1>2. /\ DOMAIN nodes = 1..Len(nodes) /\ Len(nodes) \in Nat
        /\ \A i \in DOMAIN nodes : nodes[i] \in NodeRecord
    BY <1>1, SeqElement
  <1>3. \A n \in NodeRecord : n.created \in Nat /\ n.parent \in Nat /\ n.branch \in Nat
    BY DEF NodeRecord
  <1> QED BY <1>2, <1>3

\* The nodes of ids that come before x.
Earlier(ids, x) == {j \in ids : Before(j, x)}

LEMMA EarlierGrows ==
    ASSUME StoreTypes, NEW ids \in SUBSET (DOMAIN nodes), IsFiniteSet(ids),
           NEW x \in ids, NEW y \in ids, Before(x, y)
    PROVE  Cardinality(Earlier(ids, x)) < Cardinality(Earlier(ids, y))
  <1>1. /\ \A i \in DOMAIN nodes : nodes[i].created \in Nat
        /\ DOMAIN nodes \subseteq Nat
    BY NodeFacts
  <1>2. Earlier(ids, x) \subseteq Earlier(ids, y) /\ x \in Earlier(ids, y) \ Earlier(ids, x)
    BY <1>1 DEF Earlier, Before
  <1>3. IsFiniteSet(Earlier(ids, y))
    BY FS_Subset DEF Earlier
  <1>4. /\ IsFiniteSet(Earlier(ids, x))
        /\ Cardinality(Earlier(ids, x)) <= Cardinality(Earlier(ids, y))
        /\ Cardinality(Earlier(ids, x)) # Cardinality(Earlier(ids, y))
    BY <1>2, <1>3, FS_Subset
  <1> QED BY <1>3, <1>4, FS_CardinalityType

\* The list has each of the nodes, in their order.
LEMMA CreationSorted ==
    ASSUME StoreTypes, NEW ids \in SUBSET (DOMAIN nodes), IsFiniteSet(ids)
    PROVE  /\ Cardinality(ids) \in Nat
           /\ DOMAIN ByCreation(ids) = 1..Cardinality(ids)
           /\ \A k \in 1..Cardinality(ids) : ByCreation(ids)[k] \in ids
           /\ \A x \in ids : \E k \in 1..Cardinality(ids) : ByCreation(ids)[k] = x
           /\ \A i, j \in 1..Cardinality(ids) :
                 i < j => Before(ByCreation(ids)[i], ByCreation(ids)[j])
  <1> DEFINE size == Cardinality(ids)
             rank == [x \in ids |-> Cardinality(Earlier(ids, x)) + 1]
             list == ByCreation(ids)
  <1>1. size \in Nat
    BY FS_CardinalityType
  <1>2. \A x \in ids : Cardinality(Earlier(ids, x)) \in 0..(size - 1)
    <2> SUFFICES ASSUME NEW x \in ids
                 PROVE  Cardinality(Earlier(ids, x)) \in 0..(size - 1)
      OBVIOUS
    <2>1. nodes[x].created \in Nat /\ x \in Nat
      BY NodeFacts
    <2>2. x \notin Earlier(ids, x) /\ Earlier(ids, x) \in SUBSET ids
      BY <2>1 DEF Earlier, Before
    <2>3. /\ IsFiniteSet(Earlier(ids, x))
          /\ Cardinality(Earlier(ids, x)) <= size /\ Cardinality(Earlier(ids, x)) # size
      BY <2>2, FS_Subset
    <2> QED BY <1>1, <2>3, FS_CardinalityType
  <1>3. \A x, y \in ids : x # y => Before(x, y) \/ Before(y, x)
    BY NodeFacts DEF Before
  <1>4. \A x, y \in ids : Before(x, y) => rank[x] < rank[y]
    <2> SUFFICES ASSUME NEW x \in ids, NEW y \in ids, Before(x, y)
                 PROVE  rank[x] < rank[y]
      OBVIOUS
    <2>1. Cardinality(Earlier(ids, x)) < Cardinality(Earlier(ids, y))
      BY EarlierGrows
    <2> QED BY <1>2, <2>1
  <1>5. rank \in [ids -> 1..size]
    BY <1>1, <1>2
  <1>6. \A x, y \in ids : rank[x] = rank[y] => x = y
    BY <1>3, <1>4, <1>5
  <1>7. rank \in Injection(ids, 1..size)
    BY <1>5, <1>6 DEF Injection, IsInjective
  <1>8. rank \in Surjection(ids, 1..size)
    <2>1. IsFiniteSet(1..size) /\ Cardinality(1..size) = size
      BY <1>1, FS_Interval
    <2> QED BY <1>7, <2>1, FS_Injection
  <1>9. \A k \in 1..size : list[k] \in ids /\ rank[list[k]] = k
    <2> SUFFICES ASSUME NEW k \in 1..size
                 PROVE  list[k] \in ids /\ rank[list[k]] = k
      OBVIOUS
    <2>1. PICK x \in ids : rank[x] = k
      BY <1>8 DEF Surjection
    <2>2. Cardinality(Earlier(ids, x)) = k - 1
      BY <2>1, <1>2
    <2>3. list[k] = CHOOSE i \in ids : Cardinality(Earlier(ids, i)) = k - 1
      BY DEF ByCreation, Earlier
    <2>4. list[k] \in ids /\ Cardinality(Earlier(ids, list[k])) = k - 1
      BY <2>2, <2>3
    <2> QED BY <2>4, <1>2
  <1>10. DOMAIN list = 1..size
    BY DEF ByCreation
  <1>11. ASSUME NEW i \in 1..size, NEW j \in 1..size, i < j
         PROVE  Before(list[i], list[j])
    <2>1. /\ rank[list[i]] = i /\ rank[list[j]] = j
          /\ list[i] \in ids /\ list[j] \in ids
      BY <1>9
    <2> HIDE DEF list, rank
    <2>2. ~ rank[list[j]] < rank[list[i]] /\ i # j
      BY <2>1, <1>11, <1>1
    <2>3. ~ Before(list[j], list[i]) /\ list[i] # list[j]
      BY <2>1, <2>2, <1>4
    <2> QED BY <1>3, <2>1, <2>3
  <1>12. \A x \in ids : \E k \in 1..size : list[k] = x
    <2> SUFFICES ASSUME NEW x \in ids
                 PROVE  list[rank[x]] = x
      BY <1>5
    <2> QED BY <1>5, <1>6, <1>9
  <1> HIDE DEF list, rank, size
  <1> QED BY <1>1, <1>9, <1>10, <1>11, <1>12 DEF list, size

\* The queries find nodes of the table.
LEMMA NodesFinite ==
    ASSUME StoreTypes, NEW ids \in SUBSET (DOMAIN nodes)
    PROVE  IsFiniteSet(ids)
  <1>1. IsFiniteSet(DOMAIN nodes)
    BY NodeFacts, FS_Interval
  <1> QED BY <1>1, FS_Subset

\* The latest node of a branch is one of it, and none of it comes after.
LEMMA LatestIsLast ==
    ASSUME StoreTypes, NEW b
    PROVE  \/ LatestOnBranch(b) = Root /\ \A i \in DOMAIN nodes : nodes[i].branch # b
           \/ /\ LatestOnBranch(b) \in DOMAIN nodes
              /\ \A i \in DOMAIN nodes : nodes[i].branch = b
                     => i = LatestOnBranch(b) \/ Before(i, LatestOnBranch(b))
  <1> DEFINE on == {i \in DOMAIN nodes : nodes[i].branch = b}
             list == ByCreation(on)
             size == Cardinality(on)
  <1>1. CASE on = {}
    BY <1>1 DEF LatestOnBranch
  <1>2. CASE on # {}
    <2>1. IsFiniteSet(on)
      BY NodesFinite
    <2>2. /\ size \in Nat /\ DOMAIN list = 1..size
          /\ \A k \in 1..size : list[k] \in on
          /\ \A x \in on : \E k \in 1..size : list[k] = x
          /\ \A i, j \in 1..size : i < j => Before(list[i], list[j])
      BY <2>1, CreationSorted
    <2>3. size \in 1..size
      BY <1>2, <2>2
    <2>4. LatestOnBranch(b) = list[size]
      <3>1. Len(list) = size
        BY <2>2
      <3>2. LatestOnBranch(b) = list[Len(list)]
        BY <1>2 DEF LatestOnBranch, Last
      <3> QED BY <3>1, <3>2
    <2>5. ASSUME NEW i \in on PROVE i = list[size] \/ Before(i, list[size])
      BY <2>2, <2>3
    <2>6. list[size] \in on
      BY <2>2, <2>3
    <2> HIDE DEF list, size
    <2> QED BY <2>4, <2>5, <2>6
  <1> QED BY <1>1, <1>2

-----------------------------------------------------------------------------
(* Rows *)

\* A row has the id of its message.
LEMMA RowIds ==
    ASSUME NEW m \in MessageRecord
    PROVE  /\ RowOf(m).message_id = m.data.id
           /\ RowOf(m) # NoRow
  <1> DEFINE d == m.data
  <1>1. m.kind \in Kinds
    BY DEF MessageRecord
  <1>2. CASE m.kind = "invoke"
    <2>1. RowOf(m) = [message_id |-> d.id, state |-> d.state, payload |-> d]
      BY <1>2 DEF RowOf, InvokeRow, InvokeServed, InvokeCall, WithText
    <2> QED BY <2>1 DEF NoRow
  <1>3. CASE m.kind = "complete"
    <2>1. RowOf(m) = [message_id |-> d.id, state |-> d.state, payload |-> d]
      BY <1>3 DEF RowOf, CompleteRow, CompleteServed, CompleteCall, WithText
    <2> QED BY <2>1 DEF NoRow
  <1>4. CASE m.kind = "request"
    <2>1. RowOf(m) = [message_id |-> d.id, state |-> d.state, payload |-> d.body,
                      checkpoint |-> d.link]
      BY <1>4 DEF RowOf, RequestRow, RequestServed, RequestCall, Rebuilt
    <2> QED BY <2>1 DEF NoRow
  <1>5. CASE m.kind = "response"
    <2>1. RowOf(m) = [message_id |-> d.id, state |-> d.state, payload |-> d.body,
                      correlation_id |-> d.link]
      BY <1>5 DEF RowOf, ResponseRow, ResponseServed, ResponseCall, Rebuilt
    <2> QED BY <2>1 DEF NoRow
  <1>6. CASE m.kind = "svc_request"
    <2>1. RowOf(m) = [message_id |-> d.id, state |-> d.state, arguments |-> d.body,
                      tool_call_id |-> d.link]
      BY <1>6 DEF RowOf, SvcRequestRow, SvcRequestServed, SvcRequestCall, Rebuilt
    <2> QED BY <2>1 DEF NoRow
  <1>7. CASE m.kind = "svc_response"
    <2>1. RowOf(m) = [message_id |-> d.id, state |-> d.state, payload |-> d.body,
                      correlation_id |-> d.link]
      BY <1>7 DEF RowOf, SvcResponseRow, SvcResponseServed, SvcResponseCall, Rebuilt
    <2> QED BY <2>1 DEF NoRow
  <1>8. CASE m.kind = "fork"
    <2>1. RowOf(m) = [message_id |-> d.id, branch_name |-> d.body, fork_point |-> d.link]
      BY <1>8 DEF RowOf, ForkRow, ForkServed, ForkCall, Rebuilt
    <2> QED BY <2>1 DEF NoRow
  <1>9. CASE m.kind = "promote"
    <2>1. RowOf(m) = [message_id |-> d.id, branch_id |-> d.link]
      BY <1>9 DEF RowOf, PromoteRow, PromoteServed, PromoteCall, Rebuilt
    <2> QED BY <2>1 DEF NoRow
  <1>10. CASE m.kind = "deploy-agent"
    <2>1. RowOf(m) = [message_id |-> d.id, manifest_json |-> d.body]
      BY <1>10 DEF RowOf, DeployRow, DeployServed, DeployCall, Rebuilt
    <2> QED BY <2>1 DEF NoRow
  <1>11. CASE m.kind = "delete-agent"
    <2>1. RowOf(m) = [message_id |-> d.id]
      BY <1>11 DEF RowOf, DeleteRow, DeleteServed, DeleteCall, Rebuilt
    <2> QED BY <2>1 DEF NoRow
  <1> QED BY <1>1, <1>2, <1>3, <1>4, <1>5, <1>6, <1>7, <1>8, <1>9, <1>10, <1>11
          DEF Kinds, Answers, Infra

\* What comes back of a data message, through all that converts it on the way.
LEMMA DataComesBack ==
    ASSUME NEW m \in MessageRecord, m.kind \in Answers \cup {"invoke"},
           NEW read, read = IF m.kind \in {"invoke", "complete"} THEN m.data
                            ELSE [m.data EXCEPT !.dag_parent = Root]
    PROVE  /\ ReadNode(m.kind, RowOf(m)) = read
           /\ m.kind \notin {"request", "response"} => ReadText(m.kind, RowOf(m)) = read
  <1> DEFINE d == m.data
  <1>1. d = Data(d.id, d.state, d.dag_parent, d.body, d.link)
    BY DEF MessageRecord, MessageData, Data
  <1>2. [d EXCEPT !.dag_parent = Root] = Rebuilt(d.id, d.state, d.body, d.link)
    BY <1>1 DEF Data, Rebuilt
  <1>3. CASE m.kind = "invoke"
    BY <1>3 DEF RowOf, InvokeRow, InvokeServed, InvokeCall, WithText, ReadNode, ReadInvoke,
                InvokeAnswer, ReadInvokeRow, ReadText, InvokeOffWire, InvokeOnWire, InvokeText
  <1>4. CASE m.kind = "complete"
    BY <1>4 DEF RowOf, CompleteRow, CompleteServed, CompleteCall, WithText, ReadNode,
                ReadComplete, CompleteAnswer, ReadCompleteRow, ReadText, CompleteOffWire,
                CompleteOnWire, CompleteText
  <1>5. CASE m.kind = "request"
    <2>1. RowOf(m) = RequestRow(d)
      BY <1>5 DEF RowOf, RequestRow, RequestServed, RequestCall, Rebuilt
    <2>2. ReadNode("request", RequestRow(d)) = Rebuilt(d.id, d.state, d.body, d.link)
      BY DEF ReadNode, RequestRow, ReadRequest, RequestAnswer, ReadRequestRow, Rebuilt
    <2> QED BY <1>2, <1>5, <2>1, <2>2
  <1>6. CASE m.kind = "response"
    <2>1. RowOf(m) = ResponseRow(d)
      BY <1>6 DEF RowOf, ResponseRow, ResponseServed, ResponseCall, Rebuilt
    <2>2. ReadNode("response", ResponseRow(d)) = Rebuilt(d.id, d.state, d.body, d.link)
      BY DEF ReadNode, ResponseRow, ReadResponse, ResponseAnswer, ReadResponseRow, Rebuilt
    <2> QED BY <1>2, <1>6, <2>1, <2>2
  <1>7. CASE m.kind = "svc_request"
    <2>1. RowOf(m) = SvcRequestRow(d)
      BY <1>7 DEF RowOf, SvcRequestRow, SvcRequestServed, SvcRequestCall, Rebuilt
    <2>2. ReadNode("svc_request", SvcRequestRow(d)) = Rebuilt(d.id, d.state, d.body, d.link)
      BY DEF ReadNode, SvcRequestRow, ReadSvcRequest, SvcRequestAnswer, ReadSvcRequestRow,
             Rebuilt
    <2>3. ReadText("svc_request", SvcRequestRow(d)) = Rebuilt(d.id, d.state, d.body, d.link)
      BY DEF ReadText, SvcRequestRow, RequestOffWire, RequestOnWire, RequestText, Rebuilt
    <2> QED BY <1>2, <1>7, <2>1, <2>2, <2>3
  <1>8. CASE m.kind = "svc_response"
    <2>1. RowOf(m) = SvcResponseRow(d)
      BY <1>8 DEF RowOf, SvcResponseRow, SvcResponseServed, SvcResponseCall, Rebuilt
    <2>2. ReadNode("svc_response", SvcResponseRow(d)) = Rebuilt(d.id, d.state, d.body, d.link)
      BY DEF ReadNode, SvcResponseRow, ReadSvcResponse, SvcResponseAnswer, ReadSvcResponseRow,
             Rebuilt
    <2>3. ReadText("svc_response", SvcResponseRow(d)) = Rebuilt(d.id, d.state, d.body, d.link)
      BY DEF ReadText, SvcResponseRow, ResponseOffWire, ResponseOnWire, ResponseText, Rebuilt
    <2> QED BY <1>2, <1>8, <2>1, <2>2, <2>3
  <1> QED BY <1>3, <1>4, <1>5, <1>6, <1>7, <1>8 DEF Answers

-----------------------------------------------------------------------------
(* What the invariant says *)

LEMMA SentFacts ==
    ASSUME StoreTypes
    PROVE  /\ DOMAIN sent = 1..Len(sent) /\ Len(sent) \in Nat
           /\ \A i \in DOMAIN sent :
                 /\ sent[i].kind \in Kinds /\ sent[i].key \in MessageKeys
                 /\ sent[i].data \in MessageData /\ sent[i].hash \in Hashes
                 /\ sent[i].ok \in BOOLEAN
                 /\ [kind |-> sent[i].kind, key |-> sent[i].key, data |-> sent[i].data]
                        \in MessageRecord
  <1>1. sent \in Seq(SentRecord)
    BY DEF StoreTypes
  <1>2. /\ DOMAIN sent = 1..Len(sent) /\ Len(sent) \in Nat
        /\ \A i \in DOMAIN sent : sent[i] \in SentRecord
    BY <1>1, SeqElement
  <1>3. \A s \in SentRecord :
           /\ s.kind \in Kinds /\ s.key \in MessageKeys
           /\ s.data \in MessageData /\ s.hash \in Hashes /\ s.ok \in BOOLEAN
    BY DEF SentRecord
  <1> QED BY <1>2, <1>3 DEF MessageRecord

LEMMA RecorderFacts ==
    ASSUME StoreTypes, NEW r \in Recorders
    PROVE  /\ recorders[r].at \in {"idle", "looked", "called", "branching"}
           /\ recorders[r].at = "idle" => recorders[r] = IdleRecorder
           /\ recorders[r].at = "looked" =>
                 /\ recorders[r].message \in MessageRecord
                 /\ recorders[r].parent \in Nat /\ recorders[r].snapshot \in Snapshots
           /\ recorders[r].at = "called" =>
                 /\ recorders[r].message \in MessageRecord /\ recorders[r].node \in NodeRecord
           /\ recorders[r].at = "branching" =>
                 /\ recorders[r].name \in MessageBodies /\ recorders[r].session \in Range(Sessions)
  <1>1. recorders[r] \in RecorderStates
    BY DEF StoreTypes
  <1>2. CASE recorders[r] = IdleRecorder
    BY <1>2 DEF IdleRecorder
  <1>3. CASE recorders[r] \in [at : {"looked"}, message : MessageRecord, parent : Nat,
                               snapshot : Snapshots]
    BY <1>3
  <1>4. CASE recorders[r] \in [at : {"called"}, message : MessageRecord, node : NodeRecord]
    BY <1>4
  <1>5. CASE recorders[r] \in [at : {"branching"}, name : MessageBodies,
                               session : Range(Sessions)]
    BY <1>5
  <1> QED BY <1>1, <1>2, <1>3, <1>4, <1>5 DEF RecorderStates

LEMMA InvTypeOK == StoreInv => StoreTypeOK
  <1> SUFFICES ASSUME StoreInv PROVE StoreTypeOK
    OBVIOUS
  <1>1. /\ StoreTypes /\ NodesInOrder /\ RecordersOK /\ SentOK /\ RecordingBounded
    BY DEF StoreInv
  <1>2. DOMAIN rows = DOMAIN nodes
    <2>1. rows \in Seq(MessageRows) /\ Len(rows) = Len(nodes)
      BY <1>1 DEF StoreTypes
    <2> QED BY <2>1, <1>1, SeqElement, NodeFacts
  <1>3. ASSUME NEW i \in DOMAIN nodes
        PROVE  /\ nodes[i].kind \in Kinds /\ nodes[i].parent \in 0..(i - 1)
               /\ nodes[i].session \in Range(Sessions) \cup {NoSession}
               /\ nodes[i].session = NoSession <=> nodes[i].kind \in Infra
               /\ nodes[i].branch \in DOMAIN branches \cup {0}
               /\ nodes[i].snapshot \in States \cup {NoState}
    <2>1. nodes[i] \in NodeRecord /\ nodes[i].parent < i /\ i \in Nat /\ nodes[i].parent \in Nat
      BY <1>1, NodeFacts DEF NodesInOrder, NodeOK
    <2>2. branches \in Seq(Branch)
      BY <1>1 DEF StoreTypes
    <2>3. DOMAIN branches = 1..Len(branches) /\ Len(branches) \in Nat
      BY <2>2, SeqElement
    <2>4. nodes[i].branch \in Nat /\ nodes[i].branch <= Len(branches)
      BY <1>1, NodeFacts DEF NodesInOrder, NodeOK
    <2>5. nodes[i].branch \in DOMAIN branches \cup {0}
      BY <2>3, <2>4
    <2>6. /\ nodes[i].kind \in Kinds /\ nodes[i].session \in Range(Sessions) \cup {NoSession}
          /\ nodes[i].snapshot \in States \cup {NoState}
      BY <2>1 DEF NodeRecord, Snapshots
    <2>7. nodes[i].session = NoSession <=> nodes[i].kind \in Infra
      BY <1>1 DEF NodesInOrder, NodeOK
    <2> QED BY <2>1, <2>5, <2>6, <2>7
  <1>4. ASSUME NEW i \in DOMAIN sent PROVE sent[i].hash \in {Missing} \cup DOMAIN nodes
    <2>1. sent[i].hash \in {Missing} \cup Nat
      BY <1>1, SentFacts DEF Hashes
    <2> QED BY <2>1, <1>1, NodeFacts DEF SentOK, SentOne
  <1>5. \A r \in Recording : recorders[r].message.kind \in Kinds
    BY <1>1, RecorderFacts DEF Recording, MessageRecord
  <1>6. \A r \in Recorders : recorders[r].at \in {"idle", "looked", "called", "branching"}
    BY <1>1, RecorderFacts
  <1>7. losses \in 0..MaxLosses /\ Len(sent) <= MaxSent
    <2>1. Cardinality(Recording) \in Nat /\ Len(sent) \in Nat
      BY <1>1, FS_CardinalityType, SentFacts DEF RecordingBounded
    <2> QED BY <2>1, <1>1, StoreAssumption DEF RecordingBounded, StoreTypes
  <1> QED BY <1>2, <1>3, <1>4, <1>5, <1>6, <1>7 DEF StoreTypeOK

LEMMA InvReadBack == StoreInv => ReadBack
  <1> SUFFICES ASSUME StoreInv, NEW i \in DOMAIN sent, FirstOf(i)
               PROVE  LET h == sent[i].hash IN
                      /\ rows[h] # NoRow
                      /\ ReadNode(sent[i].kind, rows[h]) = AsRead(i)
                      /\ sent[i].kind \notin {"request", "response"}
                             => ReadText(sent[i].kind, rows[h]) = AsRead(i)
                      /\ \A f \in DOMAIN sent[i].key : nodes[h][f] = sent[i].key[f]
    BY DEF ReadBack
  <1> DEFINE h == sent[i].hash
             m == [kind |-> sent[i].kind, key |-> sent[i].key, data |-> sent[i].data]
  <1>1. StoreTypes /\ FirstStored
    BY DEF StoreInv
  <1>2. m \in MessageRecord /\ sent[i].key \in MessageKeys
    BY <1>1, SentFacts
  <1>3. /\ rows[h] = RowOf(m)
        /\ nodes[h].session = sent[i].key.session
        /\ nodes[h].submission = sent[i].key.submission
        /\ nodes[h].branch = sent[i].key.branch
    BY <1>1 DEF FirstStored
  <1>4. rows[h] # NoRow
    BY <1>2, <1>3, RowIds
  <1>5. m.kind \in Answers \cup {"invoke"}
    BY DEF FirstOf
  <1>6. AsRead(i) = IF m.kind \in {"invoke", "complete"} THEN m.data
                    ELSE [m.data EXCEPT !.dag_parent = Root]
    BY DEF AsRead
  <1>7. /\ ReadNode(m.kind, RowOf(m)) = AsRead(i)
        /\ m.kind \notin {"request", "response"} => ReadText(m.kind, RowOf(m)) = AsRead(i)
    BY <1>2, <1>5, <1>6, DataComesBack
  <1>8. \A f \in DOMAIN sent[i].key : nodes[h][f] = sent[i].key[f]
    <2>1. DOMAIN sent[i].key = {"session", "submission", "branch"}
      BY <1>2 DEF MessageKeys
    <2> QED BY <1>3, <2>1
  <1> QED BY <1>3, <1>4, <1>7, <1>8

\* A node is later than its parent.
LEMMA ParentBefore ==
    ASSUME StoreTypes, NodesInOrder, NEW i \in DOMAIN nodes, nodes[i].parent # Root
    PROVE  Before(nodes[i].parent, i) /\ ~ Before(i, nodes[i].parent)
  <1>1. /\ nodes[i].parent < i /\ nodes[nodes[i].parent].created < nodes[i].created
        /\ nodes[i].parent \in DOMAIN nodes
    BY NodeFacts DEF NodesInOrder, NodeOK, Follows, Root
  <1> QED BY <1>1, NodeFacts DEF Before

LEMMA ListParentsFirst ==
    ASSUME StoreTypes, NodesInOrder, NEW ids \in SUBSET (DOMAIN nodes)
    PROVE  ParentsFirst(ByCreation(ids))
  <1> DEFINE list == ByCreation(ids)
  <1>1. /\ Cardinality(ids) \in Nat
        /\ DOMAIN list = 1..Cardinality(ids)
        /\ \A k \in 1..Cardinality(ids) : list[k] \in ids
        /\ \A i, j \in 1..Cardinality(ids) : i < j => Before(list[i], list[j])
    BY NodesFinite, CreationSorted
  <1> HIDE DEF list
  <1>2. SUFFICES ASSUME NEW i \in DOMAIN list, NEW j \in DOMAIN list,
                        nodes[list[j]].parent = list[i]
                 PROVE  i < j
    BY DEF ParentsFirst, list
  <1>3. list[i] \in DOMAIN nodes /\ list[j] \in DOMAIN nodes
    BY <1>1
  <1>4. list[i] # Root
    BY <1>3, NodeFacts DEF Root
  <1>5. ~ Before(list[j], list[i]) /\ Before(list[i], list[j])
    BY <1>2, <1>3, <1>4, ParentBefore
  <1>6. ~ (j < i)
    BY <1>1, <1>5
  <1>7. i # j
    BY <1>5
  <1> QED BY <1>1, <1>6, <1>7

LEMMA InvCreatedInOrder == StoreInv => CreatedInOrder
  <1> SUFFICES ASSUME StoreInv PROVE CreatedInOrder
    OBVIOUS
  <1>1. StoreTypes /\ NodesInOrder
    BY DEF StoreInv
  <1>2. \A s \in Range(Sessions) : ParentsFirst(SessionNodes(s))
    BY <1>1, ListParentsFirst DEF SessionNodes
  <1>3. \A u \in 1..MaxSent : ParentsFirst(SubmissionNodes(u))
    BY <1>1, ListParentsFirst DEF SubmissionNodes
  <1>4. ASSUME NEW b \in DOMAIN branches, NEW i \in Range(NodesOnBranch(b)),
               nodes[i].parent = LatestOnBranch(b)
        PROVE  FALSE
    <2> DEFINE on == {k \in DOMAIN nodes : nodes[k].branch = b}
    <2>1. i \in on
      <3>1. /\ DOMAIN ByCreation(on) = 1..Cardinality(on)
            /\ \A k \in 1..Cardinality(on) : ByCreation(on)[k] \in on
        BY <1>1, NodesFinite, CreationSorted
      <3> QED BY <1>4, <3>1 DEF NodesOnBranch, Range
    <2>2. /\ LatestOnBranch(b) \in DOMAIN nodes
          /\ i = LatestOnBranch(b) \/ Before(i, LatestOnBranch(b))
      BY <1>1, <2>1, LatestIsLast
    <2>3. nodes[i].parent # Root
      BY <1>1, <1>4, <2>2, NodeFacts DEF Root
    <2>4. Before(nodes[i].parent, i) /\ ~ Before(i, nodes[i].parent)
      BY <1>1, <2>1, <2>3, ParentBefore
    <2> QED BY <1>4, <2>2, <2>4
  <1> QED BY <1>2, <1>3, <1>4 DEF CreatedInOrder

-----------------------------------------------------------------------------
(* What is recorded *)

LEMMA SessionFacts ==
    ASSUME StoreTypes
    PROVE  /\ DOMAIN branches = 1..Len(branches) /\ Len(branches) \in Nat
           /\ \A b \in DOMAIN branches : branches[b].session \in Range(Sessions)
           /\ \A s \in Range(Sessions) : branches # <<>>
           /\ NoSession \notin Range(Sessions)
  <1>1. branches \in Seq(Branch) /\ Len(Sessions) <= Len(branches)
    BY DEF StoreTypes
  <1>2. DOMAIN branches = 1..Len(branches) /\ Len(branches) \in Nat
        /\ \A b \in DOMAIN branches : branches[b] \in Branch
    BY <1>1, SeqElement
  <1>3. Sessions \in Seq(Range(Sessions)) /\ NoSession \notin Range(Sessions)
    BY StoreAssumption
  <1>4. ASSUME NEW s \in Range(Sessions) PROVE branches # <<>>
    <2>1. PICK i \in DOMAIN Sessions : s = Sessions[i]
      BY DEF Range
    <2>2. Len(Sessions) >= 1
      BY <1>3, <2>1, SeqElement
    <2>3. Len(branches) # 0
      BY <1>1, <1>2, <2>2, <1>3, SeqElement
    <2> QED BY <2>3
  <1> QED BY <1>2, <1>3, <1>4 DEF Branch

LEMMA NewIdNat == ASSUME StoreTypes, RecordingBounded PROVE NewId \in Nat
  BY SentFacts, FS_CardinalityType DEF RecordingBounded, NewId

LEMMA MessageMade ==
    ASSUME NEW k \in Kinds, NEW s \in Range(Sessions) \cup {NoSession}, NEW u \in Nat,
           NEW b \in Nat, NEW d \in MessageData,
           s = NoSession <=> k \in Infra, b <= Len(branches), k = "fork" => branches # <<>>
    PROVE  Message(k, s, u, b, d) \in MessageRecord /\ Sendable(Message(k, s, u, b, d))
  <1>1. Message(k, s, u, b, d) \in MessageRecord
    BY DEF Message, MessageRecord, MessageKeys
  <1>2. Sendable(Message(k, s, u, b, d))
    BY DEF Message, Sendable
  <1> QED BY <1>1, <1>2

LEMMA DataMade ==
    ASSUME NEW i \in Nat, NEW st \in Snapshots, NEW p \in Hashes, NEW b \in MessageBodies,
           NEW l \in Hashes
    PROVE  Data(i, st, p, b, l) \in MessageData
  BY DEF Data, MessageData

\* All that may be recorded is well formed.
LEMMA NewMessagesOK ==
    ASSUME StoreTypes, SentOK, RecordingBounded, NEW m \in NewMessages
    PROVE  m \in MessageRecord /\ Sendable(m)
  <1>1. NewId \in Nat
    BY NewIdNat
  <1>2. NoState \in Snapshots /\ NoState \in MessageBodies /\ Bodies \subseteq MessageBodies
        /\ 0 \in Hashes /\ Root \in Hashes /\ Nat \subseteq Hashes
        /\ \A b \in Bodies : StateWith[b] \in Snapshots
    BY StoreAssumption DEF Snapshots, MessageBodies, Hashes, Root
  <1>3. /\ {"invoke", "fork", "promote"} \cup Answers \cup Infra \subseteq Kinds
        /\ "invoke" \notin Infra /\ "fork" \notin Infra /\ "promote" \notin Infra
        /\ \A k \in Answers : k \notin Infra /\ k # "fork"
        /\ \A k \in Infra : k # "fork"
    BY DEF Kinds, Answers, Infra
  <1>4. CASE m \in Invokes
    <2>1. PICK b \in DOMAIN branches, st \in States \cup {NoState},
               p \in {Root} \cup DOMAIN nodes :
              m = Message("invoke", branches[b].session, NewId, b, Data(NewId, st, p, NoState, 0))
      BY <1>4 DEF Invokes
    <2>2. p \in Hashes
      BY <1>2, NodeFacts
    <2>3. Data(NewId, st, p, NoState, 0) \in MessageData
      BY <1>1, <1>2, <2>2, DataMade DEF Snapshots
    <2>4. /\ b \in Nat /\ b <= Len(branches)
          /\ branches[b].session \in Range(Sessions) /\ branches[b].session # NoSession
      BY SessionFacts
    <2> QED BY <1>1, <1>3, <2>1, <2>3, <2>4, MessageMade
  <1>5. ASSUME NEW i \in Runs, m \in Following(i) PROVE m \in MessageRecord /\ Sendable(m)
    <2>1. PICK k \in Answers, p \in Given(sent[i].key.submission), b \in Bodies :
              m = Message(k, sent[i].key.session, sent[i].key.submission, sent[i].key.branch,
                          Data(NewId, StateWith[b], p, b, p))
      BY <1>5 DEF Following
    <2>2. i \in DOMAIN sent /\ sent[i].kind = "invoke"
      BY DEF Runs
    <2>3. p \in Hashes
      BY <1>2, SentFacts DEF Given
    <2>4. Data(NewId, StateWith[b], p, b, p) \in MessageData
      BY <1>1, <1>2, <2>3, DataMade
    <2>5. Sendable(sent[i]) /\ sent[i].key \in MessageKeys
      BY <2>2, SentFacts DEF SentOK, SentOne
    <2>6. /\ sent[i].key.session \in Range(Sessions) \cup {NoSession}
          /\ sent[i].key.session # NoSession /\ sent[i].key.submission \in Nat
          /\ sent[i].key.branch \in Nat /\ sent[i].key.branch <= Len(branches)
      BY <1>3, <2>2, <2>5 DEF Sendable, MessageKeys
    <2> QED BY <1>3, <2>1, <2>4, <2>6, MessageMade
  <1>6. ASSUME NEW s \in Range(Sessions), m \in Forks(s) PROVE m \in MessageRecord /\ Sendable(m)
    <2>1. PICK name \in Bodies, p \in NodesOf(s) :
              m = Message("fork", s, NewId, 0, Data(NewId, NoState, Root, name, p))
      BY <1>6 DEF Forks
    <2>2. p \in Hashes
      BY <1>2, NodeFacts DEF NodesOf
    <2>3. Data(NewId, NoState, Root, name, p) \in MessageData
      BY <1>1, <1>2, <2>2, DataMade
    <2>4. branches # <<>> /\ s # NoSession /\ 0 <= Len(branches)
      BY SessionFacts
    <2> QED BY <1>1, <1>3, <2>1, <2>3, <2>4, MessageMade
  <1>7. ASSUME NEW s \in Range(Sessions), m \in Promotes(s)
        PROVE  m \in MessageRecord /\ Sendable(m)
    <2>1. PICK b \in DOMAIN branches :
              m = Message("promote", s, NewId, b, Data(NewId, NoState, Root, NoState, b))
      BY <1>7 DEF Promotes
    <2>2. b \in Nat /\ b <= Len(branches) /\ s # NoSession
      BY SessionFacts
    <2>3. Data(NewId, NoState, Root, NoState, b) \in MessageData
      BY <1>1, <1>2, <2>2, DataMade
    <2> QED BY <1>1, <1>3, <2>1, <2>2, <2>3, MessageMade
  <1>8. CASE m \in InfraMessages
    <2>1. PICK k \in Infra, b \in Bodies :
              m = Message(k, NoSession, NewId, 0, Data(NewId, NoState, Root, b, 0))
      BY <1>8 DEF InfraMessages
    <2>2. Data(NewId, NoState, Root, b, 0) \in MessageData
      BY <1>1, <1>2, DataMade
    <2>3. 0 <= Len(branches)
      BY SessionFacts
    <2>4. k \in Kinds /\ k # "fork" /\ NoSession \in Range(Sessions) \cup {NoSession}
      BY <1>3
    <2>5. \A d \in MessageData : /\ Message(k, NoSession, NewId, 0, d) \in MessageRecord
                                 /\ Sendable(Message(k, NoSession, NewId, 0, d))
      BY <1>1, <2>1, <2>3, <2>4, MessageMade
    <2> QED BY <2>1, <2>2, <2>5
  <1>9. CASE m \in Redelivered
    <2>1. PICK i \in DOMAIN sent :
              m = [kind |-> sent[i].kind, key |-> sent[i].key, data |-> sent[i].data]
      BY <1>9 DEF Redelivered
    <2>2. Sendable(sent[i])
      BY DEF SentOK, SentOne
    <2> QED BY <2>1, <2>2, SentFacts DEF Sendable
  <1> QED BY <1>4, <1>5, <1>6, <1>7, <1>8, <1>9 DEF NewMessages

-----------------------------------------------------------------------------
(* The tables only grow *)

Grows == /\ DOMAIN nodes \subseteq DOMAIN nodes' /\ Len(nodes) <= Len(nodes')
         /\ \A i \in DOMAIN nodes : nodes'[i] = nodes[i]
         /\ Len(branches) <= Len(branches') /\ now <= now'

LEMMA FollowsStays ==
    ASSUME StoreTypes, StoreTypes', Grows
    PROVE  \A p \in Nat, c, d \in Nat :
              /\ p <= Len(nodes) /\ (p # Root => nodes[p].created < c) /\ c <= d
              => p <= Len(nodes') /\ (p # Root => nodes'[p].created < d)
  <1> SUFFICES ASSUME NEW p \in Nat, NEW c \in Nat, NEW d \in Nat,
                      p <= Len(nodes), p # Root => nodes[p].created < c, c <= d
               PROVE  p <= Len(nodes') /\ (p # Root => nodes'[p].created < d)
    OBVIOUS
  <1>1. DOMAIN nodes = 1..Len(nodes) /\ Len(nodes) \in Nat
        /\ \A i \in DOMAIN nodes : nodes[i].created \in Nat
    BY NodeFacts
  <1>2. nodes' \in Seq(NodeRecord)
    BY DEF StoreTypes
  <1>3. Len(nodes') \in Nat
    BY <1>2, SeqElement
  <1>4. p <= Len(nodes')
    BY <1>1, <1>3 DEF Grows
  <1>5. ASSUME p # Root PROVE nodes'[p] = nodes[p] /\ nodes[p].created \in Nat
    BY <1>1, <1>5 DEF Grows, Root
  <1> QED BY <1>4, <1>5

LEMMA SendableStays ==
    ASSUME StoreTypes, StoreTypes', Grows, NEW m, m.key \in MessageKeys, Sendable(m)
    PROVE  /\ m.key.session = NoSession <=> m.kind \in Infra
           /\ m.key.branch <= Len(branches')
           /\ m.kind = "fork" => branches' # <<>>
  <1>1. branches' \in Seq(Branch)
    BY DEF StoreTypes
  <1>2. Len(branches') \in Nat /\ Len(branches) \in Nat
    BY <1>1, SeqElement, SessionFacts
  <1>3. m.key.branch \in Nat
    BY DEF MessageKeys
  <1>4. m.kind = "fork" => Len(branches) # 0
    BY SessionFacts DEF Sendable
  <1>5. m.kind = "fork" => Len(branches') # 0
    BY <1>2, <1>4 DEF Grows
  <1> QED BY <1>2, <1>3, <1>5 DEF Sendable, Grows

\* What is true of a recorder stays true when others act.
LEMMA OthersStay ==
    ASSUME StoreTypes, StoreTypes', Grows, NEW r \in Recorders, recorders'[r] = recorders[r],
           RecorderOK(r)
    PROVE  RecorderOK(r)'
  <1> DEFINE q == recorders[r]
  <1>1. now \in Nat /\ now' \in Nat /\ now <= now'
    BY DEF StoreTypes, Grows
  <1>2. ASSUME (r \in Recording)' PROVE Sendable(recorders[r].message)'
    <2>1. r \in Recording /\ q.at \in {"looked", "called"}
      BY <1>2 DEF Recording
    <2>2. q.message \in MessageRecord /\ Sendable(q.message)
      BY <2>1, RecorderFacts DEF RecorderOK
    <2>3. q.message.key \in MessageKeys
      BY <2>2 DEF MessageRecord
    <2>4. /\ q.message.key.session = NoSession <=> q.message.kind \in Infra
          /\ q.message.key.branch <= Len(branches')
          /\ q.message.kind = "fork" => branches' # <<>>
      BY <2>2, <2>3, SendableStays
    <2> QED BY <2>4 DEF Sendable
  <1>3. ASSUME q.at = "looked" PROVE Follows(recorders[r].parent, now)'
    <2>1. q.parent \in Nat /\ Follows(q.parent, now)
      BY <1>3, RecorderFacts DEF RecorderOK
    <2> QED BY <1>1, <2>1, FollowsStays DEF Follows
  <1>4. ASSUME q.at = "called"
        PROVE  NodeReady(recorders[r].node, recorders[r].message)'
    <2>1. q.node \in NodeRecord /\ NodeReady(q.node, q.message)
      BY <1>4, RecorderFacts DEF RecorderOK
    <2>2. q.node.parent \in Nat /\ q.node.created \in Nat
      BY <2>1 DEF NodeRecord
    <2>3. /\ q.node.parent <= Len(nodes')
          /\ q.node.parent # Root => nodes'[q.node.parent].created < q.node.created
      BY <2>1, <2>2, FollowsStays DEF NodeReady, Follows
    <2> QED BY <1>1, <2>1, <2>2, <2>3 DEF NodeReady, Follows
  <1> QED BY <1>2, <1>3, <1>4 DEF RecorderOK

LEMMA NodeStays ==
    ASSUME StoreTypes, StoreTypes', Grows, NEW i \in DOMAIN nodes, NodeOK(i)
    PROVE  NodeOK(i)'
  <1>1. nodes'[i] = nodes[i] /\ nodes[i].parent \in Nat /\ nodes[i].created \in Nat
        /\ nodes[i].branch \in Nat
    BY NodeFacts DEF Grows
  <1>2. now \in Nat /\ now' \in Nat /\ now <= now'
    BY DEF StoreTypes, Grows
  <1>3. /\ nodes[i].parent <= Len(nodes')
        /\ nodes[i].parent # Root => nodes'[nodes[i].parent].created < nodes[i].created
    BY <1>1, FollowsStays DEF NodeOK, Follows
  <1>4. branches' \in Seq(Branch)
    BY DEF StoreTypes
  <1>5. Len(branches') \in Nat /\ Len(branches) \in Nat
    BY <1>4, SeqElement, SessionFacts
  <1> QED BY <1>1, <1>2, <1>3, <1>5 DEF NodeOK, Follows, Grows

LEMMA SentStays ==
    ASSUME StoreTypes, StoreTypes', Grows, NEW i \in DOMAIN sent, sent'[i] = sent[i], SentOne(i)
    PROVE  SentOne(i)'
  <1>1. sent[i].key \in MessageKeys /\ sent[i].hash \in Hashes
    BY SentFacts
  <1>2. /\ sent[i].key.session = NoSession <=> sent[i].kind \in Infra
        /\ sent[i].key.branch <= Len(branches')
        /\ sent[i].kind = "fork" => branches' # <<>>
    BY <1>1, SendableStays DEF SentOne
  <1>3. nodes' \in Seq(NodeRecord)
    BY DEF StoreTypes
  <1>4. Len(nodes') \in Nat /\ Len(nodes) \in Nat
    BY <1>3, SeqElement, NodeFacts
  <1>5. sent[i].hash <= Len(nodes')
    BY <1>1, <1>4 DEF SentOne, Grows, Hashes, Missing
  <1> QED BY <1>2, <1>5 DEF SentOne, Sendable

\* A step that inserts nothing.
LEMMA TablesKept ==
    ASSUME StoreInv, StoreTypes', Grows, UNCHANGED <<nodes, rows, sent>>,
           NEW r \in Recorders, \A q \in Recorders : q # r => recorders'[q] = recorders[q],
           RecorderOK(r)'
    PROVE  NodesInOrder' /\ RecordersOK' /\ SentOK' /\ TablesSent' /\ FirstStored'
  <1>1. StoreTypes /\ NodesInOrder /\ RecordersOK /\ SentOK /\ TablesSent /\ FirstStored
    BY DEF StoreInv
  <1>2. NodesInOrder'
    <2>1. ASSUME NEW i \in DOMAIN nodes PROVE NodeOK(i)'
      BY <1>1, NodeStays DEF NodesInOrder
    <2> QED BY <2>1 DEF NodesInOrder
  <1>3. RecordersOK'
    <2>1. ASSUME NEW q \in Recorders, q # r PROVE RecorderOK(q)'
      BY <1>1, <2>1, OthersStay DEF RecordersOK
    <2> QED BY <2>1 DEF RecordersOK
  <1>4. SentOK'
    <2>1. ASSUME NEW i \in DOMAIN sent PROVE SentOne(i)'
      BY <1>1, SentStays DEF SentOK
    <2> QED BY <2>1 DEF SentOK
  <1>5. TablesSent' /\ FirstStored'
    BY <1>1 DEF TablesSent, FirstStored, FirstOf
  <1> QED BY <1>2, <1>3, <1>4, <1>5

\* The recorders that have begun, after a step of one of them.
LEMMA RecordingChanges ==
    ASSUME StoreTypes, RecordingBounded, NEW r \in Recorders,
           \A q \in Recorders : q # r => recorders'[q] = recorders[q]
    PROVE  /\ (r \in Recording)' => Recording' = Recording \cup {r}
           /\ ~ (r \in Recording)' => Recording' = Recording \ {r}
           /\ IsFiniteSet(Recording')
           /\ Cardinality(Recording) \in Nat
           /\ (r \in Recording)' /\ r \notin Recording
                  => Cardinality(Recording') = Cardinality(Recording) + 1
           /\ (r \in Recording)' <=> r \in Recording
                  => Cardinality(Recording') = Cardinality(Recording)
           /\ ~ (r \in Recording)' /\ r \in Recording
                  => Cardinality(Recording') = Cardinality(Recording) - 1
  <1>1. /\ (r \in Recording)' => Recording' = Recording \cup {r}
        /\ ~ (r \in Recording)' => Recording' = Recording \ {r}
    BY DEF Recording
  <1>2. IsFiniteSet(Recording) /\ Cardinality(Recording) \in Nat
    BY FS_CardinalityType DEF RecordingBounded
  <1>3. /\ IsFiniteSet(Recording \cup {r})
        /\ Cardinality(Recording \cup {r}) =
              IF r \in Recording THEN Cardinality(Recording) ELSE Cardinality(Recording) + 1
    BY <1>2, FS_AddElement
  <1>4. /\ IsFiniteSet(Recording \ {r})
        /\ Cardinality(Recording \ {r}) =
              IF r \in Recording THEN Cardinality(Recording) - 1 ELSE Cardinality(Recording)
    BY <1>2, FS_RemoveElement
  <1> QED BY <1>1, <1>2, <1>3, <1>4

-----------------------------------------------------------------------------
(* The steps of a recorder *)

\* A parent that is looked up is in the table and older than what follows.
LEMMA ParentFollows ==
    ASSUME StoreTypes, NodesInOrder, NEW m \in MessageRecord
    PROVE  Parent(m) \in Nat /\ Follows(Parent(m), now)
  <1>1. \A i \in DOMAIN nodes : i \in Nat /\ i <= Len(nodes) /\ nodes[i].created < now
    BY NodeFacts DEF NodesInOrder, NodeOK
  <1>2. Root \in Nat /\ Root <= Len(nodes)
    BY NodeFacts DEF Root
  <1>3. \A h : Found(h) = Root \/ Found(h) \in DOMAIN nodes
    BY DEF Found
  <1>4. \A b : LatestOnBranch(b) = Root \/ LatestOnBranch(b) \in DOMAIN nodes
    BY LatestIsLast
  <1>5. Parent(m) = Root \/ Parent(m) \in DOMAIN nodes
    BY <1>3, <1>4 DEF Parent
  <1> QED BY <1>1, <1>2, <1>5 DEF Follows

LEMMA SnapshotTyped ==
    ASSUME StoreTypes, NEW m \in MessageRecord, NEW p \in Nat, p <= Len(nodes)
    PROVE  Snapshot(m, p) \in Snapshots
  <1>1. m.data.state \in Snapshots
    BY DEF MessageRecord, MessageData
  <1>2. NoState \in Snapshots
    BY DEF Snapshots
  <1>3. ASSUME p # Root PROVE NodeOffWire(nodes[p]).snapshot = NoState
    <2>1. nodes[p] \in NodeRecord
      BY <1>3, NodeFacts DEF Root
    <2> QED BY <2>1 DEF NodeOffWire, NodeRecord
  <1> QED BY <1>1, <1>2, <1>3 DEF Snapshot

LEMMA LookedKeeps ==
    ASSUME StoreInv, NEW r \in Recorders, recorders[r] = IdleRecorder, NewId <= MaxSent,
           NEW m \in NewMessages, NEW p \in Nat, Follows(p, now), Looked(r, m, p),
           losses' \in 0..MaxLosses, UNCHANGED <<nodes, rows, branches, sent, now>>
    PROVE  StoreInv'
  <1>1. StoreTypes /\ SentOK /\ RecordingBounded
    BY DEF StoreInv
  <1>2. m \in MessageRecord /\ Sendable(m)
    BY <1>1, NewMessagesOK
  <1>3. /\ recorders' = [recorders EXCEPT ![r] = [at |-> "looked", message |-> m, parent |-> p,
                                                 snapshot |-> Snapshot(m, p)]]
        /\ recorders \in [Recorders -> RecorderStates]
    BY <1>1 DEF Looked, StoreTypes
  <1>4. /\ recorders'[r] = [at |-> "looked", message |-> m, parent |-> p,
                            snapshot |-> Snapshot(m, p)]
        /\ \A q \in Recorders : q # r => recorders'[q] = recorders[q]
    BY <1>3
  <1>5. recorders'[r] \in RecorderStates
    <2>1. Snapshot(m, p) \in Snapshots
      BY <1>1, <1>2, SnapshotTyped DEF Follows
    <2> QED BY <1>2, <1>4, <2>1 DEF RecorderStates
  <1>6. StoreTypes'
    BY <1>1, <1>3, <1>5 DEF StoreTypes
  <1>7. Grows
    BY <1>1, NodeFacts, SessionFacts DEF Grows, StoreTypes
  <1>8. RecorderOK(r)'
    BY <1>2, <1>4 DEF RecorderOK, Sendable, Follows, Recording
  <1>9. NodesInOrder' /\ RecordersOK' /\ SentOK' /\ TablesSent' /\ FirstStored'
    BY <1>4, <1>6, <1>7, <1>8, TablesKept
  <1>10. RecordingBounded'
    <2>1. (r \in Recording)' /\ r \notin Recording
      BY <1>4 DEF Recording, IdleRecorder
    <2>2. IsFiniteSet(Recording') /\ Cardinality(Recording') = Cardinality(Recording) + 1
          /\ Cardinality(Recording) \in Nat
      BY <1>1, <1>4, <2>1, RecordingChanges
    <2>3. Len(sent) \in Nat /\ Len(sent) + Cardinality(Recording) + 1 <= MaxSent
      BY <1>1, SentFacts DEF NewId
    <2> QED BY <2>2, <2>3, StoreAssumption DEF RecordingBounded
  <1> QED BY <1>6, <1>9, <1>10 DEF StoreInv

LEMMA LookKeeps ==
    ASSUME StoreInv, NEW r \in Recorders, NEW m \in NewMessages, Look(r, m)
    PROVE  StoreInv'
  <1>1. StoreTypes /\ NodesInOrder /\ SentOK /\ RecordingBounded
    BY DEF StoreInv
  <1>2. m \in MessageRecord
    BY <1>1, NewMessagesOK
  <1>3. Parent(m) \in Nat /\ Follows(Parent(m), now)
    BY <1>1, <1>2, ParentFollows
  <1> QED BY <1>1, <1>3, LookedKeeps DEF Look, StoreTypes

LEMMA LookFailsKeeps ==
    ASSUME StoreInv, NEW r \in Recorders, NEW m \in NewMessages, LookFails(r, m)
    PROVE  StoreInv'
  <1>1. StoreTypes
    BY DEF StoreInv
  <1>2. Root \in Nat /\ Follows(Root, now)
    BY <1>1, NodeFacts DEF Root, Follows
  <1>3. losses' \in 0..MaxLosses
    BY <1>1, StoreAssumption DEF LookFails, StoreTypes
  <1> QED BY <1>2, <1>3, LookedKeeps DEF LookFails

LEMMA StampKeeps ==
    ASSUME StoreInv, NEW r \in Recorders, Stamp(r)
    PROVE  StoreInv'
  <1> DEFINE m == recorders[r].message
             n == [kind |-> m.kind, parent |-> recorders[r].parent,
                   session |-> m.key.session, submission |-> m.key.submission,
                   branch |-> m.key.branch, created |-> now,
                   snapshot |-> recorders[r].snapshot, content |-> Content(m)]
  <1>1. StoreTypes /\ RecordersOK /\ RecordingBounded
    BY DEF StoreInv
  <1>2. recorders[r].at = "looked" /\ now' = now + 1
        /\ UNCHANGED <<nodes, rows, branches, sent, losses>>
    BY DEF Stamp
  <1>3. /\ recorders' = [recorders EXCEPT ![r] = [at |-> "called", message |-> m, node |-> n]]
        /\ recorders \in [Recorders -> RecorderStates]
    BY <1>1 DEF Stamp, StoreTypes
  <1>4. /\ recorders'[r] = [at |-> "called", message |-> m, node |-> n]
        /\ \A q \in Recorders : q # r => recorders'[q] = recorders[q]
    BY <1>3
  <1>5. /\ m \in MessageRecord /\ recorders[r].parent \in Nat
        /\ recorders[r].snapshot \in Snapshots
    BY <1>1, <1>2, RecorderFacts
  <1>6. Sendable(m) /\ Follows(recorders[r].parent, now)
    BY <1>1, <1>2 DEF RecordersOK, RecorderOK, Recording
  <1>7. now \in Nat
    BY <1>1 DEF StoreTypes
  <1>8. n \in NodeRecord
    <2>1. m.kind \in Kinds /\ m.key \in MessageKeys /\ m.data \in MessageData
      BY <1>5 DEF MessageRecord
    <2>2. /\ m.key.session \in Range(Sessions) \cup {NoSession}
          /\ m.key.submission \in Nat /\ m.key.branch \in Nat
      BY <2>1 DEF MessageKeys
    <2>3. m.data.body \in MessageBodies /\ NoState \in MessageBodies
      BY <2>1 DEF MessageData, MessageBodies
    <2>4. Content(m) \in MessageData \cup MessageBodies
      BY <2>1, <2>3 DEF Content
    <2> QED BY <1>5, <1>7, <2>1, <2>2, <2>4 DEF NodeRecord
  <1>9. recorders'[r] \in RecorderStates
    BY <1>4, <1>5, <1>8 DEF RecorderStates
  <1>10. StoreTypes'
    BY <1>1, <1>2, <1>3, <1>7, <1>9 DEF StoreTypes
  <1>11. Grows
    BY <1>1, <1>2, <1>7, NodeFacts, SessionFacts DEF Grows
  <1>12. RecorderOK(r)'
    <2>1. NodeReady(recorders[r].node, recorders[r].message)'
      BY <1>2, <1>4, <1>6, <1>7 DEF NodeReady, Follows
    <2>2. Sendable(recorders[r].message)'
      BY <1>2, <1>4, <1>6 DEF Sendable
    <2> QED BY <1>4, <2>1, <2>2 DEF RecorderOK
  <1>13. NodesInOrder' /\ RecordersOK' /\ SentOK' /\ TablesSent' /\ FirstStored'
    BY <1>2, <1>4, <1>10, <1>11, <1>12, TablesKept
  <1>14. RecordingBounded'
    <2>1. (r \in Recording)' /\ r \in Recording
      BY <1>2, <1>4 DEF Recording
    <2>2. IsFiniteSet(Recording') /\ Cardinality(Recording') = Cardinality(Recording)
      BY <1>1, <1>4, <2>1, RecordingChanges
    <2> QED BY <1>1, <1>2, <2>2 DEF RecordingBounded
  <1> QED BY <1>10, <1>13, <1>14 DEF StoreInv

LEMMA CreateBranchKeeps ==
    ASSUME StoreInv, NEW r \in Recorders, CreateBranch(r)
    PROVE  StoreInv'
  <1> DEFINE b == [name |-> recorders[r].name, session |-> recorders[r].session]
  <1>1. StoreTypes /\ RecordingBounded
    BY DEF StoreInv
  <1>2. /\ recorders[r].at = "branching"
        /\ branches' = IF b \in Range(branches) THEN branches ELSE Append(branches, b)
        /\ recorders' = [recorders EXCEPT ![r] = IdleRecorder]
        /\ UNCHANGED <<nodes, rows, sent, now, losses>>
    BY DEF CreateBranch
  <1>3. recorders \in [Recorders -> RecorderStates] /\ branches \in Seq(Branch)
        /\ Len(Sessions) <= Len(branches)
    BY <1>1 DEF StoreTypes
  <1>4. /\ recorders'[r] = IdleRecorder
        /\ \A q \in Recorders : q # r => recorders'[q] = recorders[q]
        /\ recorders' \in [Recorders -> RecorderStates]
    BY <1>2, <1>3 DEF RecorderStates
  <1>5. b \in Branch
    BY <1>1, <1>2, RecorderFacts DEF Branch, MessageBodies
  <1>6. branches' \in Seq(Branch) /\ Len(branches) <= Len(branches')
        /\ Len(Sessions) <= Len(branches')
    <2>1. Append(branches, b) \in Seq(Branch) /\ Len(Append(branches, b)) = Len(branches) + 1
      BY <1>3, <1>5, AppendProperties
    <2>2. Len(branches) \in Nat /\ Len(Sessions) \in Nat
      BY <1>1, SessionFacts, StoreAssumption, SeqElement
    <2> QED BY <1>2, <1>3, <2>1, <2>2
  <1>7. StoreTypes'
    BY <1>1, <1>2, <1>4, <1>6 DEF StoreTypes
  <1>8. Grows
    BY <1>1, <1>2, <1>6, NodeFacts DEF Grows, StoreTypes
  <1>9. RecorderOK(r)'
    BY <1>4 DEF RecorderOK, Recording, IdleRecorder
  <1>10. NodesInOrder' /\ RecordersOK' /\ SentOK' /\ TablesSent' /\ FirstStored'
    BY <1>2, <1>4, <1>7, <1>8, <1>9, TablesKept
  <1>11. RecordingBounded'
    <2>1. ~ (r \in Recording)' /\ r \notin Recording
      BY <1>2, <1>4 DEF Recording, IdleRecorder
    <2>2. IsFiniteSet(Recording') /\ Cardinality(Recording') = Cardinality(Recording)
      BY <1>1, <1>4, <2>1, RecordingChanges
    <2> QED BY <1>1, <1>2, <2>2 DEF RecordingBounded
  <1> QED BY <1>7, <1>10, <1>11 DEF StoreInv

-----------------------------------------------------------------------------
(* The service *)

\* What the call of a recorder does to the tables, when it ends with this hash.
Stores(r, hash, ok) ==
    LET m == recorders[r].message IN
    /\ nodes' \in Seq(NodeRecord) /\ rows' \in Seq(MessageRows) /\ Len(rows') = Len(nodes')
    /\ Grows /\ DOMAIN nodes' \subseteq DOMAIN nodes \cup {hash}
    /\ \A h \in DOMAIN rows : rows[h] # NoRow => rows'[h] = rows[h]
    /\ \A h \in DOMAIN rows' : rows'[h] # NoRow =>
          \/ h \in DOMAIN rows /\ rows'[h] = rows[h]
          \/ rows'[h].message_id = m.data.id
    /\ hash \in Hashes /\ hash <= Len(nodes') /\ hash # 0 /\ (ok => hash # Missing)
    /\ hash \in DOMAIN nodes' \ DOMAIN nodes => NodeOK(hash)'
    /\ /\ ok /\ m.kind # "fork" /\ hash \notin DOMAIN nodes
       /\ \A h \in DOMAIN rows : rows[h] # NoRow => rows[h].message_id # m.data.id
       => /\ rows'[hash] = RowOf(m)
          /\ nodes'[hash].session = m.key.session
          /\ nodes'[hash].submission = m.key.submission
          /\ nodes'[hash].branch = m.key.branch

LEMMA RowFacts ==
    ASSUME StoreTypes
    PROVE  /\ DOMAIN rows = DOMAIN nodes
           /\ \A h \in DOMAIN rows : rows[h] \in MessageRows
  <1>1. rows \in Seq(MessageRows) /\ Len(rows) = Len(nodes)
    BY DEF StoreTypes
  <1> QED BY <1>1, SeqElement, NodeFacts

\* The recorder and what was sent.
LEMMA EndTypes ==
    ASSUME StoreInv, NEW r \in Recorders, recorders[r].at = "called",
           NEW hash, NEW ok \in BOOLEAN, Stores(r, hash, ok), RecordingEnds(r, hash, ok),
           UNCHANGED <<branches, now>>, losses' \in 0..MaxLosses
    PROVE  /\ StoreTypes'
           /\ \A q \in Recorders : q # r => recorders'[q] = recorders[q]
           /\ recorders'[r].at \in {"idle", "branching"}
           /\ sent' = Append(sent, [kind |-> recorders[r].message.kind,
                                    key |-> recorders[r].message.key,
                                    data |-> recorders[r].message.data,
                                    hash |-> hash, ok |-> ok])
           /\ Len(sent') = Len(sent) + 1
           /\ sent'[Len(sent) + 1] = [kind |-> recorders[r].message.kind,
                                      key |-> recorders[r].message.key,
                                      data |-> recorders[r].message.data,
                                      hash |-> hash, ok |-> ok]
           /\ \A i \in DOMAIN sent : sent'[i] = sent[i]
           /\ DOMAIN sent' = DOMAIN sent \cup {Len(sent) + 1}
  <1> DEFINE m == recorders[r].message
             new == [kind |-> m.kind, key |-> m.key, data |-> m.data, hash |-> hash, ok |-> ok]
             rest == IF m.kind = "fork"
                     THEN [at |-> "branching", name |-> m.data.body, session |-> m.key.session]
                     ELSE IdleRecorder
  <1>1. StoreTypes /\ RecordersOK
    BY DEF StoreInv
  <1>2. /\ recorders' = [recorders EXCEPT ![r] = rest]
        /\ recorders \in [Recorders -> RecorderStates]
        /\ sent' = Append(sent, new) /\ sent \in Seq(SentRecord)
    BY <1>1 DEF RecordingEnds, StoreTypes
  <1>3. m \in MessageRecord /\ Sendable(m)
    BY <1>1, RecorderFacts DEF RecordersOK, RecorderOK, Recording
  <1>4. m.kind \in Kinds /\ m.key \in MessageKeys /\ m.data \in MessageData
    BY <1>3 DEF MessageRecord
  <1>5. new \in SentRecord
    BY <1>4 DEF SentRecord, Stores
  <1>6. sent' \in Seq(SentRecord) /\ Len(sent') = Len(sent) + 1
        /\ sent'[Len(sent) + 1] = new /\ \A i \in DOMAIN sent : sent'[i] = sent[i]
        /\ DOMAIN sent' = DOMAIN sent \cup {Len(sent) + 1}
    <2>1. /\ Append(sent, new) \in Seq(SentRecord) /\ Len(Append(sent, new)) = Len(sent) + 1
          /\ Append(sent, new)[Len(sent) + 1] = new
          /\ \A i \in 1..Len(sent) : Append(sent, new)[i] = sent[i]
      BY <1>2, <1>5, AppendProperties
    <2>2. DOMAIN sent = 1..Len(sent) /\ Len(sent) \in Nat
      BY <1>1, SentFacts
    <2>3. DOMAIN sent' = 1..Len(sent')
      BY <1>2, <2>1, SeqElement
    <2> HIDE DEF new
    <2> QED BY <1>2, <2>1, <2>2, <2>3
  <1>7. rest \in RecorderStates
    <2>1. CASE m.kind = "fork"
      <3>1. m.key.session # NoSession /\ m.key.session \in Range(Sessions) \cup {NoSession}
        BY <1>3, <1>4, <2>1 DEF Sendable, Infra, MessageKeys
      <3>2. m.data.body \in MessageBodies
        BY <1>4 DEF MessageData
      <3> QED BY <2>1, <3>1, <3>2 DEF RecorderStates
    <2> QED BY <2>1 DEF RecorderStates
  <1>8. StoreTypes'
    <2>1. recorders' \in [Recorders -> RecorderStates]
      BY <1>2, <1>7
    <2>2. nodes' \in Seq(NodeRecord) /\ rows' \in Seq(MessageRows) /\ Len(rows') = Len(nodes')
      BY DEF Stores
    <2> QED BY <1>1, <1>6, <2>1, <2>2 DEF StoreTypes
  <1>9. /\ recorders'[r] = rest
        /\ \A q \in Recorders : q # r => recorders'[q] = recorders[q]
    BY <1>2
  <1>10. rest.at \in {"idle", "branching"}
    BY DEF IdleRecorder
  <1> QED BY <1>2, <1>6, <1>8, <1>9, <1>10

LEMMA EndKeeps ==
    ASSUME StoreInv, NEW r \in Recorders, recorders[r].at = "called",
           NEW hash, NEW ok \in BOOLEAN, Stores(r, hash, ok), RecordingEnds(r, hash, ok),
           UNCHANGED <<branches, now>>, losses' \in 0..MaxLosses
    PROVE  StoreInv'
  <1> DEFINE m == recorders[r].message
             new == [kind |-> m.kind, key |-> m.key, data |-> m.data, hash |-> hash, ok |-> ok]
  <1> PICK last : last = Len(sent) + 1
    OBVIOUS
  <1>1. /\ StoreTypes /\ NodesInOrder /\ RecordersOK /\ SentOK /\ TablesSent /\ FirstStored
        /\ RecordingBounded
    BY DEF StoreInv
  <1>2. /\ StoreTypes'
        /\ \A q \in Recorders : q # r => recorders'[q] = recorders[q]
        /\ recorders'[r].at \in {"idle", "branching"}
        /\ Len(sent') = Len(sent) + 1 /\ sent'[last] = new
        /\ \A i \in DOMAIN sent : sent'[i] = sent[i]
        /\ DOMAIN sent' = DOMAIN sent \cup {last}
    BY EndTypes
  <1>3. Grows /\ DOMAIN nodes' \subseteq DOMAIN nodes \cup {hash}
    BY DEF Stores
  <1>4. m \in MessageRecord /\ Sendable(m)
    BY <1>1, RecorderFacts DEF RecordersOK, RecorderOK, Recording
  <1>5. DOMAIN rows = DOMAIN nodes /\ DOMAIN rows' = DOMAIN nodes'
    <2>1. rows' \in Seq(MessageRows) /\ nodes' \in Seq(NodeRecord) /\ Len(rows') = Len(nodes')
      BY <1>2 DEF StoreTypes
    <2> QED BY <1>1, <2>1, RowFacts, SeqElement
  <1>6. DOMAIN sent = 1..Len(sent) /\ Len(sent) \in Nat
    BY <1>1, SentFacts
  <1>7. NodesInOrder'
    <2>1. ASSUME NEW i \in DOMAIN nodes PROVE NodeOK(i)'
      BY <1>1, <1>2, <1>3, NodeStays DEF NodesInOrder
    <2>2. hash \in DOMAIN nodes' \ DOMAIN nodes => NodeOK(hash)'
      BY DEF Stores
    <2> QED BY <1>3, <2>1, <2>2 DEF NodesInOrder
  <1>8. RecordersOK'
    <2>1. ASSUME NEW q \in Recorders, q # r PROVE RecorderOK(q)'
      BY <1>1, <1>2, <1>3, <2>1, OthersStay DEF RecordersOK
    <2>2. RecorderOK(r)'
      BY <1>2 DEF RecorderOK, Recording
    <2> QED BY <2>1, <2>2 DEF RecordersOK
  <1>9. SentOK'
    <2>1. ASSUME NEW i \in DOMAIN sent PROVE SentOne(i)'
      BY <1>1, <1>2, <1>3, SentStays DEF SentOK
    <2>2. SentOne(last)'
      <3>1. m.key \in MessageKeys
        BY <1>4 DEF MessageRecord
      <3>2. /\ m.key.session = NoSession <=> m.kind \in Infra
            /\ m.key.branch <= Len(branches')
            /\ m.kind = "fork" => branches' # <<>>
        BY <1>1, <1>2, <1>3, <1>4, <3>1, SendableStays
      <3>3. hash <= Len(nodes') /\ hash # 0 /\ (ok => hash # Missing)
        BY DEF Stores
      <3>4. /\ sent'[last].key = m.key /\ sent'[last].kind = m.kind
            /\ sent'[last].hash = hash /\ sent'[last].ok = ok
        BY <1>2
      <3> HIDE DEF m
      <3> QED BY <3>2, <3>3, <3>4 DEF SentOne, Sendable
    <2> QED BY <1>2, <2>1, <2>2 DEF SentOK
  <1>10. TablesSent'
    <2>1. ASSUME NEW h \in DOMAIN nodes' PROVE \E i \in DOMAIN sent' : sent'[i].hash = h
      <3>1. CASE h \in DOMAIN nodes
        BY <1>1, <1>2, <3>1 DEF TablesSent
      <3>2. CASE h = hash
        BY <1>2, <3>2
      <3> QED BY <1>3, <3>1, <3>2
    <2>2. ASSUME NEW h \in DOMAIN rows', rows'[h] # NoRow
          PROVE  \E i \in DOMAIN sent' : sent'[i].data.id = rows'[h].message_id
      <3>1. \/ h \in DOMAIN rows /\ rows'[h] = rows[h]
            \/ rows'[h].message_id = m.data.id
        BY <2>2 DEF Stores
      <3>2. CASE h \in DOMAIN rows /\ rows'[h] = rows[h]
        BY <1>1, <1>2, <2>2, <3>2 DEF TablesSent
      <3>3. CASE rows'[h].message_id = m.data.id
        BY <1>2, <3>3
      <3> QED BY <3>1, <3>2, <3>3
    <2> QED BY <2>1, <2>2 DEF TablesSent
  <1>11. FirstStored'
    <2> DEFINE Stored(i) ==
                  /\ rows[sent[i].hash] = RowOf([kind |-> sent[i].kind, key |-> sent[i].key,
                                                 data |-> sent[i].data])
                  /\ nodes[sent[i].hash].session = sent[i].key.session
                  /\ nodes[sent[i].hash].submission = sent[i].key.submission
                  /\ nodes[sent[i].hash].branch = sent[i].key.branch
    <2>1. ASSUME NEW i \in DOMAIN sent, FirstOf(i)' PROVE Stored(i)'
      <3>1. 1..(i - 1) \subseteq DOMAIN sent
        BY <1>6
      <3>2. FirstOf(i)
        BY <1>2, <2>1, <3>1 DEF FirstOf
      <3>3. Stored(i)
        BY <1>1, <3>2 DEF FirstStored
      <3>4. sent[i].hash \in DOMAIN nodes
        <4>1. sent[i].ok /\ SentOne(i) /\ sent[i].hash \in Hashes
          BY <1>1, <3>2, SentFacts DEF SentOK, FirstOf
        <4> QED BY <1>1, <4>1, NodeFacts DEF SentOne, Hashes
      <3>5. rows[sent[i].hash] # NoRow
        BY <1>1, <3>3, SentFacts, RowIds
      <3>6. /\ rows'[sent[i].hash] = rows[sent[i].hash]
            /\ nodes'[sent[i].hash] = nodes[sent[i].hash]
        BY <1>5, <3>4, <3>5 DEF Stores, Grows
      <3>7. sent'[i] = sent[i]
        BY <1>2
      <3> QED BY <3>3, <3>6, <3>7
    <2>2. ASSUME FirstOf(last)' PROVE Stored(last)'
      <3>1. sent'[last] = new
        BY <1>2
      <3>2. /\ m.kind \in Answers \cup {"invoke"} /\ ok
            /\ \A j \in DOMAIN sent : sent[j].hash # hash /\ sent[j].data.id # m.data.id
        <4>1. /\ sent'[last].kind \in Answers \cup {"invoke"} /\ sent'[last].ok
              /\ \A j \in 1..(last - 1) : /\ sent'[j].hash # sent'[last].hash
                                         /\ sent'[j].data.id # sent'[last].data.id
          BY <2>2 DEF FirstOf
        <4>2. /\ sent'[last].kind = m.kind /\ sent'[last].ok = ok /\ sent'[last].hash = hash
              /\ sent'[last].data = m.data
          BY <3>1
        <4>3. 1..(last - 1) = DOMAIN sent
          BY <1>6
        <4> QED BY <1>2, <4>1, <4>2, <4>3
      <3>3. m.kind # "fork"
        BY <3>2 DEF Answers
      <3>4. hash \notin DOMAIN nodes
        BY <1>1, <3>2 DEF TablesSent
      <3>5. \A h \in DOMAIN rows : rows[h] # NoRow => rows[h].message_id # m.data.id
        BY <1>1, <3>2 DEF TablesSent
      <3>6. /\ rows'[hash] = RowOf(m)
            /\ nodes'[hash].session = m.key.session
            /\ nodes'[hash].submission = m.key.submission
            /\ nodes'[hash].branch = m.key.branch
        BY <3>2, <3>3, <3>4, <3>5 DEF Stores
      <3>7. m = [kind |-> m.kind, key |-> m.key, data |-> m.data]
        BY <1>4 DEF MessageRecord
      <3>8. /\ sent'[last].kind = m.kind /\ sent'[last].key = m.key
            /\ sent'[last].data = m.data /\ sent'[last].hash = hash
        BY <3>1
      <3> HIDE DEF m
      <3> QED BY <3>6, <3>7, <3>8
    <2> QED BY <1>2, <2>1, <2>2 DEF FirstStored
  <1>12. RecordingBounded'
    <2>1. ~ (r \in Recording)' /\ r \in Recording
      BY <1>2 DEF Recording
    <2>2. IsFiniteSet(Recording') /\ Cardinality(Recording') = Cardinality(Recording) - 1
          /\ Cardinality(Recording) \in Nat
      BY <1>1, <1>2, <2>1, RecordingChanges
    <2> QED BY <1>1, <1>2, <1>6, <2>2 DEF RecordingBounded
  <1> QED BY <1>2, <1>7, <1>8, <1>9, <1>10, <1>11, <1>12 DEF StoreInv

\* The node of a recorder, or of a fork with the branch that the store finds.
LEMMA NodesForOK ==
    ASSUME StoreTypes, RecordersOK, NEW r \in Recorders, recorders[r].at = "called",
           NEW n \in NodesFor(r)
    PROVE  LET m == recorders[r].message IN
           /\ m \in MessageRecord /\ n \in NodeRecord
           /\ Follows(n.parent, n.created) /\ n.created < now
           /\ n.session = NoSession <=> n.kind \in Infra
           /\ n.branch <= Len(branches)
           /\ n.session = m.key.session /\ n.submission = m.key.submission
           /\ m.kind # "fork" => n.branch = m.key.branch
  <1> DEFINE m == recorders[r].message
             made == recorders[r].node
  <1>1. m \in MessageRecord /\ made \in NodeRecord
    BY RecorderFacts
  <1>2. Sendable(m) /\ NodeReady(made, m)
    BY DEF RecordersOK, RecorderOK, Recording
  <1>3. CASE made.kind # "fork"
    <2>1. n = made
      BY <1>3 DEF NodesFor
    <2> QED BY <1>1, <1>2, <2>1 DEF NodeReady, Sendable
  <1>4. CASE made.kind = "fork"
    <2>1. PICK b \in ForkBranches(m.data.body) : n = [made EXCEPT !.branch = b]
      BY <1>4 DEF NodesFor
    <2>2. m.kind = "fork" /\ branches # <<>>
      BY <1>2, <1>4 DEF NodeReady, Sendable
    <2>3. b \in Nat /\ b <= Len(branches)
      <3>1. Len(branches) # 0 /\ Len(branches) \in Nat
        BY <2>2, SessionFacts
      <3> QED BY <2>1, <3>1, SessionFacts DEF ForkBranches
    <2>4. /\ n \in NodeRecord /\ n.parent = made.parent /\ n.created = made.created
          /\ n.kind = made.kind /\ n.session = made.session
          /\ n.submission = made.submission /\ n.branch = b
      BY <1>1, <2>1, <2>3 DEF NodeRecord
    <2> QED BY <1>1, <1>2, <2>2, <2>3, <2>4 DEF NodeReady, Sendable
  <1> QED BY <1>3, <1>4

\* INSERT OR IGNORE of a node.
LEMMA NodeInserted ==
    ASSUME StoreTypes, NEW n \in NodeRecord,
           Follows(n.parent, n.created), n.created < now,
           n.session = NoSession <=> n.kind \in Infra, n.branch <= Len(branches),
           InsertNode(n), now' = now, NEW hash, hash = HashOf(n)
    PROVE  hash \in DOMAIN nodes' \ DOMAIN nodes => NodeOK(hash)'
  <1> SUFFICES ASSUME hash \in DOMAIN nodes' \ DOMAIN nodes
               PROVE  NodeOK(hash)'
    OBVIOUS
  <1>1. SameHash(n) = {}
    BY DEF HashOf, SameHash
  <1>2. hash = Len(nodes) + 1 /\ nodes' = Append(nodes, n) /\ branches' = branches
    BY <1>1 DEF HashOf, InsertNode
  <1>3. /\ nodes'[hash] = n /\ Len(nodes') = Len(nodes) + 1 /\ Len(nodes) \in Nat
        /\ \A i \in DOMAIN nodes : nodes'[i] = nodes[i]
    <2>1. nodes \in Seq(NodeRecord)
      BY DEF StoreTypes
    <2> QED BY <1>2, <2>1, AppendProperties, NodeFacts
  <1>4. n.parent \in Nat
    BY DEF NodeRecord
  <1>5. n.parent <= Len(nodes) /\ (n.parent # Root => nodes[n.parent].created < n.created)
    BY DEF Follows
  <1>6. n.parent # Root => nodes'[n.parent].created < n.created
    BY <1>3, <1>4, <1>5, NodeFacts DEF Root
  <1>7. n.parent < hash /\ n.parent <= Len(nodes')
    BY <1>2, <1>3, <1>4, <1>5
  <1> QED BY <1>2, <1>3, <1>6, <1>7 DEF NodeOK, Follows

LEMMA NodesGrow ==
    ASSUME StoreTypes, NEW n \in NodeRecord, InsertNode(n), now' = now,
           NEW hash, hash = HashOf(n)
    PROVE  /\ nodes' \in Seq(NodeRecord) /\ Grows
           /\ DOMAIN nodes' = DOMAIN nodes \cup {hash} /\ hash \in Nat /\ hash # 0
           /\ hash <= Len(nodes')
           /\ hash \notin DOMAIN nodes => /\ nodes'[hash] = n /\ hash = Len(nodes) + 1
                                         /\ Len(nodes') = Len(nodes) + 1
           /\ hash \in DOMAIN nodes => nodes' = nodes
  <1>1. nodes \in Seq(NodeRecord) /\ now \in Nat /\ branches' = branches
    BY DEF StoreTypes, InsertNode
  <1>2. DOMAIN nodes = 1..Len(nodes) /\ Len(nodes) \in Nat /\ Len(branches) \in Nat
    BY NodeFacts, SessionFacts
  <1>3. CASE SameHash(n) = {}
    <2>1. hash = Len(nodes) + 1 /\ nodes' = Append(nodes, n)
      BY <1>3 DEF HashOf, InsertNode
    <2>2. /\ nodes' \in Seq(NodeRecord) /\ Len(nodes') = Len(nodes) + 1 /\ nodes'[hash] = n
          /\ \A i \in 1..Len(nodes) : nodes'[i] = nodes[i]
      BY <1>1, <2>1, AppendProperties
    <2>3. DOMAIN nodes' = 1..(Len(nodes) + 1)
      BY <2>2, SeqElement
    <2>4. hash \notin DOMAIN nodes /\ hash \in Nat /\ hash # 0
      BY <1>2, <2>1
    <2>5. DOMAIN nodes' = DOMAIN nodes \cup {hash}
      BY <1>2, <2>1, <2>3
    <2>6. Grows
      <3>1. Len(nodes) <= Len(nodes') /\ Len(branches) <= Len(branches') /\ now <= now'
        BY <1>1, <1>2, <2>2
      <3> QED BY <1>2, <2>2, <2>5, <3>1 DEF Grows
    <2>7. hash <= Len(nodes')
      BY <1>2, <2>1, <2>2
    <2> QED BY <2>1, <2>2, <2>4, <2>5, <2>6, <2>7
  <1>4. CASE SameHash(n) # {}
    <2>1. hash \in DOMAIN nodes /\ nodes' = nodes
      BY <1>4 DEF HashOf, InsertNode, SameHash
    <2>2. hash \in Nat /\ hash # 0 /\ hash <= Len(nodes)
      BY <1>2, <2>1
    <2>3. Grows
      BY <1>1, <1>2, <2>1 DEF Grows
    <2> QED BY <1>1, <2>1, <2>2, <2>3
  <1> QED BY <1>3, <1>4

\* The typed rows with a place for the node, and with its row there.
PlacedRows(hash) == IF hash \in DOMAIN rows THEN rows ELSE Append(rows, NoRow)
FilledRows(hash, row) == [PlacedRows(hash) EXCEPT ![hash] = row]

LEMMA PlacesMade ==
    ASSUME StoreTypes, NEW hash, hash \in DOMAIN rows \/ hash = Len(rows) + 1
    PROVE  /\ PlacedRows(hash) \in Seq(MessageRows) /\ hash \in DOMAIN PlacedRows(hash)
           /\ Len(PlacedRows(hash)) = IF hash \in DOMAIN rows THEN Len(rows) ELSE Len(rows) + 1
           /\ DOMAIN PlacedRows(hash) = DOMAIN rows \cup {hash}
           /\ \A h \in DOMAIN rows : PlacedRows(hash)[h] = rows[h]
           /\ hash \notin DOMAIN rows => PlacedRows(hash)[hash] = NoRow
  <1>1. rows \in Seq(MessageRows)
    BY DEF StoreTypes
  <1>2. DOMAIN rows = 1..Len(rows) /\ Len(rows) \in Nat
    BY <1>1, SeqElement
  <1>3. CASE hash \in DOMAIN rows
    BY <1>1, <1>3 DEF PlacedRows
  <1>4. CASE hash \notin DOMAIN rows
    <2>1. NoRow \in MessageRows /\ PlacedRows(hash) = Append(rows, NoRow) /\ hash = Len(rows) + 1
      BY <1>4 DEF MessageRows, PlacedRows
    <2>2. /\ PlacedRows(hash) \in Seq(MessageRows) /\ Len(PlacedRows(hash)) = Len(rows) + 1
          /\ PlacedRows(hash)[hash] = NoRow /\ \A h \in 1..Len(rows) : PlacedRows(hash)[h] = rows[h]
      BY <1>1, <2>1, AppendProperties
    <2>3. DOMAIN PlacedRows(hash) = 1..(Len(rows) + 1)
      BY <2>2, SeqElement
    <2> QED BY <1>2, <1>4, <2>1, <2>2, <2>3
  <1> QED BY <1>3, <1>4

LEMMA RowFilled ==
    ASSUME StoreTypes, NEW hash, hash \in DOMAIN rows \/ hash = Len(rows) + 1,
           NEW row \in MessageRows
    PROVE  /\ FilledRows(hash, row) \in Seq(MessageRows)
           /\ Len(FilledRows(hash, row)) = Len(PlacedRows(hash))
           /\ DOMAIN FilledRows(hash, row) = DOMAIN PlacedRows(hash)
           /\ \A h \in DOMAIN PlacedRows(hash) :
                 h # hash => FilledRows(hash, row)[h] = PlacedRows(hash)[h]
           /\ FilledRows(hash, row)[hash] = row
  <1>1. PlacedRows(hash) \in Seq(MessageRows) /\ hash \in DOMAIN PlacedRows(hash)
    BY PlacesMade
  <1>2. hash \in 1..Len(PlacedRows(hash))
    BY <1>1, SeqElement
  <1>3. FilledRows(hash, row) \in Seq(MessageRows) /\ Len(FilledRows(hash, row)) = Len(PlacedRows(hash))
    BY <1>1, <1>2, ExceptSeq DEF FilledRows
  <1> QED BY <1>1, <1>3 DEF FilledRows

\* A call that inserts the node, and its typed row or only the place for it.
LEMMA CallStores ==
    ASSUME StoreInv, NEW r \in Recorders, recorders[r].at = "called",
           NEW n \in NodesFor(r), InsertNode(n), now' = now,
           NEW hash, hash = HashOf(n), NEW ok \in BOOLEAN,
           \/ rows' = PlacedRows(hash)
           \/ /\ PlacedRows(hash)[hash] = NoRow
              /\ rows' = FilledRows(hash, RowOf(recorders[r].message)),
           \/ ~ ok
           \/ hash \in DOMAIN nodes
           \/ \E h \in DOMAIN rows : /\ rows[h] # NoRow
                                    /\ rows[h].message_id = recorders[r].message.data.id
           \/ rows' = FilledRows(hash, RowOf(recorders[r].message))
    PROVE  Stores(r, hash, ok)
  <1> DEFINE m == recorders[r].message
  <1>1. StoreTypes /\ RecordersOK
    BY DEF StoreInv
  <1>2. /\ m \in MessageRecord /\ n \in NodeRecord
        /\ Follows(n.parent, n.created) /\ n.created < now
        /\ n.session = NoSession <=> n.kind \in Infra
        /\ n.branch <= Len(branches)
        /\ n.session = m.key.session /\ n.submission = m.key.submission
        /\ m.kind # "fork" => n.branch = m.key.branch
    BY <1>1, NodesForOK
  <1>3. /\ nodes' \in Seq(NodeRecord) /\ Grows
        /\ DOMAIN nodes' = DOMAIN nodes \cup {hash} /\ hash \in Nat /\ hash # 0
        /\ hash <= Len(nodes')
        /\ hash \notin DOMAIN nodes => /\ nodes'[hash] = n /\ hash = Len(nodes) + 1
                                      /\ Len(nodes') = Len(nodes) + 1
        /\ hash \in DOMAIN nodes => nodes' = nodes
    BY <1>1, <1>2, NodesGrow
  <1>4. hash \in DOMAIN nodes' \ DOMAIN nodes => NodeOK(hash)'
    BY <1>1, <1>2, NodeInserted
  <1>5. DOMAIN rows = DOMAIN nodes /\ Len(rows) = Len(nodes)
    BY <1>1, RowFacts DEF StoreTypes
  <1>6. /\ PlacedRows(hash) \in Seq(MessageRows) /\ hash \in DOMAIN PlacedRows(hash)
        /\ Len(PlacedRows(hash)) = IF hash \in DOMAIN rows THEN Len(rows) ELSE Len(rows) + 1
        /\ DOMAIN PlacedRows(hash) = DOMAIN rows \cup {hash}
        /\ \A h \in DOMAIN rows : PlacedRows(hash)[h] = rows[h]
        /\ hash \notin DOMAIN rows => PlacedRows(hash)[hash] = NoRow
    BY <1>1, <1>3, <1>5, PlacesMade
  <1>7. RowOf(m) \in MessageRows /\ RowOf(m).message_id = m.data.id
    BY <1>2, RowIds DEF MessageRows
  <1>8. /\ rows' \in Seq(MessageRows) /\ Len(rows') = Len(PlacedRows(hash))
        /\ DOMAIN rows' = DOMAIN PlacedRows(hash)
        /\ \A h \in DOMAIN PlacedRows(hash) : h # hash => rows'[h] = PlacedRows(hash)[h]
        /\ \/ rows'[hash] = PlacedRows(hash)[hash]
           \/ PlacedRows(hash)[hash] = NoRow /\ rows'[hash] = RowOf(m)
    <2>1. CASE rows' = PlacedRows(hash)
      BY <1>6, <2>1
    <2>2. CASE PlacedRows(hash)[hash] = NoRow /\ rows' = FilledRows(hash, RowOf(m))
      BY <1>1, <1>3, <1>5, <1>7, <2>2, RowFilled
    <2> QED BY <2>1, <2>2
  <1>9. Len(rows') = Len(nodes')
    BY <1>3, <1>5, <1>6, <1>8
  <1>10. \A h \in DOMAIN rows : rows[h] # NoRow => rows'[h] = rows[h]
    BY <1>6, <1>8
  <1>11. \A h \in DOMAIN rows' : rows'[h] # NoRow =>
            \/ h \in DOMAIN rows /\ rows'[h] = rows[h]
            \/ rows'[h].message_id = m.data.id
    BY <1>6, <1>7, <1>8
  <1>12. /\ ok /\ m.kind # "fork" /\ hash \notin DOMAIN nodes
         /\ \A h \in DOMAIN rows : rows[h] # NoRow => rows[h].message_id # m.data.id
         => /\ rows'[hash] = RowOf(m)
            /\ nodes'[hash].session = m.key.session
            /\ nodes'[hash].submission = m.key.submission
            /\ nodes'[hash].branch = m.key.branch
    <2> SUFFICES ASSUME ok, m.kind # "fork", hash \notin DOMAIN nodes,
                        \A h \in DOMAIN rows : rows[h] # NoRow => rows[h].message_id # m.data.id
                 PROVE  /\ rows'[hash] = RowOf(m)
                        /\ nodes'[hash].session = m.key.session
                        /\ nodes'[hash].submission = m.key.submission
                        /\ nodes'[hash].branch = m.key.branch
      OBVIOUS
    <2>1. rows' = FilledRows(hash, RowOf(m))
      OBVIOUS
    <2>2. rows'[hash] = RowOf(m)
      BY <1>1, <1>3, <1>5, <1>7, <2>1, RowFilled
    <2>3. nodes'[hash] = n
      BY <1>3
    <2> HIDE DEF m
    <2> QED BY <1>2, <2>2, <2>3
  <1>13. hash \in Hashes /\ hash # Missing
    BY <1>3 DEF Hashes, Missing
  <1> QED BY <1>3, <1>4, <1>8, <1>9, <1>10, <1>11, <1>12, <1>13 DEF Stores

LEMMA InsertKeeps ==
    ASSUME StoreInv, NEW r \in Recorders, recorders[r].at = "called", Insert(r),
           losses' <= MaxLosses, now' = now
    PROVE  StoreInv'
  <1> DEFINE m == recorders[r].message
  <1>1. PICK n \in NodesFor(r), heard \in BOOLEAN :
           /\ InsertNode(n) /\ InsertRow(n, RowOf(m))
           /\ RecordingEnds(r, HashOf(n), heard)
           /\ losses' = IF heard THEN losses ELSE losses + 1
    BY DEF Insert
  <1> PICK hash : hash = HashOf(n)
    OBVIOUS
  <1>2. StoreTypes
    BY DEF StoreInv
  <1>3. RowOf(m).message_id = m.data.id
    BY <1>2, RecorderFacts, RowIds
  <1>4. LET taken == \E i \in DOMAIN rows : /\ rows[i] # NoRow /\ nodes[i].kind = n.kind
                                            /\ rows[i].message_id = RowOf(m).message_id
        IN rows' = IF PlacedRows(hash)[hash] # NoRow \/ taken THEN PlacedRows(hash)
                   ELSE FilledRows(hash, RowOf(m))
    BY <1>1 DEF InsertRow, PlacedRows, FilledRows
  <1>5. hash \notin DOMAIN nodes => PlacedRows(hash)[hash] = NoRow
    <2>1. /\ DOMAIN rows = DOMAIN nodes /\ Len(rows) = Len(nodes) /\ n \in NodeRecord
      BY <1>2, RowFacts, NodesForOK DEF StoreTypes, StoreInv
    <2>2. hash \in DOMAIN nodes \/ hash = Len(nodes) + 1
      BY <1>1, <1>2, <2>1 DEF HashOf, SameHash
    <2> QED BY <1>2, <2>1, <2>2, PlacesMade
  <1>6. Stores(r, hash, heard)
    BY <1>1, <1>3, <1>4, <1>5, CallStores
  <1>7. losses' \in 0..MaxLosses
    BY <1>1, <1>2, StoreAssumption DEF StoreTypes
  <1> QED BY <1>1, <1>6, <1>7, EndKeeps DEF InsertNode

LEMMA InsertHalfKeeps ==
    ASSUME StoreInv, NEW r \in Recorders, recorders[r].at = "called", InsertHalf(r),
           losses' <= MaxLosses, now' = now
    PROVE  StoreInv'
  <1>1. PICK n \in NodesFor(r) :
           /\ InsertNode(n)
           /\ rows' = IF HashOf(n) \in DOMAIN rows THEN rows ELSE Append(rows, NoRow)
           /\ RecordingEnds(r, HashOf(n), FALSE)
           /\ losses' = losses + 1
    BY DEF InsertHalf
  <1>2. Stores(r, HashOf(n), FALSE)
    BY <1>1, CallStores DEF PlacedRows
  <1>3. losses' \in 0..MaxLosses
    BY <1>1, StoreAssumption DEF StoreTypes, StoreInv
  <1> QED BY <1>1, <1>2, <1>3, EndKeeps DEF InsertNode

LEMMA InsertFailsKeeps ==
    ASSUME StoreInv, NEW r \in Recorders, recorders[r].at = "called", InsertFails(r),
           losses' <= MaxLosses, now' = now
    PROVE  StoreInv'
  <1> PICK hash : hash = IF SameHash(recorders[r].node) = {} THEN Missing
                         ELSE HashOf(recorders[r].node)
    OBVIOUS
  <1>1. /\ RecordingEnds(r, hash, FALSE) /\ losses' = losses + 1
        /\ nodes' = nodes /\ rows' = rows /\ branches' = branches
    BY DEF InsertFails
  <1>2. StoreTypes
    BY DEF StoreInv
  <1>3. hash = Missing \/ hash \in DOMAIN nodes
    BY DEF HashOf, SameHash
  <1>4. DOMAIN nodes = 1..Len(nodes) /\ Len(nodes) \in Nat
    BY <1>2, NodeFacts
  <1>5. hash \in Hashes /\ hash <= Len(nodes) /\ hash # 0
    BY <1>3, <1>4 DEF Hashes, Missing
  <1>6. Grows
    BY <1>1, <1>2, <1>4, SessionFacts DEF Grows, StoreTypes
  <1>7. Stores(r, hash, FALSE)
    BY <1>1, <1>2, <1>5, <1>6 DEF Stores, StoreTypes
  <1>8. losses' \in 0..MaxLosses
    BY <1>1, <1>2, StoreAssumption DEF StoreTypes
  <1> QED BY <1>1, <1>7, <1>8, EndKeeps

-----------------------------------------------------------------------------
(* The invariant *)

LEMMA StoreInitInv == StoreInit => StoreInv
  <1> SUFFICES ASSUME StoreInit PROVE StoreInv
    OBVIOUS
  <1>1. /\ nodes = <<>> /\ rows = <<>> /\ sent = <<>> /\ now = 0 /\ losses = 0
        /\ branches = [i \in DOMAIN Sessions |-> [name |-> "main", session |-> Sessions[i]]]
        /\ recorders = [r \in Recorders |-> IdleRecorder]
    BY DEF StoreInit
  <1>2. /\ DOMAIN Sessions = 1..Len(Sessions) /\ Len(Sessions) \in Nat
        /\ \A i \in DOMAIN Sessions : Sessions[i] \in Range(Sessions)
    BY StoreAssumption, SeqElement
  <1>3. branches \in Seq(Branch) /\ Len(branches) = Len(Sessions)
    <2>1. \A i \in 1..Len(Sessions) : [name |-> "main", session |-> Sessions[i]] \in Branch
      BY <1>2 DEF Branch
    <2>2. branches \in [1..Len(Sessions) -> Branch]
      BY <1>1, <1>2, <2>1
    <2> QED BY <1>2, <2>2, LenProperties
  <1>4. recorders \in [Recorders -> RecorderStates]
    BY <1>1 DEF RecorderStates
  <1>5. /\ <<>> \in Seq(NodeRecord) /\ <<>> \in Seq(MessageRows) /\ <<>> \in Seq(SentRecord)
        /\ DOMAIN nodes = {} /\ DOMAIN rows = {} /\ DOMAIN sent = {} /\ Len(sent) = 0
    BY <1>1
  <1>6. StoreTypes
    BY <1>1, <1>2, <1>3, <1>4, <1>5, StoreAssumption DEF StoreTypes
  <1>7. Recording = {} /\ \A r \in Recorders : recorders[r].at = "idle"
    BY <1>1 DEF Recording, IdleRecorder
  <1>8. RecordersOK
    BY <1>7 DEF RecordersOK, RecorderOK
  <1>9. NodesInOrder /\ SentOK /\ TablesSent /\ FirstStored
    BY <1>5 DEF NodesInOrder, SentOK, TablesSent, FirstStored
  <1>10. RecordingBounded
    BY <1>5, <1>7, FS_EmptySet, StoreAssumption DEF RecordingBounded
  <1> QED BY <1>6, <1>8, <1>9, <1>10 DEF StoreInv

LEMMA StoreNextInv == StoreInv /\ [StoreNext]_storeVars => StoreInv'
  <1> SUFFICES ASSUME StoreInv, [StoreNext]_storeVars PROVE StoreInv'
    OBVIOUS
  <1>1. ASSUME NEW r \in Recorders, NEW m \in NewMessages, Look(r, m) PROVE StoreInv'
    BY <1>1, LookKeeps
  <1>2. ASSUME NEW r \in Recorders, NEW m \in NewMessages, LookFails(r, m) PROVE StoreInv'
    BY <1>2, LookFailsKeeps
  <1>3. ASSUME NEW r \in Recorders, Stamp(r) PROVE StoreInv'
    BY <1>3, StampKeeps
  <1>4. ASSUME NEW r \in Recorders, Serve(r) PROVE StoreInv'
    <2>1. /\ recorders[r].at = "called" /\ losses' <= MaxLosses /\ now' = now
          /\ Insert(r) \/ InsertHalf(r) \/ InsertFails(r)
      BY <1>4 DEF Serve
    <2> QED BY <2>1, InsertKeeps, InsertHalfKeeps, InsertFailsKeeps
  <1>5. ASSUME NEW r \in Recorders, CreateBranch(r) PROVE StoreInv'
    BY <1>5, CreateBranchKeeps
  <1>6. CASE UNCHANGED storeVars
    <2>1. UNCHANGED <<nodes, rows, branches, recorders, sent, now, losses>>
      BY <1>6 DEF storeVars
    <2>2. StoreTypes'
      BY <2>1 DEF StoreInv, StoreTypes
    <2>3. NodesInOrder' /\ SentOK'
      BY <2>1 DEF StoreInv, NodesInOrder, NodeOK, Follows, SentOK, SentOne, Sendable
    <2>4. RecordersOK' /\ RecordingBounded'
      BY <2>1 DEF StoreInv, RecordersOK, RecorderOK, Recording, Sendable, Follows, NodeReady,
                  RecordingBounded
    <2>5. TablesSent' /\ FirstStored'
      BY <2>1 DEF StoreInv, TablesSent, FirstStored, FirstOf
    <2> QED BY <2>2, <2>3, <2>4, <2>5 DEF StoreInv
  <1> QED BY <1>1, <1>2, <1>3, <1>4, <1>5, <1>6 DEF StoreNext

LEMMA StoreInvHolds == StoreSpec => []StoreInv
  BY StoreInitInv, StoreNextInv, PTL DEF StoreSpec

\* The tables keep step in every state of every run.
THEOREM StoreTypeCorrect == StoreSpec => []StoreTypeOK
  BY StoreInvHolds, InvTypeOK, PTL

\* The store gives back what it was given, with causes before effects.
THEOREM StoreGivesBack == StoreSpec => []StoreFaithful
  <1>1. StoreInv => StoreFaithful
    BY InvReadBack, InvCreatedInOrder DEF StoreFaithful
  <1> QED BY <1>1, StoreInvHolds, PTL
===============================================================================
