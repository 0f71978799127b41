------------------------------- MODULE Subjects -------------------------------
(***************************************************************************)
(* The subjects of the queue backends.  A message travels under a subject  *)
(* that is built from its routing key; a receive names a filter with       *)
(* wildcards, and the receiver rebuilds the key from the subject.          *)
(*                                                                         *)
(* A subject is the sequence of its parts between dots.  A name in a key   *)
(* is the sequence of its parts too, since nothing keeps the dot out of    *)
(* the names of agents, MCP servers and tools.  NATS and AMQP write the    *)
(* same subjects; AMQP has none of the two service kinds of the harness.   *)
(***************************************************************************)
EXTENDS Naturals, SequencesExt

Fields == {"session", "branch", "submission", "agent", "harness", "runtime", "service",
           "backend", "operation", "sequence"}
Unparsed == [kind |-> "none"]

\* What identifies is a UUID or a number; any other name may have several parts.  None of them is a
\* wildcard: nothing looks for one, but Podman and Lambda refuse such names of agents, and tools
\* are assumed to have none.
Identifiers == {"session", "branch", "submission"}
IsName(field, name) ==
    /\ name \in Seq(STRING) \ {<<>>} /\ ToSet(name) \cap {"*", ">", "#"} = {}
    /\ field \in Identifiers => Len(name) = 1
    /\ field = "session" => name[1] # "data"

\* A format is a sequence of fixed parts and fields.
Data == <<"vlinder", "data", "v1", "session", "branch", "submission">>
Operation == <<"agent", "service", "backend", "operation", "sequence">>

InvokeFormat == Data \o <<"invoke", "harness", "runtime", "agent">>
CompleteFormat == Data \o <<"complete", "agent", "harness">>
RequestFormat == Data \o <<"request">> \o Operation
ResponseFormat == Data \o <<"response">> \o Operation
SvcRequestFormat == Data \o <<"svc_request">> \o Operation
SvcResponseFormat == Data \o <<"svc_response">> \o Operation
ForkFormat == <<"vlinder", "session", "1", "submission", "fork", "agent">>
PromoteFormat == <<"vlinder", "session", "branch", "submission", "promote", "agent">>
DeployFormat == <<"vlinder", "infra", "v1", "submission", "deploy-agent">>
DeleteFormat == <<"vlinder", "infra", "v1", "submission", "delete-agent">>

\* The same formats in the AMQP backend.
AmqpRunFormats == [invoke |-> InvokeFormat, complete |-> CompleteFormat]
AmqpServiceFormats == [request |-> RequestFormat, response |-> ResponseFormat]
AmqpSessionFormats == [fork |-> ForkFormat, promote |-> PromoteFormat]
AmqpInfraFormats == [deploy |-> DeployFormat, delete |-> DeleteFormat]
AmqpFormats ==
    [invoke |-> AmqpRunFormats.invoke, complete |-> AmqpRunFormats.complete,
     request |-> AmqpServiceFormats.request, response |-> AmqpServiceFormats.response,
     fork |-> AmqpSessionFormats.fork, promote |-> AmqpSessionFormats.promote,
     deploy |-> AmqpInfraFormats.deploy, delete |-> AmqpInfraFormats.delete]

NatsFormats == [invoke |-> InvokeFormat, complete |-> CompleteFormat,
                request |-> RequestFormat, response |-> ResponseFormat,
                svc_request |-> SvcRequestFormat, svc_response |-> SvcResponseFormat,
                fork |-> ForkFormat, promote |-> PromoteFormat,
                deploy |-> DeployFormat, delete |-> DeleteFormat]

Formats(backend) == IF backend = "amqp" THEN AmqpFormats ELSE NatsFormats
FieldsOf(format) == ToSet(format) \cap Fields
PlaceOf(format, field) == CHOOSE i \in DOMAIN format : format[i] = field

\* The parts of a format: a field is filled from the names, or left open.
Filled(format, names) ==
    FlattenSeq([i \in DOMAIN format |->
        IF format[i] \in DOMAIN names THEN names[format[i]]
        ELSE <<IF format[i] \in Fields THEN "*" ELSE format[i]>>])

\* A key is a kind and the names of its fields.
IsKey(key) ==
    /\ key \in [kind : DOMAIN NatsFormats, names : [FieldsOf(NatsFormats[key.kind]) -> Seq(STRING)]]
    /\ \A f \in DOMAIN key.names : IsName(f, key.names[f])
Subject(backend, key) == Filled(Formats(backend)[key.kind], key.names)

\* The parsers count the parts, compare the fixed ones and take each field from its place.
Parse(backend, kind, subject) ==
    LET format == Formats(backend)[kind] IN
    IF /\ Len(subject) = Len(format)
       /\ \A i \in DOMAIN format : format[i] \in Fields \cup {subject[i]}
    THEN [kind |-> kind,
          names |-> [f \in FieldsOf(format) |-> <<subject[PlaceOf(format, f)]>>]]
    ELSE Unparsed

-----------------------------------------------------------------------------
(* What each receive asks for: a kind, and the names it fixes. *)

Nothing == [f \in {} |-> <<>>]
Invokes(agent) == [kind |-> "invoke", names |-> [agent |-> agent]]
CompleteOf(submission, harness, agent) ==
    [kind |-> "complete",
     names |-> [submission |-> submission, harness |-> harness, agent |-> agent]]
Requests(service, backend, operation) ==
    [kind |-> "request",
     names |-> [service |-> service, backend |-> backend, operation |-> operation]]
Correlated(key) ==
    Restrict(key.names, {"submission", "agent", "service", "backend", "operation", "sequence"})

ResponseTo(key) == [kind |-> "response", names |-> Correlated(key)]
McpRequests == [kind |-> "svc_request", names |-> [service |-> <<"mcp">>]]
SvcResponseTo(key) == [kind |-> "svc_response", names |-> Correlated(key)]
Forks == [kind |-> "fork", names |-> Nothing]
Promotes == [kind |-> "promote", names |-> Nothing]
Deploys == [kind |-> "deploy", names |-> Nothing]
Deletes == [kind |-> "delete", names |-> Nothing]
Everything == [kind |-> "any", names |-> Nothing]

\* Mutant: the filter leaves the last part open whatever the kind, as that of requests does.
PatternOpenTail(backend, ask) ==
    LET tail == IF backend = "amqp" THEN "#" ELSE ">" IN
    IF ask.kind = "any" THEN <<"vlinder", tail>>
    ELSE Front(Filled(Formats(backend)[ask.kind], ask.names)) \o <<tail>>

\* The filter of an ask, as NATS and AMQP write it: requests leave what follows the
\* operation open, the wildcard of the tail being ">" or "#".
Pattern(backend, ask) ==
    LET tail == IF backend = "amqp" THEN "#" ELSE ">" IN
    IF ask.kind = "any" THEN <<"vlinder", tail>>
    ELSE LET parts == Filled(Formats(backend)[ask.kind], ask.names) IN
         IF ask.kind \in {"request", "svc_request"} THEN Front(parts) \o <<tail>> ELSE parts

\* How the servers compare: "*" is one part, ">" one or more, "#" any number.
Matches(pattern, subject) ==
    LET open == Last(pattern) \in {">", "#"}
        fixed == IF open THEN Len(pattern) - 1 ELSE Len(pattern)
        least == IF Last(pattern) = ">" THEN fixed + 1 ELSE fixed IN
    /\ IF open THEN Len(subject) >= least ELSE Len(subject) = least
    /\ \A i \in 1..fixed : pattern[i] \in {"*", subject[i]}

\* The in-memory queue compares these fields of the typed key.
MemoryLooksAt == [invoke |-> {"agent"}, complete |-> {"submission"},
                  request |-> {"service", "backend", "operation"},
                  response |-> {"submission", "service", "backend", "operation", "sequence"},
                  svc_request |-> {}, svc_response |-> Fields]

\* Whether a message of this key is handed to who asks.
Selects(backend, ask, key) ==
    IF backend = "memory"
    THEN /\ ask.kind = key.kind
         /\ \A f \in DOMAIN ask.names \cap MemoryLooksAt[ask.kind] :
                key.names[f] = ask.names[f]
    ELSE Matches(Pattern(backend, ask), Subject(backend, key))
=============================================================================
