------------------------------- MODULE MCQueues -------------------------------
(* Instances of Queues for TLC. *)
EXTENDS Queues

Names(submission, agent) ==
    [session |-> <<"s1">>, branch |-> <<"1">>, submission |-> <<submission>>, agent |-> agent]
Service(service, backend, operation, sequence) ==
    [service |-> <<service>>, backend |-> <<backend>>, operation |-> operation,
     sequence |-> <<sequence>>]
Key(kind, names) == [kind |-> kind, names |-> names]

Get(submission, agent, sequence) ==
    Key("request", Names(submission, agent) @@ Service("kv", "sqlite", <<"get">>, sequence))
Search == Key("request", Names("r1", <<"a">>) @@ Service("vec", "sqlite-vec", <<"search">>, "2"))
Tool(operation, sequence) ==
    Key("svc_request", Names("r1", <<"a">>) @@ Service("mcp", "files", operation, sequence))
Invoke(submission, agent) ==
    Key("invoke", Names(submission, agent) @@ [harness |-> <<"grpc">>, runtime |-> <<"container">>])
Promote == Key("promote", Names("r1", <<"a">>))
Fork == Key("fork", Restrict(Names("r1", <<"a">>), {"session", "submission", "agent"}))
Infra(kind) == Key(kind, [submission |-> <<"r9">>])

Plan(backend, calls, servers, notices) ==
    [backend |-> backend, calls |-> calls, servers |-> servers, notices |-> notices]

GetTask == Requests(<<"kv">>, <<"sqlite">>, <<"get">>)
SearchTask == Requests(<<"vec">>, <<"sqlite-vec">>, <<"search">>)

\* Two calls of one run under one worker; calls of two services; a run of one of two agents;
\* tools and agents, some with a dot in their name; the observer, the infra worker, and who
\* would receive forks and promotes.
OfBackend(b) ==
    {Plan(b, {Get("r1", <<"a">>, "1"), Get("r1", <<"a">>, "2")}, {GetTask},
          IF b = "memory" THEN {Fork} ELSE {}),
     Plan(b, {Get("r1", <<"a">>, "1"), Search}, {GetTask, SearchTask}, {}),
     Plan(b, {Invoke("r1", <<"a">>)}, {Invokes(<<"a">>), Invokes(<<"b">>)}, {})}
    \cup
    IF b = "amqp" THEN {} ELSE
    {Plan(b, {Tool(<<"read">>, "1"), Tool(<<"files", "read">>, "2")}, {McpRequests}, {})}
    \cup
    IF b = "memory" THEN {} ELSE
    {Plan(b, {Invoke("r1", <<"a", "b">>)}, {Invokes(<<"a", "b">>)}, {Fork, Promote}),
     Plan(b, {}, {Deploys, Deletes, Everything}, {Infra("deploy"), Infra("delete")})}
    \cup
    IF b = "amqp" THEN {Plan(b, {}, {Forks, Promotes}, {Fork, Promote})} ELSE {}
AllPlans == UNION {OfBackend(b) : b \in {"nats", "amqp", "memory"}}
==============================================================================
