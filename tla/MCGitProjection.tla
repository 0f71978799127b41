--------------------------- MODULE MCGitProjection ---------------------------
(* Instances of GitProjection for TLC. *)
EXTENDS GitProjection

CONSTANTS w1, w2

Msg(kind, agent, session, branch) ==
    [kind |-> kind, run |-> session, agent |-> agent, branch |-> branch]
Invoke == Msg("invoke", "a", 1, "")
Complete == Msg("complete", "a", 1, "")
Promote == Msg("promote", "a", 1, "")

\* The messages of a turn, a delegated agent, forks of two sessions with one name, two
\* promotes, and more messages than the limit.
Fork(session) == Msg("fork", "a", session, "b1")
Mixed == {<<Msg("request", "a", 1, ""), Msg("response", "a", 1, "")>>,
          <<Msg("svc_request", "a", 1, ""), Msg("svc_response", "a", 1, "")>>,
          <<Invoke, Msg("invoke", "b", 1, ""), Promote>>,
          <<Fork(1), Fork(2), Complete>>,
          <<Promote, Invoke, Promote>>,
          <<Fork(1), Promote, Complete>>,
          <<Invoke, Complete, Invoke>>}
Sealings == <<"broken-1", "broken-2">>

\* One worker, as it is configured by default, or two.
OneOrTwo == {{w1}, {w1, w2}}
==============================================================================
