----------------------------- MODULE MCToolTurns -----------------------------
(* Instances of ToolTurns for TLC. *)
EXTENDS ToolTurns

\* Lists of calls: a delegation before a tool, and after one.
Lists == {<<"delegate", "tool">>, <<"tool", "delegate">>}
==============================================================================
