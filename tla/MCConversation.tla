--------------------------- MODULE MCConversation ---------------------------
(* Instances of Conversation for TLC. *)
EXTENDS Conversation, TLC

CONSTANTS c1, c2

\* What a completion calls.
Calls == {<<"tool", "tool">>, <<"delegate", "tool">>}

\* The order of clients is nowhere used.
Alike == Permutations({c1, c2})
==============================================================================
