---------------------------- MODULE MCMessageStore ----------------------------
(* Instances of MessageStore for TLC. *)
EXTENDS MessageStore, TLC

CONSTANTS r1, r2, s1

OneSession == <<s1>>
\* One body comes with a state and one without.
Stateful == [b \in Bodies |-> IF b = "a" THEN "x" ELSE NoState]
Symmetry == Permutations(Recorders)
===============================================================================
