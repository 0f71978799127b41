---------------------------- MODULE MCProviderCalls ----------------------------
(* Instances of ProviderCalls for TLC. *)
EXTENDS ProviderCalls, TLC

CONSTANTS s1, s2, p1, p2, v1, v2

Symmetry == Permutations(Sessions) \cup Permutations(Paths) \cup Permutations(Values)
===============================================================================
