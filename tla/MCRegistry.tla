----------------------------- MODULE MCRegistry -----------------------------
(* Instances of Registry for TLC. *)
EXTENDS Registry

CONSTANTS c1, c2, m1, a1, s1

\* A model of an engine that can be taken out of the configuration, or of another version.
Definitions == {[engine |-> "ollama", version |-> 1], [engine |-> "openrouter", version |-> 2]}

\* An agent that needs the model, and one that does not.
Needs == {[needs |-> {m1}], [needs |-> {}]}
OneFleet == {{a1}}

Symmetry == Permutations(Clients)
==============================================================================
