------------------------- MODULE MCSessionTimeline -------------------------
(* Instances of SessionTimeline for TLC. *)
EXTENDS SessionTimeline, TLC

\* Clients and state hashes are only ever compared: any permutation of them
\* maps behaviours to behaviours.
ClientSymmetry == Permutations(Clients) \cup Permutations(StateHashes)
=============================================================================
