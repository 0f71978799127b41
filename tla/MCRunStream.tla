------------------------------ MODULE MCRunStream ------------------------------
(* An instance of RunStream for TLC. *)
EXTENDS RunStream
===============================================================================
