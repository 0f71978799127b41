--------------------------- MODULE MCWorkspaceSync ---------------------------
(* Instances of WorkspaceSync for TLC. *)
EXTENDS WorkspaceSync, TLC

CONSTANTS f1, f2, s1, s2, e1, e2

\* A turn writes both files, or removes one.
Changes == {f1 :> "write" @@ f2 :> "write", f1 :> "remove" @@ f2 :> "keep"}

\* The order of sessions, environments and files is nowhere used.
Alike == Permutations({s1, s2}) \cup Permutations({e1, e2})
==============================================================================
