--------------------------- MODULE MCBuildFrontend ---------------------------
(* BuildFrontend on small instances. *)
EXTENDS BuildFrontend, TLC

\* For safety only.
Symmetric == Permutations(Handler)
=============================================================================
