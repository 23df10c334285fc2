---------------------------- MODULE MCBuildFiles ----------------------------
(* An instance of BuildFiles for TLC. *)
EXTENDS BuildFiles, TLC

Symmetric == Permutations(Request)
=============================================================================
