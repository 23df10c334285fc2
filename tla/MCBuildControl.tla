--------------------------- MODULE MCBuildControl ---------------------------
(* An instance of BuildControl for TLC. *)
EXTENDS BuildControl
=============================================================================
