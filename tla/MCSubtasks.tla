----------------------------- MODULE MCSubtasks -----------------------------
(* An instance of Subtasks for TLC. *)
EXTENDS Subtasks
=============================================================================
