---------------------------- MODULE MCTaskFrontend ----------------------------
(* TaskFrontend on small instances. *)
EXTENDS TaskFrontend, TLC

\* Handlers, ids and workers are only ever compared with each other.
Symmetric ==
    Permutations(Handler) \cup Permutations(Task) \cup Permutations(Worker)
=============================================================================
