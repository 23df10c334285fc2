----------------------------- MODULE MCTaskClaim -----------------------------
(* TaskClaim on small instances. *)
EXTENDS TaskClaim, TLC

\* For safety only.
Symmetric == Permutations(Worker) \cup Permutations(Task) \cup Permutations(Poster)
=============================================================================
