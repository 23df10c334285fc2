------------------------------- MODULE Tickets -------------------------------
(***************************************************************************)
(* The data of DistCI's task tickets.  A ticket is a JSON object kept under*)
(* /distci/tasks/<uuid>.  The two things the ticket protocol looks at are  *)
(* its 'assignee' (the uuid of the worker that claimed it, or no such key) *)
(* and the rest of it, of which a module tells apart as much as it needs.  *)
(***************************************************************************)

CONSTANTS
    Task,     \* ticket ids: what uuid.uuid4() may return
    Worker,   \* worker ids: WorkerBase.uuid
    Body,     \* everything in a ticket but its assignee
    NoOne,    \* the assignee of a ticket without an 'assignee' key
    Unborn,   \* the place of a ticket whose id nobody has drawn or stored yet
    Deleted   \* the place of a ticket that was deleted

Desc == [assignee : Worker \cup {NoOne}, body : Body]

\* Where a ticket stands: its description, or why there is none.
Place == Desc \cup {Unborn, Deleted}

ASSUME MarkersDiffer ==
    /\ NoOne \notin Worker
    /\ Unborn # Deleted
    /\ Unborn \notin Desc
    /\ Deleted \notin Desc
=============================================================================
