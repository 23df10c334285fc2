---------------------------- MODULE TaskRepository ----------------------------
(***************************************************************************)
(* What the frontend's /tasks API promises to workers and controllers: a   *)
(* board of tickets on which every operation is atomic.  TaskFrontend is   *)
(* shown to implement this module, and TaskClaim is built on top of it.    *)
(***************************************************************************)
EXTENDS Tickets

VARIABLE board

Live(t) == board[t] \in Desc

\* Broken: no such rule.
NoHandover(old, new) == FALSE

\* A claimed ticket may be rewritten by its owner or given up by anyone, but
\* never handed from one worker to another.
Handover(old, new) ==
    /\ old.assignee \in Worker
    /\ new.assignee \in Worker \ {old.assignee}

Empty == board = [t \in Task |-> Unborn]

Post(t, d) ==
    /\ board[t] = Unborn
    /\ board' = [board EXCEPT ![t] = d]

Replace(t, d) ==
    /\ Live(t)
    /\ ~Handover(board[t], d)
    /\ board' = [board EXCEPT ![t] = d]

Withdraw(t) ==
    /\ Live(t)
    /\ board' = [board EXCEPT ![t] = Deleted]

Step == \E t \in Task :
    \/ \E d \in Desc : Post(t, d) \/ Replace(t, d)
    \/ Withdraw(t)

BoardSpec == Empty /\ [][Step]_board
=============================================================================
