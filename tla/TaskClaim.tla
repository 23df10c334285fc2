------------------------------ MODULE TaskClaim ------------------------------
(***************************************************************************)
(* Workers and posters sharing the ticket board over HTTP.                 *)
(*                                                                         *)
(* A worker (worker/worker_base.py) looks for a pending ticket, claims it  *)
(* with a PUT that names itself, works, and reports with a PUT that names  *)
(* nobody.  A poster (post_new_task, used by build control for subtasks)   *)
(* creates a ticket, fills it in with a PUT that names nobody, polls it    *)
(* and deletes it once it is complete.                                     *)
(*                                                                         *)
(* The board is TaskRepository: TaskFrontend implements it, so that one    *)
(* request takes effect at one point.  What HTTP adds is that a client may *)
(* not learn of it: the request or the reply is lost, or the client is     *)
(* given an error (a proxy timeout) while the request is still queued and  *)
(* will be served later.  The client libraries report all of these as a    *)
(* failed attempt, like a refusal, and the callers try again.              *)
(***************************************************************************)
EXTENDS TaskRepository, Integers, FiniteSets

CONSTANTS
    Poster,
    Stubborn,     \* workers that repeat their report until it is answered
                  \* (ExecuteShell); the others give up after update_task
    RetryCount,   \* worker_config 'retry_count'
    MaxLosses,    \* bound: attempts whose outcome the client does not learn,
                  \* or is told wrongly
    Lateness,     \* whether such an attempt may be served later
    MaxCrashes,   \* bound: workers that die
    NoTask

ASSUME ClaimConstants ==
    /\ Stubborn \subseteq Worker
    /\ RetryCount \in Nat \ {0}
    /\ MaxLosses \in Nat
    /\ MaxCrashes \in Nat
    /\ Lateness \in BOOLEAN
    /\ NoTask \notin Task
    /\ {"preparing", "pending", "running", "complete"} \subseteq Body

VARIABLES
    wpc, wtask, wtries,   \* a worker's place in its loop, ticket, failed attempts
    ppc, ptask, ptries,   \* the same for a poster
    late,                 \* PUTs still queued for a client that gave up on them
    losses, crashes       \* how often the bounded faults happened

wvars == <<wpc, wtask, wtries>>
pvars == <<ppc, ptask, ptries>>
vars == <<board, wvars, pvars, late, losses, crashes>>

Ticket(a, s) == [assignee |-> a, body |-> s]

TypeOK ==
    /\ board \in [Task -> Place]
    /\ wpc \in [Worker -> {"look", "claim", "run", "report", "dead"}]
    /\ wtask \in [Worker -> Task \cup {NoTask}]
    /\ wtries \in [Worker -> 0 .. RetryCount - 1]
    /\ ppc \in [Poster -> {"create", "post", "poll", "delete", "done"}]
    /\ ptask \in [Poster -> Task \cup {NoTask}]
    /\ ptries \in [Poster -> 0 .. RetryCount - 1]
    /\ late \in SUBSET [task : Task, new : Desc, id : 1 .. MaxLosses]
    /\ losses \in 0 .. MaxLosses
    /\ crashes \in 0 .. MaxCrashes

Init ==
    /\ Empty
    /\ wpc = [w \in Worker |-> "look"]
    /\ wtask = [w \in Worker |-> NoTask]
    /\ wtries = [w \in Worker |-> 0]
    /\ ppc = [p \in Poster |-> "create"]
    /\ ptask = [p \in Poster |-> NoTask]
    /\ ptries = [p \in Poster |-> 0]
    /\ late = {}
    /\ losses = 0
    /\ crashes = 0

-----------------------------------------------------------------------------
(* One attempt of distcilib's tasks.update *)

Acceptable(t, d) == Live(t) /\ ~Handover(board[t], d)

\* 200
Accepted(t, d) ==
    /\ Replace(t, d)
    /\ UNCHANGED <<late, losses>>

\* 404 or 409
Refused(t, d) ==
    /\ ~Acceptable(t, d)
    /\ UNCHANGED <<board, late, losses>>

\* An error of the network, of the proxy, or of ZooKeeper behind the frontend.
Lost(t, d) ==
    /\ losses < MaxLosses
    /\ losses' = losses + 1
    /\ \/ UNCHANGED <<board, late>>
       \/ Replace(t, d) /\ UNCHANGED late
       \/ /\ Lateness
          /\ late' = late \cup {[task |-> t, new |-> d, id |-> losses']}
          /\ UNCHANGED board

Failed(t, d) == Refused(t, d) \/ Lost(t, d)

\* A queued request gets its turn, and nobody hears of the outcome.
ServeLate ==
    /\ \E m \in late :
          /\ late' = late \ {m}
          /\ \/ Replace(m.task, m.new)
             \/ ~Acceptable(m.task, m.new) /\ UNCHANGED board
    /\ UNCHANGED <<wvars, pvars, losses, crashes>>

-----------------------------------------------------------------------------
(* Workers *)

WorkerAt(w, place, t) ==
    /\ wpc' = [wpc EXCEPT ![w] = place]
    /\ wtask' = [wtask EXCEPT ![w] = t]
    /\ wtries' = [wtries EXCEPT ![w] = 0]

\* Broken: one attempt too many, and no second attempt.
OneMoreAttempt(n) == n = RetryCount
NoRetry(n) == TRUE

\* After n failed attempts, the next one is the last of its loop.
LastAttempt(n) == n + 1 = RetryCount

WorkerTriesAgain(w) ==
    /\ ~LastAttempt(wtries[w])
    /\ wtries' = [wtries EXCEPT ![w] = @ + 1]
    /\ UNCHANGED <<wpc, wtask>>

\* Broken: the test for an assignee is inverted.
AlreadyGrabbed(d) == d \in [assignee : Worker, body : {"pending"}]

UpForGrabs(d) == d = Ticket(NoOne, "pending")

\* fetch_task lists the tickets and reads them one by one.
FindTask(w) ==
    /\ wpc[w] = "look"
    /\ \E t \in Task : UpForGrabs(board[t]) /\ WorkerAt(w, "claim", t)
    /\ UNCHANGED <<board, pvars, late, losses, crashes>>

\* fetch_task's update_task, one attempt at a time.  The ticket as it was
\* read is not read again, however many attempts it takes.
ClaimTask(w) ==
    /\ wpc[w] = "claim"
    /\ LET t == wtask[w]
           claim == Ticket(w, "running")
       IN  \/ Accepted(t, claim) /\ WorkerAt(w, "run", t)
           \/ Failed(t, claim) /\ WorkerTriesAgain(w)
           \/ /\ Failed(t, claim)
              /\ LastAttempt(wtries[w])
              /\ WorkerAt(w, "look", NoTask)
    /\ UNCHANGED <<pvars, crashes>>

\* The work itself; it always ends.
Work(w) ==
    /\ wpc[w] = "run"
    /\ WorkerAt(w, "report", wtask[w])
    /\ UNCHANGED <<board, pvars, late, losses, crashes>>

\* What a worker does when all attempts to report have failed.
AfterReport(w) == IF w \in Stubborn THEN WorkerAt(w, "report", wtask[w])
                                    ELSE WorkerAt(w, "look", NoTask)

\* The report takes the assignee out of the ticket.
ReportTask(w) ==
    /\ wpc[w] = "report"
    /\ LET t == wtask[w]
           report == Ticket(NoOne, "complete")
       IN  \/ Accepted(t, report) /\ WorkerAt(w, "look", NoTask)
           \/ Failed(t, report) /\ WorkerTriesAgain(w)
           \/ /\ Failed(t, report)
              /\ LastAttempt(wtries[w])
              /\ AfterReport(w)
    /\ UNCHANGED <<pvars, crashes>>

\* A restarted worker has a new uuid: to the others this one is gone.
CrashWorker(w) ==
    /\ wpc[w] # "dead"
    /\ crashes < MaxCrashes
    /\ crashes' = crashes + 1
    /\ WorkerAt(w, "dead", NoTask)
    /\ UNCHANGED <<board, pvars, late, losses>>

WorkerStep(w) == FindTask(w) \/ ClaimTask(w) \/ Work(w) \/ ReportTask(w)

-----------------------------------------------------------------------------
(* Posters *)

PosterAt(p, place, t) ==
    /\ ppc' = [ppc EXCEPT ![p] = place]
    /\ ptask' = [ptask EXCEPT ![p] = t]
    /\ ptries' = [ptries EXCEPT ![p] = 0]

\* One more round of post_new_task's loop, or, after the last one, a new
\* call of post_new_task by its caller.
PosterTriesAgain(p) ==
    \/ /\ ~LastAttempt(ptries[p])
       /\ ptries' = [ptries EXCEPT ![p] = @ + 1]
       /\ UNCHANGED <<ppc, ptask>>
    \/ /\ LastAttempt(ptries[p])
       /\ PosterAt(p, "create", NoTask)

CreateTask(p) ==
    /\ ppc[p] = "create"
    /\ \/ /\ \E t \in Task :
                /\ Post(t, Ticket(NoOne, "preparing"))
                /\ ptask' = [ptask EXCEPT ![p] = t]
          /\ ppc' = [ppc EXCEPT ![p] = "post"]
          /\ UNCHANGED <<ptries, losses>>
       \/ /\ losses < MaxLosses
          /\ losses' = losses + 1
          /\ \/ UNCHANGED board
             \/ \E t \in Task : Post(t, Ticket(NoOne, "preparing"))
          /\ PosterTriesAgain(p)
    /\ UNCHANGED <<wvars, late, crashes>>

PostTask(p) ==
    /\ ppc[p] = "post"
    /\ LET t == ptask[p]
           posting == Ticket(NoOne, "pending")
       IN  \/ Accepted(t, posting) /\ PosterAt(p, "poll", t)
           \/ Failed(t, posting) /\ PosterTriesAgain(p)
    /\ UNCHANGED <<wvars, crashes>>

\* check_status_and_issue_tasks reads the ticket until it is complete.
PollTask(p) ==
    /\ ppc[p] = "poll"
    /\ Live(ptask[p])
    /\ board[ptask[p]].body = "complete"
    /\ PosterAt(p, "delete", ptask[p])
    /\ UNCHANGED <<board, wvars, late, losses, crashes>>

\* report_complete_status deletes it, and comes back if that failed.  A delete
\* that failed in ZooKeeper is answered as if the ticket were gone.
RemoveTask(p) ==
    /\ ppc[p] = "delete"
    /\ LET t == ptask[p]
       IN  \/ /\ Withdraw(t) \/ (~Live(t) /\ UNCHANGED board)
              /\ PosterAt(p, "done", NoTask)
              /\ UNCHANGED losses
           \/ /\ losses < MaxLosses
              /\ losses' = losses + 1
              /\ \/ UNCHANGED pvars /\ (Withdraw(t) \/ UNCHANGED board)
                 \/ PosterAt(p, "done", NoTask) /\ UNCHANGED board
    /\ UNCHANGED <<wvars, late, crashes>>

PosterStep(p) == CreateTask(p) \/ PostTask(p) \/ PollTask(p) \/ RemoveTask(p)

-----------------------------------------------------------------------------
Next ==
    \/ \E w \in Worker : WorkerStep(w) \/ CrashWorker(w)
    \/ \E p \in Poster : PosterStep(p)
    \/ ServeLate

Spec == Init /\ [][Next]_vars

\* Workers and posters keep running their loops.  Nothing obliges a queued
\* request to be served, a reply to be lost or a worker to die.
Fairness ==
    /\ \A w \in Worker : WF_vars(WorkerStep(w))
    /\ \A p \in Poster : WF_vars(PosterStep(p))

FairSpec == Spec /\ Fairness

-----------------------------------------------------------------------------
(* Properties *)

\* Workers that act on a claim of t and have not got rid of it.
Holders(t) == {w \in Worker : wpc[w] \in {"run", "report"} /\ wtask[w] = t}

\* Each attempt whose outcome its client did not learn rightly can put at most one
\* more worker on a ticket.  With none a ticket never has two holders at a
\* time, although workers claim on the strength of old reads and repeat
\* refused claims (worker_base.py:36-45, 70-76).
HoldersBoundedByLosses ==
    \A t \in Task : Cardinality(Holders(t)) <= 1 + losses

\* One worker holds a ticket at a time (README.rst:45, "claims
\* synchronizedi utilizing ZK operations").
OneHolder == \A t \in Task : Cardinality(Holders(t)) <= 1

\* Only a pending ticket is up for grabs (worker_base.py:37-38).
OnlyPendingIsClaimed ==
    [][\A t \in Task :
          /\ Live(t) /\ board[t].assignee = NoOne
          /\ Live(t)' /\ board'[t].assignee \in Worker
          => board[t].body = "pending"]_vars

\* A posted ticket gets completed, and its poster is told that it is off the
\* board (README.rst:45, "Work is posted as tickets and remain posted until the
\* task is completed").
PostedIsCompleted == \A p \in Poster : ppc[p] = "poll" ~> ppc[p] = "done"

\* A worker that has something to report gets rid of it, or died.
ReportsEnd == \A w \in Worker : wpc[w] = "report" ~> wpc[w] \in {"look", "dead"}
=============================================================================
