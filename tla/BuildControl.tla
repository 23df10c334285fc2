---------------------------- MODULE BuildControl ----------------------------
(***************************************************************************)
(* The build control worker (worker/build_control/build_control.py) and    *)
(* one of its builds, from the claim of the build's ticket to its removal. *)
(*                                                                         *)
(* Builds share nothing but the life of their controller.  The controller  *)
(* takes a build through the states of build_states[..]['state'] by HTTP   *)
(* requests, one attempt a step.  An attempt may be lost before or after   *)
(* it took effect; a loop of attempts may then go on or be over, so that   *)
(* the model stands for every positive retry_count.  A PUT of the build's  *)
(* state may also be served after its client gave up on it.                *)
(*                                                                         *)
(* Subtask tickets are on the board of TaskRepository.  Workers appear as  *)
(* what they do to a ticket: claim it, and report a result.                *)
(***************************************************************************)
EXTENDS TaskRepository, Integers, FiniteSets

CONSTANTS
    Length,       \* number of tasks in the job's configuration
    NoTask,
    MaxLosses,    \* bound: attempts without an answer
    MaxKept,      \* bound: tickets reported deleted although they stayed
    MaxReruns,    \* bound: claims of a ticket on the strength of an old read
    MaxAbandoned, \* bound: tickets abandoned at the same time
    MaxFaults     \* bound: of all these together

Index == 1 .. Length

\* What a subtask's ticket says besides its assignee; step 0: not filled in yet.
SubtaskBody == [step : 0 .. Length,
                status : {"preparing", "pending", "running", "success", "failure"}]

ASSUME ControlConstants ==
    /\ Length \in Nat
    /\ MaxLosses \in Nat
    /\ MaxKept \in Nat
    /\ MaxReruns \in Nat
    /\ MaxAbandoned \in Nat
    /\ MaxFaults \in Nat
    /\ NoTask \notin Task
    /\ Worker # {}
    /\ SubtaskBody \subseteq Body

VARIABLES
    there,        \* the build's directory exists
    record,       \* its state file
    workspace,    \* its workspace archive exists
    mainTicket,   \* "pending", "claimed" or "gone"
    \* the controller
    state,        \* build_states[..]['state']; "idle" before the claim
    call,         \* the next request
    index,        \* subtask_index
    fresh,        \* task_id in post_new_task
    tasks,        \* build_state['tasks']
    result,       \* build_state['result']
    \* kept for the properties and the bounds
    configured,   \* the job's configuration can be read
    known,        \* tasks whose type the controller knows
    outcome,      \* outcome[i]: results reported for step i
    abandoned,    \* tickets nobody is going to work on
    downstream,   \* triggers of the downstream job that took effect
    late,         \* states in PUTs that are still queued
    relapses, losses, kept, reruns

ctl == <<state, call, index, fresh, tasks, result>>
storage == <<there, record, workspace>>
history == <<configured, known, outcome, abandoned, reruns>>
faults == <<late, relapses, losses, kept>>
vars == <<board, storage, mainTicket, ctl, history, downstream, faults>>

Run == INSTANCE BuildRun

Subtask(i, s) == [assignee |-> NoOne, body |-> [step |-> i, status |-> s]]

TypeOK ==
    /\ board \in [Task -> Place]
    /\ there \in BOOLEAN
    /\ record \in Run!Record
    /\ workspace \in BOOLEAN
    /\ mainTicket \in {"pending", "claimed", "gone"}
    /\ state \in {"idle", "get-job-config", "create-workspace", "running",
                  "complete", "reported", "dead"}
    /\ call \in {"config", "put", "send", "create", "fill", "poll", "keep",
                 "rmworkspace", "rmtasks", "trigger", "none"}
    /\ index \in 1 .. Length + 1
    /\ fresh \in Task \cup {NoTask}
    /\ tasks \in [Index -> [id : Task \cup {NoTask}, status : Run!StepStatus]]
    /\ result \in {"none", "success", "failure"}
    /\ configured \in BOOLEAN
    /\ known \in SUBSET Index
    /\ outcome \in [Index -> SUBSET Run!Final]
    /\ abandoned \in SUBSET Task
    /\ downstream \in 0 .. 1
    /\ late \in SUBSET Run!Record
    /\ relapses \in 0 .. MaxLosses
    /\ losses \in 0 .. MaxLosses
    /\ kept \in 0 .. MaxKept
    /\ reruns \in 0 .. MaxReruns

\* trigger_build has made the directory and the state file and posted a ticket.
\* It does not look at the job's configuration, which may be missing.
Init ==
    /\ Empty
    /\ there = TRUE
    /\ record = Run!Triggered
    /\ workspace = FALSE
    /\ mainTicket = "pending"
    /\ state = "idle"
    /\ call = "none"
    /\ index = 1
    /\ fresh = NoTask
    /\ tasks = [i \in Index |-> [id |-> NoTask, status |-> "none"]]
    /\ result = "none"
    /\ configured \in BOOLEAN
    /\ known \in {Index, Index \ {Length}}
    /\ outcome = [i \in Index |-> {}]
    /\ abandoned = {}
    /\ downstream = 0
    /\ late = {}
    /\ relapses = 0
    /\ losses = 0
    /\ kept = 0
    /\ reruns = 0

-----------------------------------------------------------------------------
(* Attempts and places *)

FaultLeft == losses + kept + reruns + Cardinality(abandoned) < MaxFaults

Answered == UNCHANGED faults

Unanswered ==
    /\ losses < MaxLosses /\ FaultLeft
    /\ losses' = losses + 1
    /\ UNCHANGED <<late, relapses, kept>>

\* A delete that failed in ZooKeeper is answered as if the ticket were gone.
AnsweredAnyway ==
    /\ kept < MaxKept /\ FaultLeft
    /\ kept' = kept + 1
    /\ UNCHANGED <<late, relapses, losses>>

GoTo(s, c) ==
    /\ state' = s
    /\ call' = c
    /\ UNCHANGED <<index, fresh, tasks, result>>

IsComplete(status) == status \in {"success", "failure"}

\* Broken: takes any end for a success.
AnyEnd(status) == IsComplete(status)

Succeeded(status) == status = "success"

\* The loop of check_status_and_issue_tasks arrives at subtask i, or has
\* come to its end.
Arrive(i, now) ==
    /\ tasks' = now
    /\ fresh' = NoTask
    /\ LET status == now[i].status
           failed == i \in Index /\ IsComplete(status) /\ ~Succeeded(status)
       IN  IF failed \/ i > Length
           THEN /\ state' = "complete"
                /\ call' = "rmworkspace"
                /\ index' = 1
                /\ result' = IF failed THEN "failure" ELSE "success"
           ELSE /\ state' = "running"
                /\ call' = IF status = "none" THEN "create"
                           ELSE IF IsComplete(status) THEN "keep" ELSE "poll"
                /\ index' = i
                /\ UNCHANGED result

\* Broken: every pass starts from an empty build_state.
FromScratch == Arrive(1, [i \in Index |-> [tasks[i] EXCEPT !.status = "none"]])

\* return: the main loop will call check_status_and_issue_tasks again.
NextPass == Arrive(1, tasks)

-----------------------------------------------------------------------------
(* Up to the first subtask *)

ClaimBuild ==
    /\ state = "idle"
    /\ mainTicket' = "claimed"
    /\ GoTo("get-job-config", "config")
    /\ UNCHANGED <<board, storage, history, downstream, faults>>

\* An attempt without an answer is one that did not happen yet.  Without a
\* configuration the controller asks for ever.
GetJobConfig ==
    /\ call = "config"
    /\ configured
    /\ GoTo(state, "put")
    /\ UNCHANGED <<board, storage, mainTicket, history, downstream, faults>>

\* The empty workspace is sent until the frontend has taken it; without the
\* build's directory it never will.
CreateWorkspace ==
    /\ call = "send"
    /\ \/ there /\ workspace' = TRUE /\ Answered /\ GoTo(state, "put")
       \/ there /\ workspace' = TRUE /\ Unanswered /\ UNCHANGED ctl
    /\ UNCHANGED <<board, there, record, mainTicket, history, downstream>>

-----------------------------------------------------------------------------
(* update_build_state *)

\* Broken: the controller's own state ends up in the file.
OwnState == [status |-> state, result |-> result,
             steps |-> [i \in Index |-> tasks[i].status]]

BuildState == [status |-> IF result = "none" THEN "running" ELSE "complete",
               result |-> result,
               steps |-> [i \in Index |-> tasks[i].status]]

\* Broken: does not return while a subtask is at work.
GoesOn == Arrive(IF IsComplete(tasks[index].status) THEN index ELSE index + 1, tasks)

AfterPoll == IF IsComplete(tasks[index].status) THEN Arrive(index, tasks) ELSE NextPass

AfterPut ==
    \/ state = "get-job-config" /\ GoTo("create-workspace", "send")
    \/ state = "create-workspace" /\ NextPass
    \/ state = "running" /\ call = "put" /\ AfterPoll
    \/ state = "running" /\ call = "keep" /\ Arrive(index + 1, tasks)
    \/ state = "complete" /\ GoTo(state, "rmtasks")

AfterFailedPut ==
    \/ state = "get-job-config" /\ GoTo(state, "put")
    \/ state = "create-workspace" /\ GoTo(state, "send")
    \/ state = "running" /\ NextPass
    \/ state = "complete" /\ GoTo(state, "rmworkspace")

\* Broken: the report goes on without its PUT having been answered; the build
\* is dropped.
ReportAnyway == IF state = "complete" THEN AfterPut ELSE AfterFailedPut
DropsBuild == GoTo(state, "none")

GivesUpPut == AfterFailedPut

UpdateBuildState ==
    /\ call \in {"put", "keep"}
    /\ \/ there /\ record' = BuildState /\ Answered /\ AfterPut
       \/ /\ \/ ~there /\ UNCHANGED <<record, faults>>
             \/ /\ Unanswered
                /\ UNCHANGED record \/ (there /\ record' = BuildState)
             \/ /\ losses < MaxLosses /\ FaultLeft
                /\ losses' = losses + 1
                /\ late' = late \cup {BuildState}
                /\ UNCHANGED <<record, relapses, kept>>
          /\ UNCHANGED ctl \/ GivesUpPut
    /\ UNCHANGED <<board, there, workspace, mainTicket, history, downstream>>

\* A PUT that was still queued at the proxy is served.
ServeLate ==
    /\ \E r \in late :
          /\ late' = late \ {r}
          /\ IF there THEN record' = r /\ relapses' = relapses + 1
                      ELSE UNCHANGED <<record, relapses>>
    /\ UNCHANGED <<board, there, workspace, mainTicket, ctl, history, downstream, losses, kept>>

-----------------------------------------------------------------------------
(* check_status_and_issue_tasks *)

\* The entry of an unknown type is called like a function: KeyError, and
\* nobody catches it.
SpawnUnknown ==
    /\ call = "create"
    /\ index \notin known
    /\ GoTo("dead", "none")
    /\ UNCHANGED <<board, storage, mainTicket, history, downstream, faults>>

\* uuid4 draws an id that was never used; which one makes no difference.
NewTicket ==
    /\ \E t \in Task : board[t] = Unborn
    /\ Post(CHOOSE t \in Task : board[t] = Unborn, Subtask(0, "preparing"))

CreateTask ==
    /\ call = "create"
    /\ index \in known
    /\ \/ /\ NewTicket
          /\ fresh' = CHOOSE t \in Task : board[t] = Unborn
          /\ call' = "fill"
          /\ Answered
          /\ UNCHANGED <<state, index, tasks, result>>
       \/ /\ Unanswered
          /\ UNCHANGED board \/ NewTicket
          /\ UNCHANGED ctl \/ NextPass
    /\ UNCHANGED <<storage, mainTicket, history, downstream>>

\* The description is copied into build_state when the PUT was answered; the
\* poll follows in the same pass.
FillTask ==
    /\ call = "fill"
    /\ LET filled == Replace(fresh, Subtask(index, "pending"))
       IN  \/ /\ filled
              /\ Answered
              /\ Arrive(index, [tasks EXCEPT ![index] = [id |-> fresh, status |-> "pending"]])
           \/ Unanswered /\ (UNCHANGED board \/ filled) /\ (UNCHANGED ctl \/ NextPass)
    /\ UNCHANGED <<storage, mainTicket, history, downstream>>

\* Nobody but the controller deletes a subtask's ticket.
PollTask ==
    /\ call = "poll"
    /\ \/ /\ Answered
          /\ tasks' = [tasks EXCEPT ![index].status = board[tasks[index].id].body.status]
       \/ Unanswered /\ UNCHANGED tasks
    /\ call' = "put"
    /\ UNCHANGED <<board, storage, mainTicket, state, index, fresh, result, history, downstream>>

-----------------------------------------------------------------------------
(* report_complete_status *)

\* Whatever comes of it, the report goes on.
DeleteWorkspace ==
    /\ call = "rmworkspace"
    /\ \/ workspace' = FALSE /\ (Answered \/ Unanswered)
       \/ workspace' = workspace /\ Unanswered
    /\ GoTo(state, "put")
    /\ UNCHANGED <<board, there, record, mainTicket, history, downstream>>

\* Broken: cleans up after successful builds only.
CleanOnSuccess == IF result = "success" THEN {i \in Index : tasks[i].id # NoTask} ELSE {}

TicketsToDelete == {i \in Index : tasks[i].id # NoTask}

StartOver == GoTo(state, "rmworkspace")

DeleteSubtask ==
    /\ call = "rmtasks"
    /\ \E i \in TicketsToDelete :
          LET t == tasks[i].id
          IN  \/ /\ \/ Answered /\ (Withdraw(t) \/ (~Live(t) /\ UNCHANGED board))
                    \/ AnsweredAnyway /\ UNCHANGED board
                 /\ tasks' = [tasks EXCEPT ![i].id = NoTask]
                 /\ UNCHANGED <<state, call, index, fresh, result>>
              \/ /\ Unanswered
                 /\ Withdraw(t) \/ UNCHANGED board
                 /\ UNCHANGED ctl \/ StartOver
    /\ UNCHANGED <<storage, mainTicket, history, downstream>>

\* Broken: whatever the result was.
TriggerAlways == GoTo(state, "trigger")

AfterReport == IF result = "success" THEN GoTo(state, "trigger")
                                     ELSE GoTo("reported", "none")

DeleteMainTask ==
    /\ call = "rmtasks"
    /\ TicketsToDelete = {}
    /\ \/ mainTicket' = "gone" /\ Answered /\ AfterReport
       \/ mainTicket' = mainTicket /\ AnsweredAnyway /\ AfterReport
       \/ /\ Unanswered
          /\ mainTicket' \in {mainTicket, "gone"}
          /\ UNCHANGED ctl \/ StartOver
    /\ UNCHANGED <<board, storage, history, downstream>>

\* One attempt per downstream job, answered (it may be refused) or not.
TriggerDownstream ==
    /\ call = "trigger"
    /\ Answered \/ Unanswered
    /\ downstream' \in {0, 1}
    /\ GoTo("reported", "none")
    /\ UNCHANGED <<board, storage, mainTicket, history>>

-----------------------------------------------------------------------------
(* Workers, the user, and the controller's end *)

\* The tickets a controller has in build_states, which forgets a reported build.
Remembered == IF state = "reported" THEN {} ELSE {fresh} \cup {tasks[i].id : i \in Index}

Status(t) == board[t].body.status

SetTicket(t, w, s) ==
    Replace(t, [assignee |-> w, body |-> [board[t].body EXCEPT !.status = s]])

ClaimSubtask(t) ==
    /\ Live(t) /\ Status(t) = "pending"
    /\ \E w \in Worker : SetTicket(t, w, "running")
    /\ abandoned' = abandoned \ {t}
    /\ UNCHANGED <<storage, mainTicket, ctl, configured, known, outcome, reruns, downstream, faults>>

\* A worker that read the ticket before another one claimed and finished it.
RerunSubtask(t) ==
    /\ Live(t) /\ IsComplete(Status(t))
    /\ reruns < MaxReruns /\ FaultLeft
    /\ reruns' = reruns + 1
    /\ \E w \in Worker : SetTicket(t, w, "running")
    /\ UNCHANGED <<storage, mainTicket, ctl, configured, known, outcome, abandoned, downstream,
                   faults>>

ReportSubtask(t) ==
    /\ Live(t) /\ Status(t) = "running"
    /\ t \notin abandoned
    /\ \E r \in Run!Final :
          /\ SetTicket(t, NoOne, r)
          /\ outcome' = [outcome EXCEPT ![board[t].body.step] = @ \cup {r}]
    /\ UNCHANGED <<storage, mainTicket, ctl, configured, known, abandoned, reruns, downstream, faults>>

\* The worker that claimed the ticket dies, or never gets past a fetch or a
\* report; or there is no worker left that could claim it.  For a ticket that
\* the controller has forgotten it makes no difference.
AbandonSubtask(t) ==
    /\ Live(t) /\ Status(t) \in {"pending", "running"}
    /\ t \in Remembered \ abandoned
    /\ Cardinality(abandoned) < MaxAbandoned /\ FaultLeft
    /\ abandoned' = abandoned \cup {t}
    /\ UNCHANGED <<board, storage, mainTicket, ctl, configured, known, outcome, reruns, downstream,
                   faults>>

DeleteBuild ==
    /\ there
    /\ there' = FALSE
    /\ workspace' = FALSE
    /\ UNCHANGED <<board, record, mainTicket, ctl, history, downstream, faults>>

\* build_states is lost with the process.
CrashController ==
    /\ state \notin {"idle", "reported", "dead"}
    /\ GoTo("dead", "none")
    /\ UNCHANGED <<board, storage, mainTicket, history, downstream, faults>>

-----------------------------------------------------------------------------
ControllerStep ==
    \/ ClaimBuild \/ GetJobConfig \/ CreateWorkspace \/ UpdateBuildState
    \/ SpawnUnknown \/ CreateTask \/ FillTask \/ PollTask
    \/ DeleteWorkspace \/ DeleteSubtask \/ DeleteMainTask \/ TriggerDownstream

Next ==
    \/ ControllerStep
    \/ \E t \in Task : ClaimSubtask(t) \/ RerunSubtask(t) \/ ReportSubtask(t)
                       \/ AbandonSubtask(t)
    \/ ServeLate \/ DeleteBuild \/ CrashController

Spec == Init /\ [][Next]_vars

\* The loop of a controller that lives goes on, and so do the workers: as long
\* as there is a ticket that is not abandoned, one gets claimed, and one gets
\* reported.  Polls that find a ticket unchanged do not count, so the workers
\* need a fairness of their own.
FairSpec ==
    /\ Spec
    /\ WF_vars(ControllerStep)
    /\ WF_vars(\E t \in Task \ abandoned : ClaimSubtask(t))
    /\ WF_vars(\E t \in Task : ReportSubtask(t))

-----------------------------------------------------------------------------
(* Properties *)

\* Whatever is lost, repeated or served late, the state file only says of a
\* step what a worker reported, and of the build what its steps add up to
\* (build_control.py:104-138).
RecordTellsTruth ==
    /\ Run!Sound(record)
    /\ \A i \in Index : record.steps[i] \in Run!Final => record.steps[i] \in outcome[i]

\* A step is offered to the workers only after the one before it succeeded,
\* on every ticket ever posted for it, forgotten ones included; and whoever
\* picks up a ticket the controller waits for finds a workspace
\* (build_control.py:51-67, 115-135).
StepsInOrder ==
    \A t \in Task : Live(t) =>
        /\ \A i \in 1 .. board[t].body.step - 1 : "success" \in outcome[i]
        /\ Status(t) = "pending" /\ t \in Remembered => workspace \/ ~there

\* A controller loses sight of a ticket only through a request without an
\* answer or a delete that failed and was answered 204 (sync.py:184-186), one
\* ticket each time: none is left behind by the order of its steps, and none by
\* the end of the build (build_control.py:94-101, 149-157).
StraysBoundedByFaults ==
    state # "dead" =>
        Cardinality({t \in Task : Live(t) /\ t \notin Remembered}) <= losses + kept

\* A build's ticket stays until the build's end has been recorded, unless an
\* old request overwrote the record since (README.rst:45, "remain posted until
\* the task is completed").
TicketStaysUntilRecorded ==
    mainTicket = "gone" => ~there \/ record.status = "complete" \/ relapses > 0

\* The downstream job is triggered only when every step has succeeded and the
\* success is recorded, unless an old request overwrote the record since; and
\* not before the build's own ticket is off the board, unless a delete of a
\* ticket failed and was answered 204 (build_control.py:159-171).
DownstreamAfterSuccess ==
    downstream > 0 =>
        /\ \A i \in Index : "success" \in outcome[i]
        /\ ~there \/ record.result = "success" \/ relapses > 0
        /\ mainTicket = "gone" \/ kept > 0

\* The detailed state file goes through the states of BuildRun.
ImplementsBuildRun == Run!RunSpec

\* A claimed build is seen through to its end unless its controller dies,
\* somebody deletes it, its job has no configuration, or nobody works on a
\* ticket it waits for any more; lost requests alone do not stop it
\* (README.rst:28, "regain proper state through request retries").
EveryBuildEnds ==
    mainTicket = "claimed" ~>
        \/ state \in {"reported", "dead"}
        \/ ~there \/ ~configured
        \/ \E i \in Index : tasks[i].id \in abandoned
=============================================================================
