------------------------------ MODULE BuildRun ------------------------------
(***************************************************************************)
(* What a user who reads a build's state sees of it while it runs: steps   *)
(* follow each other, each after the success of the one before; the result *)
(* is that of the steps; and what was once recorded stays.  BuildControl   *)
(* is shown to implement this module.                                      *)
(***************************************************************************)
EXTENDS Naturals

CONSTANT Length   \* number of tasks in the job's configuration

VARIABLES
    record,     \* the build's state file
    relapses    \* how often a request served late overwrote it

StepStatus == {"none", "pending", "running", "success", "failure"}
Final == {"success", "failure"}

Record == [status : {"preparing", "running", "complete"},
           result : {"none", "success", "failure"},
           steps : [1 .. Length -> StepStatus]]

Triggered == [status |-> "preparing", result |-> "none",
              steps |-> [i \in 1 .. Length |-> "none"]]

\* No step without the success of the one before, no result without reason.
Sound(r) ==
    /\ \A i \in 2 .. Length : r.steps[i] # "none" => r.steps[i - 1] = "success"
    /\ r.status = "complete" <=> r.result # "none"
    /\ r.result = "success" => \A i \in 1 .. Length : r.steps[i] = "success"
    /\ r.result = "failure" => \E i \in 1 .. Length : r.steps[i] = "failure"

\* r may replace q: results of steps and of the build stay.
Later(q, r) ==
    /\ q.status = "complete" => r = q
    /\ r.status = "preparing" => q.status = "preparing"
    /\ \A i \in 1 .. Length : q.steps[i] \in Final => r.steps[i] = q.steps[i]

Advance ==
    /\ record' \in Record
    /\ Sound(record')
    /\ Later(record, record')
    /\ UNCHANGED relapses

Relapse ==
    /\ record' \in Record
    /\ Sound(record')
    /\ relapses' = relapses + 1

RunSpec ==
    /\ record = Triggered /\ relapses = 0
    /\ [][Advance \/ Relapse]_<<record, relapses>>
=============================================================================
