-------------------------- MODULE BuildControlProofs --------------------------
(***************************************************************************)
(* Proofs about BuildControl, for jobs of any number of steps, any number  *)
(* of tickets and workers, and any number of lost and late requests.       *)
(***************************************************************************)
EXTENDS BuildControl, FiniteSetTheorems, TLAPS

TaskState == [id : Task \cup {NoTask}, status : Run!StepStatus]

\* Which request may be next in which state, and when there is a result.
CallsFit ==
    /\ state \in {"idle", "reported", "dead"} <=> call = "none"
    /\ state = "get-job-config" => call \in {"config", "put"}
    /\ state = "create-workspace" => call \in {"send", "put"}
    /\ state = "running" => call \in {"create", "fill", "poll", "put", "keep"}
    /\ state = "complete" => call \in {"put", "rmworkspace", "rmtasks", "trigger"}
    /\ state \in {"complete", "reported"} => result # "none"
    /\ state \in {"idle", "get-job-config", "create-workspace", "running"} => result = "none"
    /\ call = "fill" => fresh # NoTask
    /\ fresh # NoTask => result = "none" /\ (call = "fill" \/ state = "dead")

\* Statuses in which no step was begun before the ones in front of it succeeded.
Follow(now) ==
    \A i, j \in Index : i < j /\ now[j].status # "none" => now[i].status = "success"

\* Where the controller is among its steps, and what its result is made of.
StepsFit ==
    /\ Follow(tasks)
    /\ state \in {"idle", "get-job-config", "create-workspace"}
          => \A i \in Index : tasks[i].status = "none"
    /\ state = "running" =>
          /\ index \in Index
          /\ \A i \in Index : i < index => tasks[i].status = "success"
          /\ call \in {"create", "fill"} => tasks[index].status = "none"
          /\ call = "poll" => tasks[index].status \in {"pending", "running"}
          /\ call = "put" => tasks[index].status # "none"
          /\ call = "keep" => tasks[index].status = "success"
    /\ result = "success" => \A i \in Index : tasks[i].status = "success"
    /\ result = "failure" => \E i \in Index : tasks[i].status = "failure"

\* A ticket on the board is about a step whose predecessors succeeded, and
\* says what was reported.
BoardFits == \A t \in Task : Live(t) =>
    /\ board[t].body \in SubtaskBody
    /\ Status(t) # "preparing" => board[t].body.step \in Index
    /\ Status(t) \in Run!Final => Status(t) \in outcome[board[t].body.step]
    /\ \A i \in 1 .. board[t].body.step - 1 : "success" \in outcome[i]

\* What the controller remembers of a step agrees with its ticket, which is on
\* the board until the build has a result.
TasksFit == \A i \in Index :
    /\ tasks[i].id # NoTask =>
          /\ tasks[i].status # "none"
          /\ board[tasks[i].id] # Unborn
          /\ Live(tasks[i].id) =>
                /\ board[tasks[i].id].body.step = i
                /\ Status(tasks[i].id) # "preparing"
                /\ tasks[i].status # "pending" => Status(tasks[i].id) # "pending"
    /\ tasks[i].status # "none" /\ result = "none"
          => tasks[i].id # NoTask /\ Live(tasks[i].id)
    /\ tasks[i].status \in Run!Final => tasks[i].status \in outcome[i]

\* A ticket that is being filled in is on the board, and nobody else's.
FreshFits == fresh # NoTask =>
    /\ Live(fresh)
    /\ \A i \in Index : tasks[i].id # fresh

\* Steps are worked on in a workspace.
WorkspaceFits ==
    /\ state = "running" \/ (state = "create-workspace" /\ call = "put") => workspace \/ ~there
    /\ \A t \in Task :
          /\ Live(t) /\ Status(t) = "pending"
          /\ t = fresh \/ \E i \in Index : tasks[i].id = t
          => workspace \/ ~there

\* The state file, and whatever is on its way to it, is sound and older than
\* what the controller would write.
RecordsFit == \A r \in late \cup {record} :
    /\ r \in Run!Record
    /\ Run!Sound(r)
    /\ \A i \in Index : r.steps[i] \in Run!Final => r.steps[i] \in outcome[i]
    /\ Run!Later(r, BuildState)

\* The result has been written to the state file.
Recorded ==
    ~there \/ relapses > 0 \/ (record.status = "complete" /\ record.result = result)

\* The end of a build comes in order: its record, its tickets, the downstream job.
EndFits ==
    /\ \/ call \in {"rmtasks", "trigger"} \/ state = "reported"
       \/ mainTicket = "gone" \/ downstream > 0
       => Recorded
    /\ mainTicket = "gone" => result # "none"
    /\ call = "trigger" \/ downstream > 0
       => result = "success" /\ (mainTicket = "gone" \/ kept > 0)
    /\ call = "trigger" \/ state = "reported" => \A i \in Index : tasks[i].id = NoTask

\* Tickets that the controller has lost sight of.
Strays == {t \in Task : Live(t) /\ t # fresh /\ \A i \in Index : tasks[i].id # t}

\* A lost request makes a stray or is late, not both; so does a failed delete that
\* was answered all the same make a stray.
LossesCount ==
    /\ IsFiniteSet(Strays) /\ Cardinality(Strays) <= losses + kept
    /\ IsFiniteSet(late) /\ Cardinality(late) + relapses <= losses

IndInv ==
    /\ TypeOK
    /\ CallsFit
    /\ StepsFit
    /\ BoardFits
    /\ TasksFit
    /\ FreshFits
    /\ WorkspaceFits
    /\ RecordsFit
    /\ EndFits
    /\ LossesCount

-----------------------------------------------------------------------------
(* Sets of tickets, requests and steps *)

\* A subset is no larger: what TLC counts in straying tickets stays bounded.
LEMMA NoMore ==
    ASSUME NEW S, NEW T, IsFiniteSet(S), T \subseteq S
    PROVE  /\ IsFiniteSet(T)
           /\ Cardinality(T) \in Nat
           /\ Cardinality(S) \in Nat
           /\ Cardinality(T) <= Cardinality(S)
<1>1. IsFiniteSet(T) /\ Cardinality(T) <= Cardinality(S)  BY FS_Subset
<1>2. QED  BY <1>1, FS_CardinalityType

\* One more element makes a set larger by one at most.
LEMMA OneMore ==
    ASSUME NEW S, NEW T, NEW x, IsFiniteSet(S), T \subseteq S \cup {x}
    PROVE  /\ IsFiniteSet(T)
           /\ Cardinality(T) \in Nat
           /\ Cardinality(S) \in Nat
           /\ Cardinality(T) <= Cardinality(S) + 1
<1>1. IsFiniteSet(S \cup {x})  BY FS_AddElement
<1>2. Cardinality(S \cup {x}) <= Cardinality(S) + 1
  <2>1. Cardinality(S \cup {x}) = Cardinality(S) \/ Cardinality(S \cup {x}) = Cardinality(S) + 1
    BY FS_AddElement
  <2>2. QED  BY <2>1, FS_CardinalityType
<1>3. IsFiniteSet(T) /\ Cardinality(T) <= Cardinality(S \cup {x})  BY <1>1, FS_Subset
<1>4. QED  BY <1>1, <1>2, <1>3, FS_CardinalityType

\* A request that is served is one less in the queue.
LEMMA OneLess ==
    ASSUME NEW S, NEW x \in S, IsFiniteSet(S)
    PROVE  /\ IsFiniteSet(S \ {x})
           /\ Cardinality(S \ {x}) \in Nat
           /\ Cardinality(S) \in Nat
           /\ Cardinality(S \ {x}) = Cardinality(S) - 1
<1>1. IsFiniteSet(S \ {x}) /\ Cardinality(S \ {x}) = Cardinality(S) - 1  BY FS_RemoveElement
<1>2. QED  BY <1>1, FS_CardinalityType

\* What the types of the controller's variables say of its steps and losses.
LEMMA Typed ==
    ASSUME TypeOK
    PROVE  /\ Length \in Nat /\ MaxLosses \in Nat
           /\ index \in Int /\ 1 <= index /\ index <= Length + 1
           /\ tasks \in [Index -> TaskState]
           /\ \A i \in Index : /\ tasks[i].id \in Task \cup {NoTask}
                               /\ tasks[i].status \in Run!StepStatus
           /\ losses \in Nat /\ losses <= MaxLosses
           /\ kept \in Nat /\ kept <= MaxKept /\ MaxKept \in Nat
           /\ relapses \in Nat /\ relapses <= MaxLosses
           /\ fresh \in Task \cup {NoTask}
           /\ NoTask \notin Task
           /\ board \in [Task -> Place]
<1>1. tasks \in [Index -> TaskState]  BY DEF TypeOK, TaskState
<1>2. \A i \in Index : tasks[i].id \in Task \cup {NoTask} /\ tasks[i].status \in Run!StepStatus
  BY <1>1 DEF TaskState
<1>3. QED  BY <1>1, <1>2, ControlConstants DEF TypeOK

\* What update_build_state writes.
LEMMA BuildStateSays ==
    /\ BuildState.status = "complete" <=> result # "none"
    /\ BuildState.status # "preparing"
    /\ BuildState.result = result
    /\ \A i \in Index : BuildState.steps[i] = tasks[i].status
BY DEF BuildState

\* ... and that it is a state file.
LEMMA BuildStateTyped ==
    ASSUME TypeOK
    PROVE  BuildState \in Run!Record
<1>1. \A i \in Index : tasks[i].status \in Run!StepStatus  BY Typed
<1>2. [i \in Index |-> tasks[i].status] \in [1 .. Length -> Run!StepStatus]
  BY <1>1 DEF Index
<1>3. QED  BY <1>2 DEF BuildState, TypeOK, Run!Record

\* What the controller would write tells the truth: no step without the one
\* before it, no result without its steps, nothing that was not reported.
LEMMA BuildStateTrue ==
    ASSUME TypeOK, StepsFit, TasksFit
    PROVE  /\ Run!Sound(BuildState)
           /\ \A i \in Index : BuildState.steps[i] \in Run!Final => BuildState.steps[i] \in outcome[i]
<1>1. \A i \in 2 .. Length : i \in Index /\ i - 1 \in Index /\ i - 1 < i
  BY Typed DEF Index
<1>2. \A i \in 2 .. Length : BuildState.steps[i] # "none" => BuildState.steps[i - 1] = "success"
  BY <1>1, BuildStateSays DEF StepsFit, Follow
<1>3. BuildState.result = "success" => \A i \in Index : BuildState.steps[i] = "success"
  BY BuildStateSays DEF StepsFit
<1>4. BuildState.result = "failure" => \E i \in Index : BuildState.steps[i] = "failure"
  BY BuildStateSays DEF StepsFit
<1>5. Run!Sound(BuildState)
  BY <1>2, <1>3, <1>4, BuildStateSays DEF Run!Sound, Index
<1>6. QED  BY <1>5, BuildStateSays DEF TasksFit

\* A request of the controller may replace its earlier ones if results stay.
LEMMA BuildStateMoves ==
    ASSUME result # "none" =>
              result' = result /\ \A i \in Index : tasks'[i].status = tasks[i].status,
           \A i \in Index : tasks[i].status \in Run!Final => tasks'[i].status = tasks[i].status
    PROVE  Run!Later(BuildState, BuildState')
<1>1. BuildState'.status # "preparing"  BY DEF BuildState
<1>2. \A i \in Index : BuildState'.steps[i] = tasks'[i].status  BY DEF BuildState
<1>3. BuildState.status = "complete" => BuildState' = BuildState  BY DEF BuildState
<1>4. QED  BY <1>1, <1>2, <1>3, BuildStateSays DEF Run!Later, Index

\* Later is transitive: what comes after a record comes after its predecessors.
LEMMA LaterTransitive ==
    ASSUME NEW p, NEW q, NEW r, Run!Later(p, q), Run!Later(q, r)
    PROVE  Run!Later(p, r)
BY DEF Run!Later

\* The state file and the queued requests stay sound when the only thing that
\* is written is the controller's state.
LEMMA RecordsStay ==
    ASSUME IndInv,
           \A i \in Index : outcome[i] \subseteq outcome'[i],
           Run!Later(BuildState, BuildState'),
           late' \cup {record'} \subseteq late \cup {record, BuildState}
    PROVE  RecordsFit'
<1> USE DEF IndInv
<1> SUFFICES ASSUME NEW r \in late' \cup {record'}
             PROVE  /\ r \in Run!Record
                    /\ Run!Sound(r)
                    /\ \A i \in Index : r.steps[i] \in Run!Final => r.steps[i] \in outcome'[i]
                    /\ Run!Later(r, BuildState')
  BY DEF RecordsFit, Run!Record, Run!Sound, Run!Final, Run!StepStatus, Run!Later, Index
<1>1. CASE r = BuildState
  BY <1>1, BuildStateTyped, BuildStateTrue
<1>2. CASE r \in late \cup {record}
  <2>1. /\ r \in Run!Record
        /\ Run!Sound(r)
        /\ \A i \in Index : r.steps[i] \in Run!Final => r.steps[i] \in outcome[i]
        /\ Run!Later(r, BuildState)
    BY <1>2 DEF RecordsFit
  <2>2. Run!Later(r, BuildState')  BY <2>1, LaterTransitive
  <2>3. QED  BY <2>1, <2>2
<1>3. QED  BY <1>1, <1>2

\* Nothing about steps and tickets changes while the controller only moves on.
LEMMA SameTasks ==
    ASSUME IndInv, UNCHANGED <<board, outcome, fresh, tasks, result>>
    PROVE  /\ BoardFits' /\ TasksFit' /\ FreshFits'
           /\ Run!Later(BuildState, BuildState')
           /\ Strays' = Strays
           /\ Follow(tasks)'
<1> USE DEF IndInv
<1>1. BoardFits'  BY DEF BoardFits, Live, Status
<1>2. TasksFit'  BY DEF TasksFit, Live, Status
<1>3. FreshFits'  BY DEF FreshFits, Live
<1>4. Strays' = Strays  BY DEF Strays, Live
<1>5. Run!Later(BuildState, BuildState')  BY BuildStateMoves
<1>6. Follow(tasks)'  BY DEF StepsFit, Follow
<1>7. QED  BY <1>1, <1>2, <1>3, <1>4, <1>5, <1>6

-----------------------------------------------------------------------------
(* Losses *)

\* A step that made no stray costs nothing.
LEMMA CountStays ==
    ASSUME IndInv, Strays' \subseteq Strays, UNCHANGED <<late, relapses>>,
           losses' = losses \/ losses' = losses + 1, kept' = kept \/ kept' = kept + 1
    PROVE  LossesCount'
<1> USE DEF IndInv
<1>1. IsFiniteSet(Strays) /\ Cardinality(Strays) <= losses + kept  BY DEF LossesCount
<1>2. /\ IsFiniteSet(Strays') /\ Cardinality(Strays') \in Nat /\ Cardinality(Strays) \in Nat
      /\ Cardinality(Strays') <= Cardinality(Strays)
  BY <1>1, NoMore
<1>3. Cardinality(Strays') <= losses' + kept'  BY <1>1, <1>2, Typed
<1>4. IsFiniteSet(late') /\ Cardinality(late') = Cardinality(late) /\ Cardinality(late) \in Nat
  BY FS_CardinalityType DEF LossesCount
<1>5. Cardinality(late') + relapses' <= losses'
  BY <1>4, Typed DEF LossesCount
<1>6. QED  BY <1>2, <1>3, <1>4, <1>5 DEF LossesCount

\* An unanswered request, or a delete that failed and was answered all the same,
\* may leave one ticket behind.
LEMMA CountStray ==
    ASSUME IndInv, NEW t, Strays' \subseteq Strays \cup {t}, UNCHANGED <<late, relapses>>,
           \/ losses' = losses + 1 /\ kept' = kept
           \/ losses' = losses /\ kept' = kept + 1
    PROVE  LossesCount'
<1> USE DEF IndInv
<1>1. IsFiniteSet(Strays) /\ Cardinality(Strays) <= losses + kept  BY DEF LossesCount
<1>2. /\ IsFiniteSet(Strays') /\ Cardinality(Strays') \in Nat /\ Cardinality(Strays) \in Nat
      /\ Cardinality(Strays') <= Cardinality(Strays) + 1
  BY <1>1, OneMore
<1>3. Cardinality(Strays') <= losses' + kept'  BY <1>1, <1>2, Typed
<1>4. IsFiniteSet(late') /\ Cardinality(late') = Cardinality(late) /\ Cardinality(late) \in Nat
  BY FS_CardinalityType DEF LossesCount
<1>5. Cardinality(late') + relapses' <= losses'
  BY <1>4, Typed DEF LossesCount
<1>6. QED  BY <1>2, <1>3, <1>4, <1>5 DEF LossesCount

\* ... or be queued.
LEMMA CountLate ==
    ASSUME IndInv, NEW r, Strays' \subseteq Strays, late' = late \cup {r},
           UNCHANGED <<relapses, kept>>, losses' = losses + 1
    PROVE  LossesCount'
<1> USE DEF IndInv
<1>1. /\ IsFiniteSet(Strays) /\ Cardinality(Strays) <= losses + kept
      /\ IsFiniteSet(late) /\ Cardinality(late) + relapses <= losses
  BY DEF LossesCount
<1>2. /\ IsFiniteSet(Strays') /\ Cardinality(Strays') \in Nat /\ Cardinality(Strays) \in Nat
      /\ Cardinality(Strays') <= Cardinality(Strays)
  BY <1>1, NoMore
<1>3. /\ IsFiniteSet(late') /\ Cardinality(late') \in Nat /\ Cardinality(late) \in Nat
      /\ Cardinality(late') <= Cardinality(late) + 1
  BY <1>1, OneMore
<1>4. Cardinality(Strays') <= losses' + kept'  BY <1>1, <1>2, Typed
<1>5. Cardinality(late') + relapses' <= losses'  BY <1>1, <1>3, Typed
<1>6. QED  BY <1>2, <1>3, <1>4, <1>5 DEF LossesCount

-----------------------------------------------------------------------------
(* Places in the controller's loop *)

\* Where the loop of check_status_and_issue_tasks finds its next request, or
\* its end.
LEMMA ArriveDoes ==
    ASSUME Length \in Nat,
           NEW i \in 1 .. Length + 1,
           NEW now \in [Index -> TaskState],
           Follow(now),
           \A j \in Index : j < i => now[j].status = "success",
           result = "none",
           Arrive(i, now)
    PROVE  /\ tasks' = now
           /\ fresh' = NoTask
           /\ Follow(tasks')
           /\ \/ /\ state' = "running" /\ result' = "none"
                 /\ index' = i /\ i \in Index
                 /\ call' \in {"create", "poll", "keep"}
                 /\ call' = "create" => now[i].status = "none"
                 /\ call' = "poll" => now[i].status \in {"pending", "running"}
                 /\ call' = "keep" => now[i].status = "success"
              \/ /\ state' = "complete" /\ call' = "rmworkspace"
                 /\ index' = 1
                 /\ \/ result' = "success" /\ \A j \in Index : now[j].status = "success"
                    \/ result' = "failure" /\ \E j \in Index : now[j].status = "failure"
<1>1. tasks' = now /\ fresh' = NoTask /\ Follow(tasks')  BY DEF Arrive
<1>2. CASE i \in Index /\ IsComplete(now[i].status) /\ ~Succeeded(now[i].status)
  <2>1. state' = "complete" /\ call' = "rmworkspace" /\ index' = 1 /\ result' = "failure"
    BY <1>2 DEF Arrive
  <2>2. now[i].status = "failure"  BY <1>2 DEF IsComplete, Succeeded
  <2>3. QED  BY <1>1, <1>2, <2>1, <2>2
<1>3. CASE ~(i \in Index /\ IsComplete(now[i].status) /\ ~Succeeded(now[i].status)) /\ i > Length
  <2>1. state' = "complete" /\ call' = "rmworkspace" /\ index' = 1 /\ result' = "success"
    BY <1>3 DEF Arrive
  <2>2. \A j \in Index : j < i  BY <1>3 DEF Index
  <2>3. QED  BY <1>1, <2>1, <2>2
<1>4. CASE ~(i \in Index /\ IsComplete(now[i].status) /\ ~Succeeded(now[i].status)) /\ ~(i > Length)
  <2>1. /\ state' = "running" /\ index' = i /\ result' = "none"
        /\ call' = IF now[i].status = "none" THEN "create"
                   ELSE IF IsComplete(now[i].status) THEN "keep" ELSE "poll"
    BY <1>4 DEF Arrive
  <2>2. i \in Index  BY <1>4 DEF Index
  <2>3. now[i].status \in Run!StepStatus  BY <2>2 DEF TaskState
  <2>4. IsComplete(now[i].status) => now[i].status = "success"
    BY <1>4, <2>2 DEF Succeeded
  <2>5. ~IsComplete(now[i].status) /\ now[i].status # "none"
           => now[i].status \in {"pending", "running"}
    BY <2>3 DEF IsComplete, Run!StepStatus
  <2>6. /\ call' \in {"create", "poll", "keep"}
        /\ call' = "create" => now[i].status = "none"
        /\ call' = "poll" => ~IsComplete(now[i].status) /\ now[i].status # "none"
        /\ call' = "keep" => IsComplete(now[i].status)
    BY <2>1
  <2>7. QED  BY <1>1, <2>1, <2>2, <2>4, <2>5, <2>6
<1>5. QED  BY <1>2, <1>3, <1>4

\* Wherever it arrives, its place fits its steps.
LEMMA ArriveFits ==
    ASSUME IndInv,
           NEW i \in 1 .. Length + 1,
           NEW now \in [Index -> TaskState],
           Follow(now),
           \A j \in Index : j < i => now[j].status = "success",
           result = "none",
           Arrive(i, now)
    PROVE  /\ CallsFit' /\ StepsFit' /\ FreshFits'
           /\ state' \in {"running", "complete"}
           /\ call' \in {"create", "poll", "keep", "rmworkspace"}
           /\ index' \in 1 .. Length + 1
           /\ result' \in {"none", "success", "failure"}
           /\ tasks' = now
           /\ fresh' = NoTask
<1>0. Length \in Nat  BY ControlConstants
<1>1. /\ tasks' = now
      /\ fresh' = NoTask
      /\ Follow(tasks')
      /\ \/ /\ state' = "running" /\ result' = "none"
            /\ index' = i /\ i \in Index
            /\ call' \in {"create", "poll", "keep"}
            /\ call' = "create" => now[i].status = "none"
            /\ call' = "poll" => now[i].status \in {"pending", "running"}
            /\ call' = "keep" => now[i].status = "success"
         \/ /\ state' = "complete" /\ call' = "rmworkspace"
            /\ index' = 1
            /\ \/ result' = "success" /\ \A j \in Index : now[j].status = "success"
               \/ result' = "failure" /\ \E j \in Index : now[j].status = "failure"
  BY <1>0, ArriveDoes
<1>2. CallsFit'  BY <1>1 DEF CallsFit
<1>3. Follow(tasks)'  BY <1>1 DEF Follow
<1>4. StepsFit'  BY <1>1, <1>3 DEF StepsFit
<1>5. FreshFits'  BY <1>1 DEF FreshFits
<1>6. QED  BY <1>0, <1>1, <1>2, <1>4, <1>5

\* The controller may always begin a new pass over its steps.
LEMMA NextPassFits ==
    ASSUME IndInv, result = "none", NextPass
    PROVE  /\ CallsFit' /\ StepsFit' /\ FreshFits'
           /\ state' \in {"running", "complete"}
           /\ call' \in {"create", "poll", "keep", "rmworkspace"}
           /\ index' \in 1 .. Length + 1
           /\ result' \in {"none", "success", "failure"}
           /\ tasks' = tasks
           /\ fresh' = NoTask
<1>1. Follow(tasks) /\ tasks \in [Index -> TaskState] /\ Length \in Nat
  BY Typed DEF IndInv, StepsFit
<1>2. 1 \in 1 .. Length + 1 /\ \A j \in Index : ~(j < 1)  BY <1>1 DEF Index
<1>3. Arrive(1, tasks)  BY DEF NextPass
<1>4. QED  BY <1>1, <1>2, <1>3, ArriveFits

-----------------------------------------------------------------------------
(* Up to the first subtask *)

\* Claiming the build's ticket begins the controller's loop.
LEMMA ClaimBuildStep ==
    ASSUME IndInv, ClaimBuild
    PROVE  IndInv'
<1> USE DEF IndInv
<1>1. /\ state = "idle" /\ mainTicket' = "claimed"
      /\ state' = "get-job-config" /\ call' = "config"
  BY DEF ClaimBuild, GoTo
<1>2. UNCHANGED <<board, there, record, workspace, index, fresh, tasks, result, configured, known,
                  outcome, abandoned, reruns, downstream, late, relapses, losses, kept>>
  BY DEF ClaimBuild, GoTo, storage, history, faults
<1> USE <1>2
<1>3. TypeOK'  BY <1>1 DEF TypeOK
<1>4. BoardFits' /\ TasksFit' /\ FreshFits' /\ Strays' = Strays
      /\ Run!Later(BuildState, BuildState') /\ Follow(tasks)'
  BY SameTasks
<1>5. CallsFit'  BY <1>1 DEF CallsFit
<1>6. StepsFit'  BY <1>1, <1>4 DEF StepsFit
<1>7. WorkspaceFits'  BY <1>1 DEF WorkspaceFits, Live, Status
<1>8. RecordsFit'  BY <1>4, RecordsStay
<1>9. EndFits'  BY <1>1 DEF EndFits, Recorded, CallsFit
<1>10. LossesCount'  BY <1>4, CountStays
<1>11. QED  BY <1>3, <1>4, <1>5, <1>6, <1>7, <1>8, <1>9, <1>10

\* The job's configuration is fetched.
LEMMA GetJobConfigStep ==
    ASSUME IndInv, GetJobConfig
    PROVE  IndInv'
<1> USE DEF IndInv
<1>1. call = "config" /\ state' = state /\ call' = "put"
  BY DEF GetJobConfig, GoTo
<1>2. UNCHANGED <<board, there, record, workspace, mainTicket, index, fresh, tasks, result, configured, known,
                  outcome, abandoned, reruns, downstream, late, relapses, losses, kept>>
  BY DEF GetJobConfig, GoTo, storage, history, faults
<1> USE <1>2
<1>3. TypeOK'  BY <1>1 DEF TypeOK
<1>4. BoardFits' /\ TasksFit' /\ FreshFits' /\ Strays' = Strays
      /\ Run!Later(BuildState, BuildState') /\ Follow(tasks)'
  BY SameTasks
<1>5. state = "get-job-config"  BY <1>1 DEF CallsFit, TypeOK
<1>6. CallsFit'  BY <1>1, <1>5 DEF CallsFit
<1>7. StepsFit'  BY <1>1, <1>4, <1>5 DEF StepsFit
<1>8. WorkspaceFits'  BY <1>1, <1>5 DEF WorkspaceFits, Live, Status
<1>9. RecordsFit'  BY <1>4, RecordsStay
<1>10. EndFits'  BY <1>1, <1>5 DEF EndFits, Recorded, CallsFit
<1>11. LossesCount'  BY <1>4, CountStays
<1>12. QED  BY <1>3, <1>4, <1>6, <1>7, <1>8, <1>9, <1>10, <1>11

\* The workspace is sent, and taken or not.
LEMMA CreateWorkspaceStep ==
    ASSUME IndInv, CreateWorkspace
    PROVE  IndInv'
<1> USE DEF IndInv
<1>1. /\ call = "send" /\ workspace' = TRUE
      /\ state' = state /\ call' \in {"put", "send"}
      /\ \/ losses' = losses
         \/ losses < MaxLosses /\ losses' = losses + 1
  BY DEF CreateWorkspace, GoTo, Answered, Unanswered, ctl, faults
<1>2. UNCHANGED <<board, there, record, mainTicket, index, fresh, tasks, result, configured, known,
                  outcome, abandoned, reruns, downstream, late, relapses, kept>>
  BY DEF CreateWorkspace, GoTo, Answered, Unanswered, ctl, history, faults
<1> USE <1>2
<1>3. losses' \in 0 .. MaxLosses  BY <1>1, Typed
<1>4. TypeOK'  BY <1>1, <1>3 DEF TypeOK
<1>5. BoardFits' /\ TasksFit' /\ FreshFits' /\ Strays' = Strays
      /\ Run!Later(BuildState, BuildState') /\ Follow(tasks)'
  BY SameTasks
<1>6. state = "create-workspace"  BY <1>1 DEF CallsFit, TypeOK
<1>7. CallsFit'  BY <1>1, <1>6 DEF CallsFit
<1>8. StepsFit'  BY <1>1, <1>5, <1>6 DEF StepsFit
<1>9. WorkspaceFits'  BY <1>1 DEF WorkspaceFits
<1>10. RecordsFit'  BY <1>5, RecordsStay
<1>11. EndFits'  BY <1>1, <1>6 DEF EndFits, Recorded, CallsFit
<1>12. LossesCount'  BY <1>1, <1>5, CountStays
<1>13. QED  BY <1>4, <1>5, <1>7, <1>8, <1>9, <1>10, <1>11, <1>12

-----------------------------------------------------------------------------
(* update_build_state *)

\* Whatever became of the PUT, the controller's place fits its steps, which
\* are what they were.
LEMMA PutMoves ==
    ASSUME IndInv, call \in {"put", "keep"}, AfterPut \/ AfterFailedPut \/ UNCHANGED ctl
    PROVE  /\ CallsFit' /\ StepsFit' /\ FreshFits'
           /\ state' \in {"get-job-config", "create-workspace", "running", "complete"}
           /\ call' \in {"config", "put", "send", "create", "poll", "keep",
                         "rmworkspace", "rmtasks"}
           /\ index' \in 1 .. Length + 1
           /\ result' \in {"none", "success", "failure"}
           /\ tasks' = tasks
           /\ fresh' = NoTask
           /\ result # "none" => result' = result
           /\ state = "complete" <=> result # "none"
           /\ state' \in {"create-workspace", "running"} =>
                 \/ state' = "create-workspace" /\ call' = "send"
                 \/ state \in {"create-workspace", "running"} /\ UNCHANGED ctl
                 \/ state = "create-workspace" /\ call = "put"
                 \/ state = "running"
           /\ call' = "rmtasks" => result # "none"
<1> USE DEF IndInv
<1>0. /\ state \in {"get-job-config", "create-workspace", "running", "complete"}
      /\ state \in {"get-job-config", "create-workspace", "complete"} => call = "put"
      /\ state = "complete" <=> result # "none"
      /\ fresh = NoTask
      /\ index \in 1 .. Length + 1
      /\ result \in {"none", "success", "failure"}
  BY DEF TypeOK, CallsFit
<1>a. Follow(tasks) /\ tasks \in [Index -> TaskState] /\ Length \in Nat
  BY Typed DEF StepsFit
<1>1. CASE UNCHANGED ctl
  <2>1. UNCHANGED <<state, call, index, fresh, tasks, result>>  BY <1>1 DEF ctl
  <2>2. CallsFit'  BY <2>1 DEF CallsFit
  <2>3. StepsFit'  BY <2>1 DEF StepsFit, Follow
  <2>4. FreshFits'  BY <2>1, <1>0 DEF FreshFits
  <2>5. QED  BY <1>0, <1>1, <2>1, <2>2, <2>3, <2>4
<1>2. CASE \E s, c :
              /\ GoTo(s, c)
              /\ \/ state = "get-job-config" /\ s = "create-workspace" /\ c = "send"
                 \/ state = "get-job-config" /\ s = "get-job-config" /\ c = "put"
                 \/ state = "create-workspace" /\ s = "create-workspace" /\ c = "send"
                 \/ state = "complete" /\ s = "complete" /\ c = "rmworkspace"
                 \/ state = "complete" /\ s = "complete" /\ c = "rmtasks"
  <2>1. PICK s, c :
              /\ GoTo(s, c)
              /\ \/ state = "get-job-config" /\ s = "create-workspace" /\ c = "send"
                 \/ state = "get-job-config" /\ s = "get-job-config" /\ c = "put"
                 \/ state = "create-workspace" /\ s = "create-workspace" /\ c = "send"
                 \/ state = "complete" /\ s = "complete" /\ c = "rmworkspace"
                 \/ state = "complete" /\ s = "complete" /\ c = "rmtasks"
    BY <1>2
  <2>2. UNCHANGED <<index, fresh, tasks, result>> /\ state' = s /\ call' = c  BY <2>1 DEF GoTo
  <2>3. CallsFit'  BY <1>0, <2>1, <2>2 DEF CallsFit
  <2>4. Follow(tasks)'  BY <1>a, <2>2 DEF Follow
  <2>5. StepsFit'  BY <1>0, <2>1, <2>2, <2>4 DEF StepsFit
  <2>6. FreshFits'  BY <2>2, <1>0 DEF FreshFits
  <2>7. QED  BY <1>0, <2>1, <2>2, <2>3, <2>5, <2>6
<1>3. CASE /\ result = "none"
           /\ \/ state = "create-workspace"
              \/ state = "running"
           /\ \E i \in 1 .. Length + 1 :
                 Arrive(i, tasks) /\ \A j \in Index : j < i => tasks[j].status = "success"
  <2>1. PICK i \in 1 .. Length + 1 :
                 Arrive(i, tasks) /\ \A j \in Index : j < i => tasks[j].status = "success"
    BY <1>3
  <2>2. /\ CallsFit' /\ StepsFit' /\ FreshFits'
        /\ state' \in {"running", "complete"}
        /\ call' \in {"create", "poll", "keep", "rmworkspace"}
        /\ index' \in 1 .. Length + 1
        /\ result' \in {"none", "success", "failure"}
        /\ tasks' = tasks
        /\ fresh' = NoTask
    BY <1>3, <1>a, <2>1, ArriveFits
  <2>3. QED  BY <1>0, <1>3, <2>2
<1>4. NextPass => \E i \in 1 .. Length + 1 :
                 Arrive(i, tasks) /\ \A j \in Index : j < i => tasks[j].status = "success"
  <2>1. 1 \in 1 .. Length + 1 /\ \A j \in Index : ~(j < 1)  BY <1>a DEF Index
  <2>2. QED  BY <2>1 DEF NextPass
<1>5. CASE AfterPut
  <2>1. CASE state = "get-job-config" /\ GoTo("create-workspace", "send")
    BY <2>1, <1>2
  <2>2. CASE state = "create-workspace" /\ NextPass
    BY <2>2, <1>0, <1>3, <1>4
  <2>3. CASE state = "running" /\ call = "put" /\ AfterPoll
    <3>1. index \in 1 .. Length + 1 /\ \A j \in Index : j < index => tasks[j].status = "success"
      BY <1>0, <2>3 DEF StepsFit
    <3>2. NextPass \/ Arrive(index, tasks)  BY <2>3 DEF AfterPoll
    <3>3. QED  BY <1>0, <1>3, <1>4, <2>3, <3>1, <3>2
  <2>4. CASE state = "running" /\ call = "keep" /\ Arrive(index + 1, tasks)
    <3>1. index \in Index /\ tasks[index].status = "success"
          /\ \A j \in Index : j < index => tasks[j].status = "success"
      BY <2>4 DEF StepsFit
    <3>2. index + 1 \in 1 .. Length + 1  BY <1>a, <3>1 DEF Index
    <3>3. \A j \in Index : j < index + 1 => j < index \/ j = index  BY <1>a, <3>1 DEF Index
    <3>4. \A j \in Index : j < index + 1 => tasks[j].status = "success"  BY <3>1, <3>3
    <3>5. QED  BY <1>0, <1>3, <2>4, <3>2, <3>4
  <2>5. CASE state = "complete" /\ GoTo(state, "rmtasks")
    BY <2>5, <1>2
  <2>6. QED  BY <1>5, <2>1, <2>2, <2>3, <2>4, <2>5 DEF AfterPut
<1>6. CASE AfterFailedPut
  <2>1. CASE state = "get-job-config" /\ GoTo(state, "put")
    BY <2>1, <1>2
  <2>2. CASE state = "create-workspace" /\ GoTo(state, "send")
    BY <2>2, <1>2
  <2>3. CASE state = "running" /\ NextPass
    BY <2>3, <1>0, <1>3, <1>4
  <2>4. CASE state = "complete" /\ GoTo(state, "rmworkspace")
    BY <2>4, <1>2
  <2>5. QED  BY <1>6, <2>1, <2>2, <2>3, <2>4 DEF AfterFailedPut
<1>7. QED  BY <1>1, <1>5, <1>6

\* Only an answered PUT lets the report go on to the tickets.
LEMMA FailedPutMoves ==
    ASSUME IndInv, call \in {"put", "keep"}, AfterFailedPut \/ UNCHANGED ctl
    PROVE  call' # "rmtasks"
<1>1. CASE UNCHANGED ctl  BY <1>1 DEF ctl
<1>2. CASE state = "running" /\ NextPass
  <2>1. result = "none"  BY <1>2 DEF IndInv, CallsFit
  <2>2. QED  BY <1>2, <2>1, NextPassFits
<1>3. CASE AfterFailedPut /\ ~(state = "running" /\ NextPass)
  BY <1>3 DEF AfterFailedPut, GoTo
<1>4. QED  BY <1>1, <1>2, <1>3

\* The state file is written at most with what the controller knows, now or
\* later, and the report goes on only after it was.
LEMMA UpdateBuildStateStep ==
    ASSUME IndInv, UpdateBuildState
    PROVE  IndInv'
<1> USE DEF IndInv
<1>1. /\ call \in {"put", "keep"}
      /\ UNCHANGED <<board, there, workspace, mainTicket, configured, known, outcome, abandoned, reruns, downstream>>
      /\ \/ there /\ record' = BuildState /\ Answered /\ AfterPut
         \/ /\ \/ UNCHANGED record
               \/ there /\ record' = BuildState
            /\ \/ UNCHANGED <<late, relapses, losses, kept>>
               \/ Unanswered
               \/ /\ losses < MaxLosses
                  /\ losses' = losses + 1
                  /\ late' = late \cup {BuildState}
                  /\ UNCHANGED <<relapses, kept>>
            /\ UNCHANGED ctl \/ AfterFailedPut
  BY DEF UpdateBuildState, GivesUpPut, history, faults
<1>2. UNCHANGED <<board, there, workspace, mainTicket, configured, known, outcome, abandoned, reruns, downstream>>
  BY <1>1
<1>3. /\ UNCHANGED <<relapses, kept>>
      /\ record' = record \/ (there /\ record' = BuildState)
      /\ \/ UNCHANGED <<late, losses>>
         \/ losses < MaxLosses /\ losses' = losses + 1 /\ UNCHANGED late
         \/ losses < MaxLosses /\ losses' = losses + 1 /\ late' = late \cup {BuildState}
      /\ \/ there /\ record' = BuildState /\ AfterPut
         \/ UNCHANGED ctl \/ AfterFailedPut
  BY <1>1 DEF Answered, Unanswered, faults
<1>4. AfterPut \/ AfterFailedPut \/ UNCHANGED ctl  BY <1>3
<1>5. call \in {"put", "keep"}  BY <1>1
<1>6. /\ CallsFit' /\ StepsFit' /\ FreshFits'
      /\ state' \in {"get-job-config", "create-workspace", "running", "complete"}
      /\ call' \in {"config", "put", "send", "create", "poll", "keep",
                    "rmworkspace", "rmtasks"}
      /\ index' \in 1 .. Length + 1
      /\ result' \in {"none", "success", "failure"}
      /\ tasks' = tasks
      /\ fresh' = NoTask
      /\ result # "none" => result' = result
      /\ state = "complete" <=> result # "none"
      /\ state' \in {"create-workspace", "running"} =>
            \/ state' = "create-workspace" /\ call' = "send"
            \/ state \in {"create-workspace", "running"} /\ UNCHANGED ctl
            \/ state = "create-workspace" /\ call = "put"
            \/ state = "running"
      /\ call' = "rmtasks" => result # "none"
  BY <1>4, <1>5, PutMoves
<1>7. call' = "rmtasks" => there /\ record' = BuildState  BY <1>3, <1>5, FailedPutMoves
<1> HIDE <1>1
<1> USE <1>2
<1>8. losses' \in 0 .. MaxLosses  BY <1>3, Typed
<1>9. late' \in SUBSET Run!Record /\ record' \in Run!Record
  BY <1>3, BuildStateTyped DEF TypeOK
<1>10. TypeOK'  BY <1>3, <1>6, <1>8, <1>9, Typed DEF TypeOK
<1>11. BoardFits'  BY DEF BoardFits, Live, Status
<1>12. TasksFit'
  <2>1. result' = "none" => result = "none"  BY <1>6
  <2>2. QED  BY <1>6, <2>1 DEF TasksFit, Live, Status
<1>13. fresh = NoTask  BY <1>5 DEF CallsFit
<1>14. Strays' = Strays  BY <1>6, <1>13 DEF Strays, Live
<1>15. WorkspaceFits'
  <2>1. state' = "running" \/ (state' = "create-workspace" /\ call' = "put") => workspace \/ ~there
    BY <1>6 DEF WorkspaceFits, ctl
  <2>2. QED  BY <1>6, <1>13, <2>1 DEF WorkspaceFits, Live, Status
<1>16. Run!Later(BuildState, BuildState')  BY <1>6, BuildStateMoves
<1>17. RecordsFit'
  <2>1. late' \cup {record'} \subseteq late \cup {record, BuildState}  BY <1>3
  <2>2. QED  BY <1>16, <2>1, RecordsStay
<1>18. EndFits'
  <2>1. mainTicket = "gone" \/ downstream > 0 => result # "none" /\ Recorded  BY DEF EndFits
  <2>2. result # "none" /\ record' = BuildState => Recorded'
    BY <1>6, BuildStateSays DEF Recorded
  <2>3. result # "none" /\ record' = record /\ Recorded => Recorded'
    BY <1>3, <1>6 DEF Recorded
  <2>4. call' \notin {"trigger"} /\ state' # "reported" /\ call # "trigger"  BY <1>5, <1>6
  <2>5. call' = "rmtasks" \/ mainTicket' = "gone" \/ downstream' > 0 => Recorded'
    BY <1>3, <1>6, <1>7, <2>1, <2>2, <2>3
  <2>6. downstream' > 0 => result' = "success" /\ (mainTicket' = "gone" \/ kept' > 0)
    BY <1>3, <1>6 DEF EndFits
  <2>7. mainTicket' = "gone" => result' # "none"  BY <1>6, <2>1
  <2>8. QED  BY <2>4, <2>5, <2>6, <2>7 DEF EndFits
<1>19. LossesCount'
  <2>1. CASE UNCHANGED <<late, losses>>  BY <1>3, <1>14, <2>1, CountStays
  <2>2. CASE losses' = losses + 1 /\ UNCHANGED late  BY <1>3, <1>14, <2>2, CountStays
  <2>3. CASE losses' = losses + 1 /\ late' = late \cup {BuildState}
    BY <1>3, <1>14, <2>3, CountLate
  <2>4. QED  BY <1>3, <2>1, <2>2, <2>3
<1>20. QED  BY <1>6, <1>10, <1>11, <1>12, <1>15, <1>17, <1>18, <1>19

\* A PUT served late puts an older state back, which is a true one.
LEMMA ServeLateStep ==
    ASSUME IndInv, ServeLate
    PROVE  IndInv'
<1> USE DEF IndInv
<1>1. PICK r \in late :
          /\ late' = late \ {r}
          /\ IF there THEN record' = r /\ relapses' = relapses + 1
                      ELSE UNCHANGED <<record, relapses>>
  BY DEF ServeLate
<1>2. UNCHANGED <<board, there, workspace, mainTicket, state, call, index, fresh, tasks, result,
                  configured, known, outcome, abandoned, reruns, downstream, losses, kept>>
  BY DEF ServeLate, ctl, history
<1> USE <1>2
<1>3. /\ IsFiniteSet(late) /\ Cardinality(late) + relapses <= losses
      /\ IsFiniteSet(Strays) /\ Cardinality(Strays) <= losses + kept
  BY DEF LossesCount
<1>4. /\ IsFiniteSet(late') /\ Cardinality(late') \in Nat /\ Cardinality(late) \in Nat
      /\ Cardinality(late') = Cardinality(late) - 1
  BY <1>1, <1>3, OneLess
<1>5. relapses' = relapses \/ relapses' = relapses + 1  BY <1>1
<1>6. Cardinality(late') + relapses' <= losses  BY <1>3, <1>4, <1>5, Typed
<1>7. relapses' \in 0 .. MaxLosses  BY <1>4, <1>5, <1>6, Typed
<1>8. late' \in SUBSET Run!Record /\ record' \in Run!Record
  BY <1>1 DEF TypeOK
<1>9. TypeOK'  BY <1>7, <1>8 DEF TypeOK
<1>10. BoardFits' /\ TasksFit' /\ FreshFits' /\ Strays' = Strays
      /\ Run!Later(BuildState, BuildState') /\ Follow(tasks)'
  BY SameTasks
<1>11. CallsFit'  BY DEF CallsFit
<1>12. StepsFit'  BY <1>10 DEF StepsFit
<1>13. WorkspaceFits'  BY DEF WorkspaceFits, Live, Status
<1>14. late' \cup {record'} \subseteq late \cup {record, BuildState}  BY <1>1
<1>15. RecordsFit'  BY <1>10, <1>14, RecordsStay
<1>16. Recorded => Recorded'
  <2>1. relapses + 1 > 0 /\ (relapses > 0 => relapses' > 0)  BY <1>5, Typed
  <2>2. QED  BY <1>1, <2>1 DEF Recorded
<1>17. EndFits'  BY <1>16 DEF EndFits
<1>18. LossesCount'  BY <1>3, <1>4, <1>6, <1>10 DEF LossesCount
<1>19. QED  BY <1>9, <1>10, <1>11, <1>12, <1>13, <1>15, <1>17, <1>18

-----------------------------------------------------------------------------
(* The board *)

\* A live ticket says which step it is for and how that step stands.
LEMMA LiveTicket ==
    ASSUME IndInv, NEW t \in Task, Live(t)
    PROVE  /\ board[t].body \in SubtaskBody
           /\ board[t].body.step \in 0 .. Length
           /\ Status(t) \in {"preparing", "pending", "running", "success", "failure"}
           /\ Status(t) # "preparing" => board[t].body.step \in Index
<1>1. board[t].body \in SubtaskBody  BY DEF IndInv, BoardFits
<1>2. board[t].body.step \in 0 .. Length
      /\ board[t].body.status \in {"preparing", "pending", "running", "success", "failure"}
  BY <1>1 DEF SubtaskBody
<1>3. QED  BY <1>1, <1>2 DEF Status, IndInv, BoardFits

\* What the controller writes into a ticket.
LEMMA SubtaskTyped ==
    ASSUME NEW i \in 0 .. Length,
           NEW s \in {"preparing", "pending", "running", "success", "failure"}
    PROVE  /\ Subtask(i, s) \in Desc
           /\ Subtask(i, s).body \in SubtaskBody
           /\ Subtask(i, s).body.step = i
           /\ Subtask(i, s).body.status = s
<1>1. [step |-> i, status |-> s] \in SubtaskBody  BY DEF SubtaskBody
<1>2. [step |-> i, status |-> s] \in Body  BY <1>1, ControlConstants
<1>3. QED  BY <1>1, <1>2 DEF Subtask, Desc

\* Rewriting a ticket changes no other, and takes none off the board.
LEMMA ReplaceDoes ==
    ASSUME TypeOK, NEW t \in Task, NEW d \in Desc, Replace(t, d)
    PROVE  /\ Live(t)
           /\ board' \in [Task -> Place]
           /\ board'[t] = d
           /\ Live(t)'
           /\ \A u \in Task : u # t => board'[u] = board[u]
           /\ \A u \in Task : board'[u] \in Desc <=> board[u] \in Desc
           /\ \A u \in Task : board[u] # Unborn => board'[u] # Unborn
<1>1. board \in [Task -> Place]  BY DEF TypeOK
<1>2. Live(t) /\ board' = [board EXCEPT ![t] = d]  BY DEF Replace
<1>3. board'[t] = d /\ \A u \in Task : u # t => board'[u] = board[u]  BY <1>1, <1>2
<1>4. board' \in [Task -> Place]  BY <1>1, <1>2 DEF Place
<1>5. \A u \in Task : board'[u] \in Desc <=> board[u] \in Desc  BY <1>2, <1>3 DEF Live
<1>6. \A u \in Task : board[u] # Unborn => board'[u] # Unborn
  BY <1>2, <1>3, MarkersDiffer DEF Live
<1>7. QED  BY <1>2, <1>3, <1>4, <1>5, <1>6 DEF Live

\* A new ticket is one nobody knew.
LEMMA NewTicketDoes ==
    ASSUME TypeOK, NewTicket
    PROVE  \E t \in Task :
              /\ t = CHOOSE u \in Task : board[u] = Unborn
              /\ board[t] = Unborn /\ ~Live(t)
              /\ board' \in [Task -> Place]
              /\ board'[t] = Subtask(0, "preparing")
              /\ board'[t] \in Desc
              /\ \A u \in Task : u # t => board'[u] = board[u]
<1> DEFINE t == CHOOSE u \in Task : board[u] = Unborn
<1>1. board \in [Task -> Place]  BY DEF TypeOK
<1>2. t \in Task /\ board[t] = Unborn  BY DEF NewTicket
<1>3. board' = [board EXCEPT ![t] = Subtask(0, "preparing")]  BY DEF NewTicket, Post
<1>4. 0 \in 0 .. Length  BY ControlConstants
<1>5. Subtask(0, "preparing") \in Desc  BY <1>4, SubtaskTyped
<1>6. ~Live(t)  BY <1>2, MarkersDiffer DEF Live
<1> HIDE DEF t
<1>7. /\ board' \in [Task -> Place] /\ board'[t] = Subtask(0, "preparing")
      /\ \A u \in Task : u # t => board'[u] = board[u]
  BY <1>1, <1>2, <1>3, <1>5 DEF Place
<1>8. board'[t] \in Desc  BY <1>5, <1>7
<1>9. QED  BY <1>2, <1>6, <1>7, <1>8 DEF t

\* A ticket that is taken off the board is gone, and no other.
LEMMA WithdrawDoes ==
    ASSUME TypeOK, NEW t \in Task, Withdraw(t)
    PROVE  /\ Live(t)
           /\ board' \in [Task -> Place]
           /\ board'[t] = Deleted
           /\ ~Live(t)'
           /\ \A u \in Task : u # t => board'[u] = board[u]
           /\ \A u \in Task : board[u] # Unborn => board'[u] # Unborn
<1>1. board \in [Task -> Place]  BY DEF TypeOK
<1>2. Live(t) /\ board' = [board EXCEPT ![t] = Deleted]  BY DEF Withdraw
<1>3. board'[t] = Deleted /\ \A u \in Task : u # t => board'[u] = board[u]  BY <1>1, <1>2
<1>4. board' \in [Task -> Place]  BY <1>1, <1>2 DEF Place
<1>5. ~Live(t)'  BY <1>3, MarkersDiffer DEF Live
<1>6. QED  BY <1>2, <1>3, <1>4, <1>5, MarkersDiffer

\* A ticket the controller remembers is one of its own steps'.
LEMMA TicketOf ==
    ASSUME IndInv, NEW i \in Index, tasks[i].id # NoTask
    PROVE  /\ tasks[i].id \in Task
           /\ tasks[i].status # "none"
           /\ board[tasks[i].id] # Unborn
           /\ Live(tasks[i].id) =>
                 /\ board[tasks[i].id].body.step = i
                 /\ Status(tasks[i].id) # "preparing"
                 /\ tasks[i].status # "pending" => Status(tasks[i].id) # "pending"
BY Typed DEF IndInv, TasksFit

\* The controller has work to do only while the build has no result, and then
\* every step it began has its ticket.
LEMMA AtWork ==
    ASSUME IndInv, call \in {"create", "fill", "poll"}
    PROVE  /\ state = "running" /\ result = "none"
           /\ index \in Index
           /\ workspace \/ ~there
           /\ \A i \in Index : i < index => tasks[i].status = "success"
           /\ call \in {"create", "fill"} => tasks[index].status = "none"
           /\ call = "poll" => tasks[index].status \in {"pending", "running"}
           /\ call # "fill" => fresh = NoTask
           /\ mainTicket # "gone" /\ ~(downstream > 0)
<1>1. state = "running"  BY DEF IndInv, TypeOK, CallsFit
<1>2. result = "none" /\ (call # "fill" => fresh = NoTask)  BY <1>1 DEF IndInv, CallsFit
<1>3. mainTicket # "gone" /\ ~(downstream > 0)  BY <1>2 DEF IndInv, EndFits
<1>4. QED  BY <1>1, <1>2, <1>3 DEF IndInv, StepsFit, WorkspaceFits

\* A step may begin once the ones before it succeeded.
LEMMA MayBegin ==
    ASSUME IndInv, call \in {"create", "fill"}
    PROVE  \A i \in 1 .. index - 1 : "success" \in outcome[i]
<1>1. /\ index \in Index
      /\ \A i \in Index : i < index => tasks[i].status = "success"
  BY AtWork
<1>2. \A i \in 1 .. index - 1 : i \in Index /\ i < index  BY <1>1, Typed DEF IndInv, Index
<1>3. QED  BY <1>1, <1>2 DEF IndInv, TasksFit, Run!Final

-----------------------------------------------------------------------------
(* check_status_and_issue_tasks *)

\* The KeyError of an unknown type ends the controller and touches nothing.
LEMMA SpawnUnknownStep ==
    ASSUME IndInv, SpawnUnknown \/ CrashController
    PROVE  IndInv'
<1> USE DEF IndInv
<1>1. state' = "dead" /\ call' = "none"
  BY DEF SpawnUnknown, CrashController, GoTo
<1>2. UNCHANGED <<board, there, record, workspace, mainTicket, index, fresh, tasks, result, configured, known,
                  outcome, abandoned, reruns, downstream, late, relapses, losses, kept>>
  BY DEF SpawnUnknown, CrashController, GoTo, storage, history, faults
<1> USE <1>2
<1>3. TypeOK'  BY <1>1 DEF TypeOK
<1>4. BoardFits' /\ TasksFit' /\ FreshFits' /\ Strays' = Strays
      /\ Run!Later(BuildState, BuildState') /\ Follow(tasks)'
  BY SameTasks
<1>5. CallsFit'  BY <1>1 DEF CallsFit
<1>6. StepsFit'  BY <1>1, <1>4 DEF StepsFit
<1>7. WorkspaceFits'  BY <1>1 DEF WorkspaceFits, Live, Status
<1>8. RecordsFit'  BY <1>4, RecordsStay
<1>9. EndFits'  BY <1>1 DEF EndFits, Recorded
<1>10. LossesCount'  BY <1>4, CountStays
<1>11. QED  BY <1>3, <1>4, <1>5, <1>6, <1>7, <1>8, <1>9, <1>10

\* A ticket that was just made is about no step yet.
LEMMA NewTicketFits ==
    ASSUME IndInv, UNCHANGED board \/ NewTicket, UNCHANGED <<outcome, tasks>>, result = "none"
    PROVE  BoardFits' /\ TasksFit'
<1> USE DEF IndInv
<1>1. CASE UNCHANGED board
  BY <1>1 DEF BoardFits, TasksFit, Live, Status
<1>2. CASE NewTicket
  <2>1. PICK t \in Task :
            /\ board[t] = Unborn /\ ~Live(t)
            /\ board'[t] = Subtask(0, "preparing")
            /\ \A u \in Task : u # t => board'[u] = board[u]
    BY <1>2, NewTicketDoes
  <2>2. Length \in Nat /\ 0 \in 0 .. Length /\ 1 .. 0 - 1 = {}  BY ControlConstants
  <2>3. /\ board'[t].body \in SubtaskBody
        /\ board'[t].body.step = 0
        /\ board'[t].body.status = "preparing"
    BY <2>1, <2>2, SubtaskTyped
  <2>4. BoardFits'
    <3>1. ASSUME NEW u \in Task, Live(u)'
          PROVE  /\ board'[u].body \in SubtaskBody
                 /\ Status(u)' # "preparing" => board'[u].body.step \in Index
                 /\ Status(u)' \in Run!Final => Status(u)' \in outcome[board'[u].body.step]
                 /\ \A i \in 1 .. board'[u].body.step - 1 : "success" \in outcome[i]
      <4>1. CASE u = t  BY <2>2, <2>3, <4>1 DEF Status, Run!Final
      <4>2. CASE u # t  BY <2>1, <3>1, <4>2 DEF BoardFits, Live, Status
      <4>3. QED  BY <4>1, <4>2
    <3>2. QED  BY <3>1 DEF BoardFits
  <2>5. TasksFit'
    <3>1. ASSUME NEW i \in Index, tasks[i].id # NoTask
          PROVE  board'[tasks[i].id] = board[tasks[i].id]
      BY <2>1, <3>1, TicketOf
    <3>2. QED  BY <3>1 DEF TasksFit, Live, Status
  <2>6. QED  BY <2>4, <2>5
<1>3. QED  BY <1>1, <1>2

\* A ticket is posted, and the controller learns of it or not.
LEMMA CreateTaskStep ==
    ASSUME IndInv, CreateTask
    PROVE  IndInv'
<1> USE DEF IndInv
<1>1. call = "create"  BY DEF CreateTask
<1>2. UNCHANGED <<there, record, workspace, mainTicket, configured, known, outcome, abandoned, reruns, downstream,
                  late, relapses, kept>>
  BY DEF CreateTask, Answered, Unanswered, storage, history, faults
<1>3. \/ /\ NewTicket
         /\ fresh' = CHOOSE t \in Task : board[t] = Unborn
         /\ call' = "fill"
         /\ UNCHANGED <<losses, state, index, tasks, result>>
      \/ /\ losses < MaxLosses /\ losses' = losses + 1
         /\ UNCHANGED board \/ NewTicket
         /\ UNCHANGED <<state, call, index, fresh, tasks, result>> \/ NextPass
  BY DEF CreateTask, Answered, Unanswered, ctl, faults
<1> USE <1>2
<1>4. /\ state = "running" /\ result = "none"
      /\ index \in Index
      /\ workspace \/ ~there
      /\ \A i \in Index : i < index => tasks[i].status = "success"
      /\ tasks[index].status = "none"
      /\ fresh = NoTask
      /\ mainTicket # "gone" /\ ~(downstream > 0)
  BY <1>1, AtWork
<1>5. UNCHANGED board \/ NewTicket  BY <1>3
<1>6. tasks' = tasks  BY <1>3, <1>4, NextPassFits
<1>7. BoardFits' /\ TasksFit'  BY <1>4, <1>5, <1>6, NewTicketFits
<1>8. board' \in [Task -> Place] /\ losses' \in 0 .. MaxLosses
  BY <1>3, <1>5, NewTicketDoes, Typed
<1>9. WorkspaceFits'  BY <1>4 DEF WorkspaceFits
<1>10. RecordsFit'
  <2>1. Run!Later(BuildState, BuildState')  BY <1>4, <1>6, BuildStateMoves
  <2>2. QED  BY <2>1, RecordsStay
<1>11. CASE /\ NewTicket
            /\ fresh' = CHOOSE t \in Task : board[t] = Unborn
            /\ call' = "fill"
            /\ UNCHANGED <<losses, state, index, tasks, result>>
  <2>1. PICK t \in Task :
            /\ t = CHOOSE u \in Task : board[u] = Unborn
            /\ board[t] = Unborn /\ ~Live(t)
            /\ board'[t] \in Desc
            /\ \A u \in Task : u # t => board'[u] = board[u]
    BY <1>11, NewTicketDoes, Zenon DEF Live
  <2>2. fresh' = t  BY <1>11, <2>1
  <2>3. fresh' # NoTask  BY <2>2, Typed
  <2>4. TypeOK'  BY <1>8, <1>11, <2>2 DEF TypeOK
  <2>5. CallsFit'  BY <1>4, <1>11, <2>3 DEF CallsFit
  <2>6. Follow(tasks)'  BY <1>6 DEF StepsFit, Follow
  <2>7. StepsFit'  BY <1>4, <1>11, <2>6 DEF StepsFit
  <2>8. \A i \in Index : tasks[i].id # t  BY <2>1, Typed, TicketOf
  <2>9. FreshFits'  BY <1>6, <2>1, <2>2, <2>8 DEF FreshFits, Live
  <2>10. EndFits'  BY <1>4, <1>11 DEF EndFits
  <2>11. Strays' \subseteq Strays
    BY <1>4, <1>6, <2>1, <2>2, Typed DEF Strays, Live
  <2>12. LossesCount'  BY <1>11, <2>11, CountStays
  <2>13. QED  BY <1>7, <1>9, <1>10, <2>4, <2>5, <2>7, <2>9, <2>10, <2>12
<1>12. CASE /\ losses' = losses + 1
            /\ UNCHANGED <<state, call, index, fresh, tasks, result>> \/ NextPass
  <2>1. /\ CallsFit' /\ StepsFit' /\ FreshFits'
        /\ state' \in {"running", "complete"}
        /\ call' \in {"create", "poll", "keep", "rmworkspace"}
        /\ index' \in 1 .. Length + 1
        /\ result' \in {"none", "success", "failure"}
        /\ fresh' = NoTask
    <3>1. CASE UNCHANGED <<state, call, index, fresh, tasks, result>>
      <4>1. CallsFit'  BY <3>1 DEF CallsFit
      <4>2. StepsFit'  BY <3>1 DEF StepsFit, Follow
      <4>3. FreshFits'  BY <1>4, <3>1 DEF FreshFits
      <4>4. QED  BY <1>1, <1>4, <3>1, <4>1, <4>2, <4>3 DEF TypeOK
    <3>2. CASE NextPass  BY <1>4, <3>2, NextPassFits
    <3>3. QED  BY <1>12, <3>1, <3>2
  <2>2. TypeOK'  BY <1>6, <1>8, <2>1 DEF TypeOK
  <2>3. EndFits'  BY <1>4, <2>1 DEF EndFits
  <2>4. \E t : Strays' \subseteq Strays \cup {t}
    <3>1. CASE UNCHANGED board
      <4>1. Strays' \subseteq Strays  BY <1>4, <1>6, <3>1, Typed DEF Strays, Live
      <4>2. QED  BY <4>1
    <3>2. CASE NewTicket
      <4>1. PICK t \in Task : \A u \in Task : u # t => board'[u] = board[u]
        BY <3>2, NewTicketDoes
      <4>2. Strays' \subseteq Strays \cup {t}
        BY <1>4, <1>6, <4>1, Typed DEF Strays, Live
      <4>3. QED  BY <4>2
    <3>3. QED  BY <1>5, <3>1, <3>2
  <2>5. LossesCount'  BY <1>12, <2>4, CountStray
  <2>6. QED  BY <1>7, <1>9, <1>10, <2>1, <2>2, <2>3, <2>5
<1>13. QED  BY <1>3, <1>11, <1>12

\* A ticket that is filled in is offered for a step whose turn it is.
LEMMA FilledFits ==
    ASSUME IndInv, call = "fill", Replace(fresh, Subtask(index, "pending")),
           UNCHANGED outcome
    PROVE  /\ BoardFits'
           /\ board' \in [Task -> Place]
           /\ fresh \in Task
           /\ board'[fresh] \in Desc
           /\ board'[fresh].body.step = index
           /\ board'[fresh].body.status = "pending"
           /\ \A u \in Task : u # fresh => board'[u] = board[u]
           /\ \A u \in Task : board'[u] \in Desc <=> board[u] \in Desc
           /\ \A u \in Task : board[u] # Unborn => board'[u] # Unborn
           /\ \A i \in Index : tasks[i].id # fresh
<1> USE DEF IndInv
<1>1. fresh \in Task /\ index \in Index /\ index \in 0 .. Length
  BY AtWork, Typed DEF CallsFit, Index
<1>2. /\ Subtask(index, "pending") \in Desc
      /\ Subtask(index, "pending").body \in SubtaskBody
      /\ Subtask(index, "pending").body.step = index
      /\ Subtask(index, "pending").body.status = "pending"
  BY <1>1, SubtaskTyped
<1>3. /\ board' \in [Task -> Place]
      /\ board'[fresh] = Subtask(index, "pending")
      /\ \A u \in Task : u # fresh => board'[u] = board[u]
      /\ \A u \in Task : board'[u] \in Desc <=> board[u] \in Desc
      /\ \A u \in Task : board[u] # Unborn => board'[u] # Unborn
  BY <1>1, <1>2, ReplaceDoes
<1>4. \A i \in Index : tasks[i].id # fresh  BY DEF FreshFits, CallsFit
<1>5. \A i \in 1 .. index - 1 : "success" \in outcome[i]  BY MayBegin
<1>6. ASSUME NEW u \in Task, Live(u)'
      PROVE  /\ board'[u].body \in SubtaskBody
             /\ Status(u)' # "preparing" => board'[u].body.step \in Index
             /\ Status(u)' \in Run!Final => Status(u)' \in outcome[board'[u].body.step]
             /\ \A i \in 1 .. board'[u].body.step - 1 : "success" \in outcome[i]
  <2>1. CASE u = fresh  BY <1>1, <1>2, <1>3, <1>5, <2>1 DEF Status, Run!Final
  <2>2. CASE u # fresh  BY <1>3, <1>6, <2>2 DEF BoardFits, Live, Status
  <2>3. QED  BY <2>1, <2>2
<1>7. BoardFits'  BY <1>6 DEF BoardFits
<1>8. QED  BY <1>1, <1>2, <1>3, <1>4, <1>7

\* The answered PUT of a ticket makes it the ticket of its step.
LEMMA FilledStep ==
    ASSUME IndInv, call = "fill", Replace(fresh, Subtask(index, "pending")),
           Arrive(index, [tasks EXCEPT ![index] = [id |-> fresh, status |-> "pending"]]),
           UNCHANGED <<there, record, workspace, mainTicket, configured, known, outcome, abandoned, reruns, downstream,
                       late, relapses, losses, kept>>
    PROVE  IndInv'
<1> DEFINE now == [tasks EXCEPT ![index] = [id |-> fresh, status |-> "pending"]]
<1> USE DEF IndInv
<1>1. /\ state = "running" /\ result = "none"
      /\ index \in Index
      /\ workspace \/ ~there
      /\ \A i \in Index : i < index => tasks[i].status = "success"
      /\ tasks[index].status = "none"
      /\ mainTicket # "gone" /\ ~(downstream > 0)
  BY AtWork
<1>2. /\ BoardFits'
      /\ board' \in [Task -> Place]
      /\ fresh \in Task
      /\ board'[fresh] \in Desc
      /\ board'[fresh].body.step = index
      /\ board'[fresh].body.status = "pending"
      /\ \A u \in Task : u # fresh => board'[u] = board[u]
      /\ \A u \in Task : board'[u] \in Desc <=> board[u] \in Desc
      /\ \A u \in Task : board[u] # Unborn => board'[u] # Unborn
      /\ \A i \in Index : tasks[i].id # fresh
  BY FilledFits
<1>3. tasks[index].id = NoTask  BY <1>1, TicketOf
<1>4. /\ now[index] = [id |-> fresh, status |-> "pending"]
      /\ \A i \in Index : i # index => now[i] = tasks[i]
  BY <1>1, Typed
<1>5. now \in [Index -> TaskState]
  <2>1. [id |-> fresh, status |-> "pending"] \in TaskState  BY <1>2 DEF TaskState, Run!StepStatus
  <2>2. QED  BY <2>1, Typed
<1>6. Arrive(index, now)  OBVIOUS
<1> HIDE DEF now
<1>7. now[index].id = fresh /\ now[index].status = "pending"  BY <1>4
<1>8. Follow(now)
  <2>1. Follow(tasks)  BY DEF StepsFit
  <2>2. SUFFICES ASSUME NEW i \in Index, NEW j \in Index, i < j, now[j].status # "none"
                 PROVE  now[i].status = "success"
    BY DEF Follow
  <2>3. CASE j = index  BY <1>1, <1>4, <2>2, <2>3
  <2>4. CASE j # index /\ i = index
    <3>1. tasks[j].status # "none"  BY <1>4, <2>2, <2>4
    <3>2. tasks[index].status = "success"  BY <1>1, <2>1, <2>2, <2>4, <3>1 DEF Follow
    <3>3. QED  BY <1>1, <3>2
  <2>5. CASE j # index /\ i # index  BY <1>4, <2>1, <2>2, <2>5 DEF Follow
  <2>6. QED  BY <2>3, <2>4, <2>5
<1>9. \A j \in Index : j < index => now[j].status = "success"
  BY <1>1, <1>4, Typed DEF Index
<1>10. index \in 1 .. Length + 1  BY DEF TypeOK
<1>11. /\ CallsFit' /\ StepsFit' /\ FreshFits'
       /\ state' \in {"running", "complete"}
       /\ call' \in {"create", "poll", "keep", "rmworkspace"}
       /\ index' \in 1 .. Length + 1
       /\ result' \in {"none", "success", "failure"}
       /\ tasks' = now
       /\ fresh' = NoTask
  BY <1>1, <1>5, <1>6, <1>8, <1>9, <1>10, ArriveFits
<1>12. TypeOK'
  <2>1. tasks' \in [Index -> TaskState]  BY <1>5, <1>11
  <2>2. QED  BY <1>2, <1>11, <2>1 DEF TypeOK, TaskState
<1>13. TasksFit'
  <2>1. SUFFICES ASSUME NEW i \in Index
                 PROVE  /\ now[i].id # NoTask =>
                              /\ now[i].status # "none"
                              /\ board'[now[i].id] # Unborn
                              /\ board'[now[i].id] \in Desc =>
                                    /\ board'[now[i].id].body.step = i
                                    /\ board'[now[i].id].body.status # "preparing"
                                    /\ now[i].status # "pending" =>
                                          board'[now[i].id].body.status # "pending"
                        /\ now[i].status # "none" =>
                              now[i].id # NoTask /\ board'[now[i].id] \in Desc
                        /\ now[i].status \in Run!Final => now[i].status \in outcome[i]
    BY <1>11 DEF TasksFit, Live, Status
  <2>2. CASE i = index
    BY <1>2, <1>7, <2>2, Typed, MarkersDiffer DEF Run!Final
  <2>3. CASE i # index
    <3>1. now[i] = tasks[i]  BY <1>4, <2>3
    <3>2. tasks[i].id # NoTask => board'[tasks[i].id] = board[tasks[i].id]
      BY <1>2, Typed
    <3>3. QED  BY <1>1, <3>1, <3>2 DEF TasksFit, Live, Status
  <2>4. QED  BY <2>2, <2>3
<1>14. WorkspaceFits'  BY <1>1 DEF WorkspaceFits
<1>15. RecordsFit'
  <2>1. \A i \in Index : tasks[i].status \in Run!Final => tasks'[i].status = tasks[i].status
    BY <1>1, <1>4, <1>11 DEF Run!Final
  <2>2. Run!Later(BuildState, BuildState')  BY <1>1, <2>1, BuildStateMoves
  <2>3. QED  BY <2>2, RecordsStay
<1>16. EndFits'  BY <1>1, <1>11 DEF EndFits
<1>17. Strays' \subseteq Strays
  <2>1. SUFFICES ASSUME NEW u \in Task, board'[u] \in Desc, \A i \in Index : now[i].id # u
                 PROVE  board[u] \in Desc /\ u # fresh /\ \A i \in Index : tasks[i].id # u
    BY <1>11 DEF Strays, Live
  <2>2. u # fresh  BY <1>1, <1>7, <2>1
  <2>3. ASSUME NEW i \in Index PROVE tasks[i].id # u
    <3>1. CASE i = index  BY <1>3, <3>1, Typed
    <3>2. CASE i # index  BY <1>4, <2>1, <3>2
    <3>3. QED  BY <3>1, <3>2
  <2>4. QED  BY <1>2, <2>1, <2>2, <2>3
<1>18. LossesCount'  BY <1>17, CountStays
<1>19. QED  BY <1>2, <1>11, <1>12, <1>13, <1>14, <1>15, <1>16, <1>18

\* A ticket is filled in, and the controller learns of it or not.
LEMMA FillTaskStep ==
    ASSUME IndInv, FillTask
    PROVE  IndInv'
<1> USE DEF IndInv
<1>1. call = "fill"  BY DEF FillTask
<1>2. UNCHANGED <<there, record, workspace, mainTicket, configured, known, outcome, abandoned, reruns, downstream,
                  late, relapses, kept>>
  BY DEF FillTask, Answered, Unanswered, storage, history, faults
<1>3. \/ /\ Replace(fresh, Subtask(index, "pending"))
         /\ Arrive(index, [tasks EXCEPT ![index] = [id |-> fresh, status |-> "pending"]])
         /\ UNCHANGED losses
      \/ /\ losses < MaxLosses /\ losses' = losses + 1
         /\ UNCHANGED board \/ Replace(fresh, Subtask(index, "pending"))
         /\ UNCHANGED <<state, call, index, fresh, tasks, result>> \/ NextPass
  BY DEF FillTask, Answered, Unanswered, ctl, faults
<1>4. CASE /\ Replace(fresh, Subtask(index, "pending"))
           /\ Arrive(index, [tasks EXCEPT ![index] = [id |-> fresh, status |-> "pending"]])
           /\ UNCHANGED losses
  BY <1>1, <1>2, <1>4, FilledStep
<1>5. CASE /\ losses < MaxLosses /\ losses' = losses + 1
           /\ UNCHANGED board \/ Replace(fresh, Subtask(index, "pending"))
           /\ UNCHANGED <<state, call, index, fresh, tasks, result>> \/ NextPass
  <2> USE <1>2
  <2>1. /\ state = "running" /\ result = "none"
        /\ index \in Index
        /\ workspace \/ ~there
        /\ mainTicket # "gone" /\ ~(downstream > 0)
    BY <1>1, AtWork
  <2>2. tasks' = tasks  BY <1>5, <2>1, NextPassFits
  <2>3. /\ BoardFits'
        /\ board' \in [Task -> Place]
        /\ \A u \in Task : u # fresh => board'[u] = board[u]
        /\ \A u \in Task : board'[u] \in Desc <=> board[u] \in Desc
        /\ \A i \in Index : tasks[i].id # fresh
        /\ fresh \in Task /\ board[fresh] \in Desc
    <3>1. CASE UNCHANGED board
      <4>1. BoardFits'  BY <3>1 DEF BoardFits, Live, Status
      <4>2. QED  BY <1>1, <3>1, <4>1, Typed DEF FreshFits, CallsFit, Live
    <3>2. CASE Replace(fresh, Subtask(index, "pending"))
      BY <1>1, <3>2, FilledFits DEF Replace, Live
    <3>3. QED  BY <1>5, <3>1, <3>2
  <2>4. TasksFit'
    <3>1. ASSUME NEW i \in Index, tasks[i].id # NoTask
          PROVE  board'[tasks[i].id] = board[tasks[i].id]
      BY <2>3, <3>1, Typed
    <3>2. QED  BY <2>1, <2>2, <3>1 DEF TasksFit, Live, Status
  <2>5. WorkspaceFits'  BY <2>1 DEF WorkspaceFits
  <2>6. RecordsFit'
    <3>1. Run!Later(BuildState, BuildState')  BY <2>1, <2>2, BuildStateMoves
    <3>2. QED  BY <3>1, RecordsStay
  <2>7. losses' \in 0 .. MaxLosses  BY <1>5, Typed
  <2>8. CASE UNCHANGED <<state, call, index, fresh, tasks, result>>
    <3>1. TypeOK'  BY <2>3, <2>7, <2>8 DEF TypeOK
    <3>2. CallsFit'  BY <2>8 DEF CallsFit
    <3>3. StepsFit'  BY <2>8 DEF StepsFit, Follow
    <3>4. FreshFits'  BY <2>3, <2>8 DEF FreshFits, Live
    <3>5. EndFits'  BY <1>1, <2>1, <2>8 DEF EndFits
    <3>6. Strays' \subseteq Strays  BY <2>3, <2>8 DEF Strays, Live
    <3>7. LossesCount'  BY <1>5, <3>6, CountStays
    <3>8. QED  BY <2>3, <2>4, <2>5, <2>6, <3>1, <3>2, <3>3, <3>4, <3>5, <3>7
  <2>9. CASE NextPass
    <3>1. /\ CallsFit' /\ StepsFit' /\ FreshFits'
          /\ state' \in {"running", "complete"}
          /\ call' \in {"create", "poll", "keep", "rmworkspace"}
          /\ index' \in 1 .. Length + 1
          /\ result' \in {"none", "success", "failure"}
          /\ fresh' = NoTask
      BY <2>1, <2>9, NextPassFits
    <3>2. TypeOK'  BY <2>2, <2>3, <2>7, <3>1 DEF TypeOK
    <3>3. EndFits'  BY <2>1, <3>1 DEF EndFits
    <3>4. Strays' \subseteq Strays \cup {fresh}  BY <2>2, <2>3 DEF Strays, Live
    <3>5. LossesCount'  BY <1>5, <3>4, CountStray
    <3>6. QED  BY <2>3, <2>4, <2>5, <2>6, <3>1, <3>2, <3>3, <3>5
  <2>10. QED  BY <1>5, <2>8, <2>9
<1>6. QED  BY <1>3, <1>4, <1>5

\* What a poll finds is what was reported for the step, or not the end of it.
LEMMA PollTaskStep ==
    ASSUME IndInv, PollTask
    PROVE  IndInv'
<1> USE DEF IndInv
<1>1. call = "poll" /\ call' = "put"  BY DEF PollTask
<1>2. UNCHANGED <<board, there, record, workspace, mainTicket, state, index, fresh, result,
                  configured, known, outcome, abandoned, reruns, downstream, late, relapses, kept>>
  BY DEF PollTask, Answered, Unanswered, storage, history, faults
<1>3. \/ /\ tasks' = [tasks EXCEPT ![index].status = board[tasks[index].id].body.status]
         /\ losses' = losses
      \/ /\ tasks' = tasks
         /\ losses < MaxLosses /\ losses' = losses + 1
  BY DEF PollTask, Answered, Unanswered, faults
<1> USE <1>2
<1>4. /\ state = "running" /\ result = "none"
      /\ index \in Index
      /\ workspace \/ ~there
      /\ \A i \in Index : i < index => tasks[i].status = "success"
      /\ tasks[index].status \in {"pending", "running"}
      /\ fresh = NoTask
      /\ mainTicket # "gone" /\ ~(downstream > 0)
  BY <1>1, AtWork
<1> DEFINE t == tasks[index].id
<1>5. /\ t \in Task /\ Live(t)
      /\ board[t].body.step = index
      /\ Status(t) # "preparing"
      /\ tasks[index].status # "pending" => Status(t) # "pending"
  <2>1. t # NoTask /\ Live(t)  BY <1>4 DEF TasksFit
  <2>2. QED  BY <1>4, <2>1, TicketOf
<1>6. /\ Status(t) \in Run!StepStatus
      /\ Status(t) # "none"
      /\ Status(t) \in Run!Final => Status(t) \in outcome[index]
  <2>1. Status(t) \in {"preparing", "pending", "running", "success", "failure"}
    BY <1>5, LiveTicket
  <2>2. Status(t) \in Run!Final => Status(t) \in outcome[index]
    BY <1>5 DEF BoardFits
  <2>3. QED  BY <1>5, <2>1, <2>2 DEF Run!StepStatus
<1>7. \E s \in Run!StepStatus :
         /\ s # "none"
         /\ s \in Run!Final => s \in outcome[index]
         /\ s # "pending" => Status(t) # "pending"
         /\ tasks' = [tasks EXCEPT ![index].status = s]
  <2>1. CASE tasks' = tasks
    <3>1. tasks = [tasks EXCEPT ![index].status = tasks[index].status]  BY <1>4, Typed DEF TaskState
    <3>2. tasks[index].status \in Run!StepStatus  BY <1>4, Typed
    <3>3. QED  BY <1>4, <1>5, <2>1, <3>1, <3>2 DEF Run!Final
  <2>2. CASE tasks' = [tasks EXCEPT ![index].status = Status(t)]
    BY <1>5, <1>6, <2>2
  <2>3. QED  BY <1>3, <2>1, <2>2 DEF Status
<1>8. PICK s \in Run!StepStatus :
         /\ s # "none"
         /\ s \in Run!Final => s \in outcome[index]
         /\ s # "pending" => Status(t) # "pending"
         /\ tasks' = [tasks EXCEPT ![index].status = s]
  BY <1>7
<1>9. /\ tasks'[index].id = t /\ tasks'[index].status = s
      /\ \A i \in Index : i # index => tasks'[i] = tasks[i]
      /\ \A i \in Index : tasks'[i].id = tasks[i].id
  BY <1>4, <1>8, Typed DEF TaskState
<1>10. tasks' \in [Index -> TaskState]
  <2>1. [tasks[index] EXCEPT !.status = s] \in TaskState  BY <1>4, <1>8, Typed DEF TaskState
  <2>2. tasks' = [tasks EXCEPT ![index] = [tasks[index] EXCEPT !.status = s]]  BY <1>8
  <2>3. QED  BY <2>1, <2>2, Typed
<1>11. TypeOK'
  <2>1. losses' \in 0 .. MaxLosses  BY <1>3, Typed
  <2>2. QED  BY <1>1, <1>10, <2>1 DEF TypeOK, TaskState
<1>12. CallsFit'  BY <1>1, <1>4 DEF CallsFit
<1>13. Follow(tasks)'
  <2>1. Follow(tasks)  BY DEF StepsFit
  <2>2. SUFFICES ASSUME NEW i \in Index, NEW j \in Index, i < j, tasks'[j].status # "none"
                 PROVE  tasks'[i].status = "success"
    BY DEF Follow
  <2>3. CASE j = index  BY <1>4, <1>9, <2>2, <2>3, Typed DEF Index
  <2>4. CASE j # index /\ i = index
    <3>1. tasks[j].status # "none"  BY <1>9, <2>2, <2>4
    <3>2. tasks[index].status = "success"  BY <1>4, <2>1, <2>2, <2>4, <3>1 DEF Follow
    <3>3. QED  BY <1>4, <3>2
  <2>5. CASE j # index /\ i # index  BY <1>9, <2>1, <2>2, <2>5 DEF Follow
  <2>6. QED  BY <2>3, <2>4, <2>5
<1>14. StepsFit'
  <2>1. \A i \in Index : i < index => tasks'[i].status = "success"
    BY <1>4, <1>9, Typed DEF Index
  <2>2. tasks'[index].status # "none"  BY <1>8, <1>9
  <2>3. QED  BY <1>1, <1>4, <1>13, <2>1, <2>2 DEF StepsFit
<1>15. BoardFits'  BY DEF BoardFits, Live, Status
<1>16. TasksFit'
  <2>1. SUFFICES ASSUME NEW i \in Index
                 PROVE  /\ tasks'[i].id # NoTask =>
                              /\ tasks'[i].status # "none"
                              /\ board[tasks'[i].id] # Unborn
                              /\ Live(tasks'[i].id) =>
                                    /\ board[tasks'[i].id].body.step = i
                                    /\ Status(tasks'[i].id) # "preparing"
                                    /\ tasks'[i].status # "pending" =>
                                          Status(tasks'[i].id) # "pending"
                        /\ tasks'[i].status # "none" =>
                              tasks'[i].id # NoTask /\ Live(tasks'[i].id)
                        /\ tasks'[i].status \in Run!Final => tasks'[i].status \in outcome[i]
    BY <1>4 DEF TasksFit, Live, Status
  <2>2. CASE i = index
    BY <1>5, <1>8, <1>9, <2>2, Typed, MarkersDiffer DEF Live
  <2>3. CASE i # index
    BY <1>4, <1>9, <2>3 DEF TasksFit
  <2>4. QED  BY <2>2, <2>3
<1>17. FreshFits'  BY <1>4 DEF FreshFits
<1>18. WorkspaceFits'  BY <1>4 DEF WorkspaceFits
<1>19. RecordsFit'
  <2>1. \A i \in Index : tasks[i].status \in Run!Final => tasks'[i].status = tasks[i].status
    BY <1>4, <1>9 DEF Run!Final
  <2>2. Run!Later(BuildState, BuildState')  BY <1>4, <2>1, BuildStateMoves
  <2>3. QED  BY <2>2, RecordsStay
<1>20. EndFits'  BY <1>1, <1>4 DEF EndFits
<1>21. Strays' = Strays  BY <1>9 DEF Strays, Live
<1>22. LossesCount'  BY <1>3, <1>21, CountStays
<1>23. QED  BY <1>11, <1>12, <1>14, <1>15, <1>16, <1>17, <1>18, <1>19, <1>20, <1>22

-----------------------------------------------------------------------------
(* report_complete_status *)

\* Once a build has its result, none of its steps waits for a worker.
LEMMA NonePending ==
    ASSUME IndInv, result # "none",
           NEW i \in Index, tasks[i].id # NoTask, Live(tasks[i].id)
    PROVE  Status(tasks[i].id) # "pending"
<1> USE DEF IndInv
<1>1. /\ tasks[i].status # "none"
      /\ tasks[i].status # "pending" => Status(tasks[i].id) # "pending"
  BY TicketOf
<1>2. CASE result = "success"  BY <1>1, <1>2 DEF StepsFit
<1>3. CASE result = "failure"
  <2>1. PICK k \in Index : tasks[k].status = "failure"  BY <1>3 DEF StepsFit
  <2>2. Follow(tasks)  BY DEF StepsFit
  <2>3. i \in Int /\ k \in Int  BY Typed DEF Index
  <2>4. CASE i < k
    <3>1. tasks[i].status = "success"  BY <2>1, <2>2, <2>4 DEF Follow
    <3>2. QED  BY <1>1, <3>1
  <2>5. CASE i = k  BY <1>1, <2>1, <2>5
  <2>6. CASE k < i
    <3>1. tasks[k].status = "success"  BY <1>1, <2>1, <2>2, <2>6 DEF Follow
    <3>2. QED  BY <2>1, <3>1
  <2>7. QED  BY <2>3, <2>4, <2>5, <2>6
<1>4. QED  BY <1>2, <1>3 DEF TypeOK

\* Only finished builds lose their workspace.
LEMMA DeleteWorkspaceStep ==
    ASSUME IndInv, DeleteWorkspace
    PROVE  IndInv'
<1> USE DEF IndInv
<1>1. call = "rmworkspace" /\ state' = state /\ call' = "put"
  BY DEF DeleteWorkspace, GoTo
<1>2. UNCHANGED <<board, there, record, mainTicket, index, fresh, tasks, result,
                  configured, known, outcome, abandoned, reruns, downstream, late, relapses, kept>>
  BY DEF DeleteWorkspace, Answered, Unanswered, GoTo, history, faults
<1>3. /\ workspace' = FALSE \/ workspace' = workspace
      /\ losses' = losses \/ (losses < MaxLosses /\ losses' = losses + 1)
  BY DEF DeleteWorkspace, Answered, Unanswered, faults
<1> USE <1>2
<1>4. state = "complete" /\ result # "none" /\ fresh = NoTask
  BY <1>1 DEF CallsFit, TypeOK
<1>5. TypeOK'
  <2>1. losses' \in 0 .. MaxLosses  BY <1>3, Typed
  <2>2. workspace' \in BOOLEAN  BY <1>3 DEF TypeOK
  <2>3. QED  BY <1>1, <2>1, <2>2 DEF TypeOK
<1>6. BoardFits' /\ TasksFit' /\ FreshFits' /\ Strays' = Strays
      /\ Run!Later(BuildState, BuildState') /\ Follow(tasks)'
  BY SameTasks
<1>7. CallsFit'  BY <1>1, <1>4 DEF CallsFit
<1>8. StepsFit'  BY <1>1, <1>4, <1>6 DEF StepsFit
<1>9. WorkspaceFits'
  <2>1. ASSUME NEW t \in Task, Live(t), \E i \in Index : tasks[i].id = t
        PROVE  Status(t) # "pending"
    BY <1>4, <2>1, NonePending, Typed
  <2>2. QED  BY <1>1, <1>4, <2>1, Typed DEF WorkspaceFits, Live, Status
<1>10. RecordsFit'  BY <1>6, RecordsStay
<1>11. EndFits'  BY <1>1, <1>4 DEF EndFits, Recorded
<1>12. LossesCount'  BY <1>3, <1>6, CountStays
<1>13. QED  BY <1>5, <1>6, <1>7, <1>8, <1>9, <1>10, <1>11, <1>12

\* A step's ticket goes, and with it what the controller knows of it.
LEMMA DeleteSubtaskStep ==
    ASSUME IndInv, DeleteSubtask
    PROVE  IndInv'
<1> USE DEF IndInv
<1>1. call = "rmtasks"  BY DEF DeleteSubtask
<1>2. UNCHANGED <<there, record, workspace, mainTicket, configured, known, outcome, abandoned, reruns, downstream,
                  late, relapses>>
  BY DEF DeleteSubtask, Answered, AnsweredAnyway, Unanswered, storage, history, faults
<1>3. PICK i \in Index :
         /\ tasks[i].id # NoTask
         /\ \/ /\ \/ /\ UNCHANGED kept
                     /\ Withdraw(tasks[i].id) \/ (~Live(tasks[i].id) /\ UNCHANGED board)
                  \/ kept < MaxKept /\ kept' = kept + 1 /\ UNCHANGED board
               /\ tasks' = [tasks EXCEPT ![i].id = NoTask]
               /\ UNCHANGED <<losses, state, call, index, fresh, result>>
            \/ /\ losses < MaxLosses /\ losses' = losses + 1
               /\ UNCHANGED kept
               /\ Withdraw(tasks[i].id) \/ UNCHANGED board
               /\ \/ UNCHANGED <<state, call, index, fresh, tasks, result>>
                  \/ UNCHANGED <<state, index, fresh, tasks, result>> /\ call' = "rmworkspace"
  BY DEF DeleteSubtask, TicketsToDelete, Answered, AnsweredAnyway, Unanswered, StartOver, GoTo, ctl, faults
<1> USE <1>2
<1> DEFINE t == tasks[i].id
<1>4. state = "complete" /\ result # "none" /\ fresh = NoTask
  BY <1>1 DEF CallsFit, TypeOK
<1>5. Recorded  BY <1>1 DEF EndFits
<1>6. t \in Task  BY <1>3, Typed
<1>7. UNCHANGED <<state, index, fresh, result>> /\ call' \in {"rmtasks", "rmworkspace"}
  BY <1>1, <1>3
<1>8. /\ board' \in [Task -> Place]
      /\ \A u \in Task : u # t => board'[u] = board[u]
      /\ board'[t] = board[t] \/ board'[t] = Deleted
      /\ \A u \in Task : board[u] # Unborn => board'[u] # Unborn
      /\ Deleted \notin Desc
  BY <1>3, <1>6, WithdrawDoes, Typed, MarkersDiffer
<1>9. /\ tasks' \in [Index -> TaskState]
      /\ \A j \in Index : tasks'[j].status = tasks[j].status
      /\ \A j \in Index : tasks'[j].id = tasks[j].id \/ tasks'[j].id = NoTask
  <2>1. CASE tasks' = tasks  BY <2>1, Typed
  <2>2. CASE tasks' = [tasks EXCEPT ![i].id = NoTask]
    <3>1. [tasks[i] EXCEPT !.id = NoTask] \in TaskState  BY Typed DEF TaskState
    <3>2. tasks' = [tasks EXCEPT ![i] = [tasks[i] EXCEPT !.id = NoTask]]  BY <2>2
    <3>3. [tasks[i] EXCEPT !.id = NoTask].status = tasks[i].status
          /\ [tasks[i] EXCEPT !.id = NoTask].id = NoTask
      BY Typed DEF TaskState
    <3>4. QED  BY <3>1, <3>2, <3>3, Typed
  <2>3. QED  BY <1>3, <2>1, <2>2
<1>10. /\ losses' = losses \/ (losses < MaxLosses /\ losses' = losses + 1)
       /\ kept' = kept \/ (kept < MaxKept /\ kept' = kept + 1)
  BY <1>3
<1>11. TypeOK'
  <2>1. losses' \in 0 .. MaxLosses /\ kept' \in 0 .. MaxKept  BY <1>10, Typed
  <2>2. QED  BY <1>7, <1>8, <1>9, <2>1 DEF TypeOK, TaskState
<1>12. CallsFit'  BY <1>4, <1>7 DEF CallsFit
<1>13. Follow(tasks)'  BY <1>9 DEF StepsFit, Follow
<1>14. StepsFit'  BY <1>4, <1>7, <1>9, <1>13 DEF StepsFit
<1>15. \A u \in Task : board'[u] \in Desc => board'[u] = board[u]  BY <1>8
<1>16. BoardFits'  BY <1>15 DEF BoardFits, Live, Status
<1>17. TasksFit'
  <2>1. ASSUME NEW j \in Index, tasks'[j].id # NoTask
        PROVE  /\ tasks'[j].id = tasks[j].id /\ tasks[j].id \in Task
               /\ tasks[j].status # "none"
               /\ board'[tasks[j].id] # Unborn
               /\ board'[tasks[j].id] \in Desc =>
                     /\ board'[tasks[j].id].body.step = j
                     /\ board'[tasks[j].id].body.status # "preparing"
                     /\ tasks[j].status # "pending" => board'[tasks[j].id].body.status # "pending"
    <3>1. tasks'[j].id = tasks[j].id /\ tasks[j].id # NoTask  BY <1>9, <2>1
    <3>2. /\ tasks[j].id \in Task
          /\ tasks[j].status # "none"
          /\ board[tasks[j].id] # Unborn
          /\ Live(tasks[j].id) =>
                /\ board[tasks[j].id].body.step = j
                /\ Status(tasks[j].id) # "preparing"
                /\ tasks[j].status # "pending" => Status(tasks[j].id) # "pending"
      BY <3>1, TicketOf
    <3>3. QED  BY <1>8, <1>15, <3>1, <3>2 DEF Live, Status
  <2>2. QED  BY <1>4, <1>7, <1>9, <2>1 DEF TasksFit, Live, Status
<1>18. FreshFits'  BY <1>4, <1>7 DEF FreshFits
<1>19. WorkspaceFits'
  <2>1. ASSUME NEW u \in Task, board'[u] \in Desc, \E j \in Index : tasks'[j].id = u
        PROVE  board'[u].body.status # "pending"
    <3>1. \E j \in Index : tasks[j].id = u  BY <1>9, <2>1, Typed
    <3>2. board'[u] = board[u]  BY <1>15, <2>1
    <3>3. QED  BY <1>4, <2>1, <3>1, <3>2, NonePending, Typed DEF Live, Status
  <2>2. QED  BY <1>4, <1>7, <2>1, Typed DEF WorkspaceFits, Live, Status
<1>20. RecordsFit'
  <2>1. Run!Later(BuildState, BuildState')  BY <1>7, <1>9, BuildStateMoves
  <2>2. QED  BY <2>1, RecordsStay
<1>21. EndFits'
  <2>1. kept > 0 => kept' > 0  BY <1>10, Typed
  <2>2. QED  BY <1>1, <1>4, <1>5, <1>7, <2>1 DEF EndFits, Recorded
<1>22. LossesCount'
  <2>1. CASE tasks' = tasks
    <3>1. Strays' \subseteq Strays  BY <1>7, <1>15, <2>1 DEF Strays, Live
    <3>2. QED  BY <1>10, <3>1, CountStays
  <2>2. CASE tasks' = [tasks EXCEPT ![i].id = NoTask]
    <3>1. \A j \in Index : j # i => tasks'[j] = tasks[j]  BY <2>2, Typed
    <3>2. Strays' \subseteq Strays \cup {t}
      <4>1. SUFFICES ASSUME NEW u \in Task, board'[u] \in Desc, \A j \in Index : tasks'[j].id # u,
                            u # t
                     PROVE  board[u] \in Desc /\ \A j \in Index : tasks[j].id # u
        BY <1>4, Typed DEF Strays, Live
      <4>2. QED  BY <1>15, <3>1, <4>1
    <3>3. CASE kept' = kept + 1 /\ losses' = losses  BY <1>2, <3>2, <3>3, CountStray
    <3>4. CASE Withdraw(t) \/ (~Live(t) /\ UNCHANGED board)
      <4>1. board'[t] \notin Desc  BY <1>6, <3>4, WithdrawDoes, MarkersDiffer DEF Live
      <4>2. Strays' \subseteq Strays  BY <3>2, <4>1 DEF Strays, Live
      <4>3. QED  BY <1>10, <4>2, CountStays
    <3>5. CASE losses' = losses + 1 /\ kept' = kept  BY <1>2, <3>2, <3>5, CountStray
    <3>6. QED  BY <1>3, <3>3, <3>4, <3>5
  <2>3. QED  BY <1>3, <2>1, <2>2
<1>23. QED  BY <1>11, <1>12, <1>14, <1>16, <1>17, <1>18, <1>19, <1>20, <1>21, <1>22

\* The build's own ticket goes last, after its record.
LEMMA DeleteMainTaskStep ==
    ASSUME IndInv, DeleteMainTask
    PROVE  IndInv'
<1> USE DEF IndInv
<1>1. call = "rmtasks"  BY DEF DeleteMainTask
<1>2. UNCHANGED <<board, there, record, workspace, index, fresh, tasks, result,
                  configured, known, outcome, abandoned, reruns, downstream, late, relapses>>
  BY DEF DeleteMainTask, Answered, AnsweredAnyway, Unanswered, AfterReport, StartOver, GoTo,
         storage, history, ctl, faults
<1>3. /\ mainTicket' \in {mainTicket, "gone"}
      /\ losses' = losses \/ (losses < MaxLosses /\ losses' = losses + 1)
      /\ kept' = kept \/ (kept < MaxKept /\ kept' = kept + 1)
      /\ \/ /\ mainTicket' = "gone" \/ kept' = kept + 1
            /\ result = "success" /\ state' = state /\ call' = "trigger"
         \/ state' = "reported" /\ call' = "none"
         \/ state' = state /\ call' \in {"rmtasks", "rmworkspace"}
  BY <1>1 DEF DeleteMainTask, Answered, AnsweredAnyway, Unanswered, AfterReport, StartOver, GoTo, ctl, faults
<1>4. \A i \in Index : tasks[i].id = NoTask  BY DEF DeleteMainTask, TicketsToDelete
<1> USE <1>2
<1>5. state = "complete" /\ result # "none" /\ fresh = NoTask
  BY <1>1 DEF CallsFit, TypeOK
<1>6. Recorded  BY <1>1 DEF EndFits
<1>7. TypeOK'
  <2>1. losses' \in 0 .. MaxLosses /\ kept' \in 0 .. MaxKept  BY <1>3, Typed
  <2>2. QED  BY <1>3, <2>1 DEF TypeOK
<1>8. BoardFits' /\ TasksFit' /\ FreshFits' /\ Strays' = Strays
      /\ Run!Later(BuildState, BuildState') /\ Follow(tasks)'
  BY SameTasks
<1>9. CallsFit'  BY <1>3, <1>5 DEF CallsFit
<1>10. StepsFit'  BY <1>3, <1>5, <1>8 DEF StepsFit
<1>11. WorkspaceFits'  BY <1>3, <1>5 DEF WorkspaceFits, Live, Status
<1>12. RecordsFit'  BY <1>8, RecordsStay
<1>13. EndFits'
  <2>1. Recorded'  BY <1>6 DEF Recorded
  <2>2. downstream > 0 => result = "success" /\ (mainTicket = "gone" \/ kept > 0)
    BY DEF EndFits
  <2>3. (kept > 0 => kept' > 0) /\ (kept' = kept + 1 => kept' > 0)  BY <1>3, Typed
  <2>4. mainTicket = "gone" => mainTicket' = "gone"  BY <1>3
  <2>5. QED  BY <1>3, <1>4, <1>5, <2>1, <2>2, <2>3, <2>4 DEF EndFits
<1>14. LossesCount'  BY <1>3, <1>8, CountStays
<1>15. QED  BY <1>7, <1>8, <1>9, <1>10, <1>11, <1>12, <1>13, <1>14

\* The downstream job is triggered after everything else.
LEMMA TriggerDownstreamStep ==
    ASSUME IndInv, TriggerDownstream
    PROVE  IndInv'
<1> USE DEF IndInv
<1>1. /\ call = "trigger" /\ state' = "reported" /\ call' = "none"
      /\ downstream' \in {0, 1}
      /\ losses' = losses \/ (losses < MaxLosses /\ losses' = losses + 1)
  BY DEF TriggerDownstream, Answered, Unanswered, GoTo, faults
<1>2. UNCHANGED <<board, there, record, workspace, mainTicket, index, fresh, tasks, result,
                  configured, known, outcome, abandoned, reruns, late, relapses, kept>>
  BY DEF TriggerDownstream, Answered, Unanswered, GoTo, storage, history, faults
<1> USE <1>2
<1>3. state = "complete" /\ result # "none" /\ fresh = NoTask
  BY <1>1 DEF CallsFit, TypeOK
<1>4. TypeOK'
  <2>1. losses' \in 0 .. MaxLosses  BY <1>1, Typed
  <2>2. downstream' \in 0 .. 1  BY <1>1
  <2>3. QED  BY <1>1, <2>1, <2>2 DEF TypeOK
<1>5. BoardFits' /\ TasksFit' /\ FreshFits' /\ Strays' = Strays
      /\ Run!Later(BuildState, BuildState') /\ Follow(tasks)'
  BY SameTasks
<1>6. CallsFit'  BY <1>1, <1>3 DEF CallsFit
<1>7. StepsFit'  BY <1>1, <1>5 DEF StepsFit
<1>8. WorkspaceFits'  BY <1>1, <1>3 DEF WorkspaceFits, Live, Status
<1>9. RecordsFit'  BY <1>5, RecordsStay
<1>10. EndFits'  BY <1>1, <1>3 DEF EndFits, Recorded
<1>11. LossesCount'  BY <1>1, <1>5, CountStays
<1>12. QED  BY <1>4, <1>5, <1>6, <1>7, <1>8, <1>9, <1>10, <1>11

-----------------------------------------------------------------------------
(* Workers and the user *)

\* Claims and reports change what a ticket says of its step, not which step it
\* is for, and what they say is kept.
LEMMA TicketMoves ==
    ASSUME IndInv, NEW t \in Task, Live(t), Status(t) # "preparing",
           NEW w \in Worker \cup {NoOne},
           NEW s \in {"running", "success", "failure"},
           SetTicket(t, w, s),
           outcome' \in [Index -> SUBSET Run!Final],
           \A i \in Index : outcome[i] \subseteq outcome'[i],
           s \in Run!Final => s \in outcome'[board[t].body.step],
           reruns' \in 0 .. MaxReruns,
           abandoned' \in SUBSET Task,
           UNCHANGED <<there, record, workspace, mainTicket, state, call, index, fresh, tasks,
                       result, configured, known, downstream, late, relapses, losses, kept>>
    PROVE  IndInv'
<1> USE DEF IndInv
<1> DEFINE d == [assignee |-> w, body |-> [board[t].body EXCEPT !.status = s]]
<1>1. /\ board[t].body \in SubtaskBody
      /\ board[t].body.step \in Index
  BY LiveTicket
<1>2. /\ d.body \in SubtaskBody
      /\ d.body.step = board[t].body.step
      /\ d.body.status = s
  BY <1>1 DEF SubtaskBody
<1>3. d \in Desc  BY <1>2, ControlConstants DEF Desc
<1>4. Replace(t, d)  BY DEF SetTicket
<1> HIDE DEF d
<1>5. /\ board' \in [Task -> Place]
      /\ board'[t] = d
      /\ \A u \in Task : u # t => board'[u] = board[u]
      /\ \A u \in Task : board'[u] \in Desc <=> board[u] \in Desc
      /\ \A u \in Task : board[u] # Unborn => board'[u] # Unborn
  BY <1>3, <1>4, ReplaceDoes
<1>6. TypeOK'  BY <1>5 DEF TypeOK
<1>7. CallsFit'  BY DEF CallsFit
<1>8. StepsFit'  BY DEF StepsFit, Follow
<1>9. BoardFits'
  <2>1. ASSUME NEW u \in Task, Live(u)'
        PROVE  /\ board'[u].body \in SubtaskBody
               /\ Status(u)' # "preparing" => board'[u].body.step \in Index
               /\ Status(u)' \in Run!Final => Status(u)' \in outcome'[board'[u].body.step]
               /\ \A i \in 1 .. board'[u].body.step - 1 : "success" \in outcome'[i]
    <3>1. /\ board[u].body \in SubtaskBody
          /\ Status(u) # "preparing" => board[u].body.step \in Index
          /\ Status(u) \in Run!Final => Status(u) \in outcome[board[u].body.step]
          /\ \A i \in 1 .. board[u].body.step - 1 : "success" \in outcome[i]
      BY <1>5, <2>1 DEF BoardFits, Live
    <3>2. board[u].body.step \in 0 .. Length /\ Length \in Nat
      BY <3>1, ControlConstants DEF SubtaskBody
    <3>3. \A i \in 1 .. board[u].body.step - 1 : i \in Index
      BY <3>2 DEF Index
    <3>4. \A i \in 1 .. board[u].body.step - 1 : "success" \in outcome'[i]
      BY <3>1, <3>3
    <3>5. CASE u = t  BY <1>1, <1>2, <1>5, <3>4, <3>5 DEF Status
    <3>6. CASE u # t
      <4>1. Status(u)' = Status(u) /\ board'[u] = board[u]  BY <1>5, <3>6 DEF Status
      <4>2. Status(u) \in Run!Final => board[u].body.step \in Index
        BY <3>1 DEF Run!Final
      <4>3. QED  BY <3>1, <3>4, <4>1, <4>2
    <3>7. QED  BY <3>5, <3>6
  <2>2. QED  BY <2>1 DEF BoardFits
<1>10. TasksFit'
  <2>1. ASSUME NEW i \in Index, tasks[i].id # NoTask
        PROVE  /\ board'[tasks[i].id] # Unborn
               /\ board'[tasks[i].id] \in Desc <=> board[tasks[i].id] \in Desc
               /\ board'[tasks[i].id] \in Desc =>
                     /\ board'[tasks[i].id].body.step = i
                     /\ board'[tasks[i].id].body.status # "preparing"
                     /\ tasks[i].status # "pending" =>
                           board'[tasks[i].id].body.status # "pending"
    <3>1. /\ tasks[i].id \in Task
          /\ board[tasks[i].id] # Unborn
          /\ Live(tasks[i].id) =>
                /\ board[tasks[i].id].body.step = i
                /\ Status(tasks[i].id) # "preparing"
                /\ tasks[i].status # "pending" => Status(tasks[i].id) # "pending"
      BY <2>1, TicketOf
    <3>2. CASE tasks[i].id = t  BY <1>2, <1>5, <3>1, <3>2 DEF Live
    <3>3. CASE tasks[i].id # t  BY <1>5, <3>1, <3>3 DEF Live, Status
    <3>4. QED  BY <3>2, <3>3
  <2>2. QED  BY <2>1 DEF TasksFit, Live, Status
<1>11. FreshFits'  BY <1>5, Typed DEF FreshFits, Live
<1>12. WorkspaceFits'
  <2>1. ASSUME NEW u \in Task, board'[u] \in Desc, board'[u].body.status = "pending"
        PROVE  Live(u) /\ Status(u) = "pending"
    BY <1>2, <1>5, <2>1 DEF Live, Status
  <2>2. QED  BY <2>1 DEF WorkspaceFits, Live, Status
<1>13. Run!Later(BuildState, BuildState')  BY BuildStateMoves
<1>14. RecordsFit'  BY <1>13, RecordsStay
<1>15. EndFits'  BY DEF EndFits, Recorded
<1>16. Strays' = Strays  BY <1>5 DEF Strays, Live
<1>17. LossesCount'  BY <1>16, CountStays
<1>18. QED  BY <1>6, <1>7, <1>8, <1>9, <1>10, <1>11, <1>12, <1>14, <1>15, <1>17

\* Workers claim tickets, also those they read long ago, and report results.
LEMMA WorkersStep ==
    ASSUME IndInv, NEW t \in Task, ClaimSubtask(t) \/ RerunSubtask(t) \/ ReportSubtask(t)
    PROVE  IndInv'
<1> USE DEF IndInv
<1>1. UNCHANGED <<there, record, workspace, mainTicket, state, call, index, fresh, tasks,
                  result, configured, known, downstream, late, relapses, losses, kept>>
  BY DEF ClaimSubtask, RerunSubtask, ReportSubtask, storage, ctl, history, faults
<1>2. /\ outcome \in [Index -> SUBSET Run!Final]
      /\ reruns \in 0 .. MaxReruns /\ MaxReruns \in Nat
      /\ abandoned' \in SUBSET Task
  BY ControlConstants DEF TypeOK, ClaimSubtask, RerunSubtask, ReportSubtask
<1>3. CASE ClaimSubtask(t) \/ RerunSubtask(t)
  <2>1. Live(t) /\ Status(t) # "preparing"
    BY <1>3 DEF ClaimSubtask, RerunSubtask, IsComplete
  <2>2. PICK w \in Worker : SetTicket(t, w, "running")
    BY <1>3 DEF ClaimSubtask, RerunSubtask
  <2>3. outcome' = outcome /\ reruns' \in 0 .. MaxReruns
    BY <1>2, <1>3 DEF ClaimSubtask, RerunSubtask, history
  <2>4. "running" \notin Run!Final  BY DEF Run!Final
  <2>5. QED  BY <1>1, <1>2, <2>1, <2>2, <2>3, <2>4, TicketMoves
<1>4. CASE ReportSubtask(t)
  <2>1. Live(t) /\ Status(t) = "running"  BY <1>4 DEF ReportSubtask
  <2>2. PICK r \in Run!Final :
            /\ SetTicket(t, NoOne, r)
            /\ outcome' = [outcome EXCEPT ![board[t].body.step] = @ \cup {r}]
    BY <1>4 DEF ReportSubtask
  <2>3. board[t].body.step \in Index  BY <2>1, LiveTicket
  <2>4. /\ outcome' \in [Index -> SUBSET Run!Final]
        /\ \A i \in Index : outcome[i] \subseteq outcome'[i]
        /\ r \in outcome'[board[t].body.step]
    BY <1>2, <2>2, <2>3
  <2>5. reruns' = reruns  BY <1>4 DEF ReportSubtask
  <2>6. r \in {"running", "success", "failure"}  BY DEF Run!Final
  <2>7. QED  BY <1>1, <1>2, <2>1, <2>2, <2>4, <2>5, <2>6, TicketMoves
<1>5. QED  BY <1>3, <1>4

\* That nobody works on a ticket any more changes nothing but the promise.
LEMMA AbandonStep ==
    ASSUME IndInv, NEW t \in Task, AbandonSubtask(t)
    PROVE  IndInv'
<1> USE DEF IndInv
<1>1. UNCHANGED <<board, there, record, workspace, mainTicket, state, call, index, fresh, tasks,
                  result, configured, known, outcome, reruns, downstream, late, relapses, losses,
                  kept>>
  BY DEF AbandonSubtask, storage, ctl, faults
<1>2. abandoned' \in SUBSET Task  BY DEF AbandonSubtask, TypeOK
<1> USE <1>1
<1>3. TypeOK'  BY <1>2 DEF TypeOK
<1>4. BoardFits' /\ TasksFit' /\ FreshFits' /\ Strays' = Strays
      /\ Run!Later(BuildState, BuildState') /\ Follow(tasks)'
  BY SameTasks
<1>5. CallsFit'  BY DEF CallsFit
<1>6. StepsFit'  BY <1>4 DEF StepsFit
<1>7. WorkspaceFits'  BY DEF WorkspaceFits, Live, Status
<1>8. RecordsFit'  BY <1>4, RecordsStay
<1>9. EndFits'  BY DEF EndFits, Recorded
<1>10. LossesCount'  BY <1>4, CountStays
<1>11. QED  BY <1>3, <1>4, <1>5, <1>6, <1>7, <1>8, <1>9, <1>10

\* A user deletes the build's directory under its controller.
LEMMA DeleteBuildStep ==
    ASSUME IndInv, DeleteBuild
    PROVE  IndInv'
<1> USE DEF IndInv
<1>1. there' = FALSE /\ workspace' = FALSE  BY DEF DeleteBuild
<1>2. UNCHANGED <<board, record, mainTicket, state, call, index, fresh, tasks, result, configured, known,
                  outcome, abandoned, reruns, downstream, late, relapses, losses, kept>>
  BY DEF DeleteBuild, ctl, history, faults
<1> USE <1>2
<1>3. TypeOK'  BY <1>1, ZenonT(60) DEF TypeOK
<1>4. BoardFits' /\ TasksFit' /\ FreshFits' /\ Strays' = Strays
      /\ Run!Later(BuildState, BuildState') /\ Follow(tasks)'
  BY SameTasks
<1>5. CallsFit'  BY DEF CallsFit
<1>6. StepsFit'  BY <1>4 DEF StepsFit
<1>7. WorkspaceFits'  BY <1>1 DEF WorkspaceFits
<1>8. RecordsFit'  BY <1>4, RecordsStay
<1>9. EndFits'  BY <1>1 DEF EndFits, Recorded
<1>10. LossesCount'  BY <1>4, CountStays
<1>11. QED  BY <1>3, <1>4, <1>5, <1>6, <1>7, <1>8, <1>9, <1>10

-----------------------------------------------------------------------------
(* The invariant *)

\* A build that was just triggered satisfies the invariant.
LEMMA IndInit == Init => IndInv
<1> SUFFICES ASSUME Init PROVE IndInv
  OBVIOUS
<1> USE DEF Init
<1>1. /\ Length \in Nat /\ MaxLosses \in Nat /\ MaxReruns \in Nat /\ MaxKept \in Nat
      /\ Index = 1 .. Length
  BY ControlConstants DEF Index
<1>2. board = [u \in Task |-> Unborn] /\ \A t \in Task : ~Live(t)
  BY MarkersDiffer DEF Empty, Live
<1>3. /\ tasks \in [Index -> [id : Task \cup {NoTask}, status : Run!StepStatus]]
      /\ \A i \in Index : tasks[i].id = NoTask /\ tasks[i].status = "none"
  BY DEF Run!StepStatus
<1>4. /\ record \in Run!Record
      /\ record.status = "preparing" /\ record.result = "none"
      /\ \A i \in Index : record.steps[i] = "none"
  BY <1>1 DEF Run!Triggered, Run!Record, Run!StepStatus
<1>5. outcome \in [Index -> SUBSET Run!Final]  OBVIOUS
<1>6. known \in SUBSET Index /\ abandoned \in SUBSET Task  OBVIOUS
<1>7. index \in 1 .. Length + 1  BY <1>1
<1>8. TypeOK
  <2>1. board \in [Task -> Place]  BY <1>2 DEF Place
  <2>2. /\ relapses \in 0 .. MaxLosses /\ losses \in 0 .. MaxLosses
        /\ reruns \in 0 .. MaxReruns /\ downstream \in 0 .. 1 /\ kept \in 0 .. MaxKept
    BY <1>1
  <2>3. late \in SUBSET Run!Record  OBVIOUS
  <2>4. QED  BY <1>3, <1>4, <1>5, <1>6, <1>7, <2>1, <2>2, <2>3 DEF TypeOK
<1>9. CallsFit  BY DEF CallsFit
<1>10. StepsFit  BY <1>3 DEF StepsFit, Follow
<1>11. BoardFits  BY <1>2 DEF BoardFits
<1>12. TasksFit  BY <1>3 DEF TasksFit, Run!Final
<1>13. FreshFits  BY DEF FreshFits
<1>14. WorkspaceFits  BY <1>2 DEF WorkspaceFits
<1>15. RecordsFit
  <2>1. \A i \in 2 .. Length : record.steps[i] = "none"  BY <1>1, <1>4
  <2>2. Run!Sound(record)  BY <1>4, <2>1 DEF Run!Sound
  <2>3. Run!Later(record, BuildState)
    BY <1>1, <1>4, BuildStateSays DEF Run!Later, Run!Final
  <2>4. QED  BY <1>4, <2>2, <2>3 DEF RecordsFit, Run!Final
<1>16. EndFits  BY DEF EndFits
<1>17. LossesCount
  <2>1. Strays = {}  BY <1>2 DEF Strays
  <2>2. QED  BY <2>1, FS_EmptySet DEF LossesCount
<1>18. QED
  BY <1>8, <1>9, <1>10, <1>11, <1>12, <1>13, <1>14, <1>15, <1>16, <1>17 DEF IndInv

\* A step that changes nothing keeps it.
LEMMA Stutter ==
    ASSUME IndInv, UNCHANGED vars
    PROVE  IndInv'
<1> USE DEF IndInv
<1>1. UNCHANGED <<board, there, record, workspace, mainTicket, state, call, index, fresh, tasks,
                  result, configured, known, outcome, abandoned, reruns, downstream, late, relapses, losses, kept>>
  BY DEF vars, storage, ctl, history, faults
<1> USE <1>1
<1>2. TypeOK'  BY DEF TypeOK
<1>3. BoardFits' /\ TasksFit' /\ FreshFits' /\ Strays' = Strays
      /\ Run!Later(BuildState, BuildState') /\ Follow(tasks)'
  BY SameTasks
<1>4. CallsFit'  BY DEF CallsFit
<1>5. StepsFit'  BY <1>3 DEF StepsFit
<1>6. WorkspaceFits'  BY DEF WorkspaceFits, Live, Status
<1>7. RecordsFit'  BY <1>3, RecordsStay
<1>8. EndFits'  BY DEF EndFits, Recorded
<1>9. LossesCount'  BY <1>3, CountStays
<1>10. QED  BY <1>2, <1>3, <1>4, <1>5, <1>6, <1>7, <1>8, <1>9

\* Every step of the controller, the workers, the proxy and the user keeps it.
LEMMA IndStep ==
    ASSUME IndInv, [Next]_vars
    PROVE  IndInv'
<1>1. CASE ClaimBuild  BY <1>1, ClaimBuildStep
<1>2. CASE GetJobConfig  BY <1>2, GetJobConfigStep
<1>3. CASE CreateWorkspace  BY <1>3, CreateWorkspaceStep
<1>4. CASE UpdateBuildState  BY <1>4, UpdateBuildStateStep
<1>5. CASE SpawnUnknown \/ CrashController  BY <1>5, SpawnUnknownStep
<1>6. CASE CreateTask  BY <1>6, CreateTaskStep
<1>7. CASE FillTask  BY <1>7, FillTaskStep
<1>8. CASE PollTask  BY <1>8, PollTaskStep
<1>9. CASE DeleteWorkspace  BY <1>9, DeleteWorkspaceStep
<1>10. CASE DeleteSubtask  BY <1>10, DeleteSubtaskStep
<1>11. CASE DeleteMainTask  BY <1>11, DeleteMainTaskStep
<1>12. CASE TriggerDownstream  BY <1>12, TriggerDownstreamStep
<1>13. CASE \E t \in Task : ClaimSubtask(t) \/ RerunSubtask(t) \/ ReportSubtask(t)
  BY <1>13, WorkersStep
<1>14. CASE ServeLate  BY <1>14, ServeLateStep
<1>15. CASE DeleteBuild  BY <1>15, DeleteBuildStep
<1>16. CASE UNCHANGED vars  BY <1>16, Stutter
<1>17. CASE \E t \in Task : AbandonSubtask(t)  BY <1>17, AbandonStep
<1>18. QED
  BY <1>1, <1>2, <1>3, <1>4, <1>5, <1>6, <1>7, <1>8, <1>9, <1>10, <1>11, <1>12, <1>13, <1>14,
     <1>15, <1>16, <1>17 DEF Next, ControllerStep

\* The inductive invariant holds in every state of every behaviour.
LEMMA Invariance == Spec => []IndInv
<1>1. Init => IndInv  BY IndInit
<1>2. IndInv /\ [Next]_vars => IndInv'  BY IndStep
<1>3. QED  BY <1>1, <1>2, PTL DEF Spec

-----------------------------------------------------------------------------
(* Theorems *)

\* Every variable of the controller, its build and the board keeps its type.
THEOREM TypeCorrect == Spec => []TypeOK
<1>1. IndInv => TypeOK  BY DEF IndInv
<1>2. QED  BY <1>1, Invariance, PTL

\* Whatever requests are lost, repeated or served late, and wherever the
\* controller dies, the state file only says of a step what a worker reported,
\* and of the build what its steps add up to (build_control.py:104-138).
THEOREM RecordIsTrue == Spec => []RecordTellsTruth
<1>1. IndInv => RecordTellsTruth
  BY DEF IndInv, RecordsFit, RecordTellsTruth
<1>2. QED  BY <1>1, Invariance, PTL

\* No worker is ever offered a step before the one in front of it succeeded,
\* and one who picks up a ticket the controller waits for finds a workspace
\* (build_control.py:51-67, 115-135).
THEOREM StepsAreOrdered == Spec => []StepsInOrder
<1>1. ASSUME IndInv PROVE StepsInOrder
  <2>1. SUFFICES ASSUME NEW t \in Task, Live(t)
                 PROVE  /\ \A i \in 1 .. board[t].body.step - 1 : "success" \in outcome[i]
                        /\ Status(t) = "pending" /\ t \in Remembered => workspace \/ ~there
    BY DEF StepsInOrder
  <2>2. \A i \in 1 .. board[t].body.step - 1 : "success" \in outcome[i]
    BY <1>1, <2>1 DEF IndInv, BoardFits
  <2>3. t \in Remembered => t = fresh \/ \E i \in Index : tasks[i].id = t
    BY DEF Remembered
  <2>4. QED  BY <1>1, <2>1, <2>2, <2>3 DEF IndInv, WorkspaceFits
<1>2. QED  BY <1>1, Invariance, PTL

\* As many tickets are left behind on the board as requests went unanswered or
\* deletes failed and were answered 204 (sync.py:184-186), at most: neither a retry
\* of an answered request nor the end of a build leaves one
\* (build_control.py:94-101, 149-157).
THEOREM StraysAreFaults == Spec => []StraysBoundedByFaults
<1>1. ASSUME IndInv PROVE StraysBoundedByFaults
  <2>1. SUFFICES ASSUME state # "dead"
                 PROVE  Cardinality({t \in Task : Live(t) /\ t \notin Remembered}) <= losses + kept
    BY DEF StraysBoundedByFaults
  <2>2. state = "reported" => fresh = NoTask /\ \A i \in Index : tasks[i].id = NoTask
    BY <1>1 DEF IndInv, CallsFit, EndFits
  <2>3. {t \in Task : Live(t) /\ t \notin Remembered} = Strays
    <3>1. CASE state = "reported"
      BY <2>2, <3>1, ControlConstants DEF Remembered, Strays
    <3>2. CASE state # "reported"
      BY <3>2 DEF Remembered, Strays
    <3>3. QED  BY <3>1, <3>2
  <2>4. QED  BY <1>1, <2>3 DEF IndInv, LossesCount
<1>2. QED  BY <1>1, Invariance, PTL

\* A build's ticket leaves the board only when its end is in the state file
\* (build_control.py:140-157), unless the build was deleted or an older request
\* overwrote the record.
THEOREM TicketOutlivesBuild == Spec => []TicketStaysUntilRecorded
<1>1. ASSUME IndInv PROVE TicketStaysUntilRecorded
  BY <1>1 DEF IndInv, EndFits, Recorded, TicketStaysUntilRecorded
<1>2. QED  BY <1>1, Invariance, PTL

\* The downstream job is triggered for builds whose every step was reported a
\* success, once their success is recorded, and not before their ticket is gone
\* unless ZooKeeper failed to delete a ticket (build_control.py:159-171).
THEOREM DownstreamComesLast == Spec => []DownstreamAfterSuccess
<1>1. ASSUME IndInv PROVE DownstreamAfterSuccess
  <2>1. SUFFICES ASSUME downstream > 0
                 PROVE  /\ \A i \in Index : "success" \in outcome[i]
                        /\ ~there \/ record.result = "success" \/ relapses > 0
                        /\ mainTicket = "gone" \/ kept > 0
    BY DEF DownstreamAfterSuccess
  <2>2. (mainTicket = "gone" \/ kept > 0) /\ result = "success" /\ Recorded
    BY <1>1, <2>1 DEF IndInv, EndFits
  <2>3. \A i \in Index : tasks[i].status = "success"
    BY <1>1, <2>2 DEF IndInv, StepsFit
  <2>4. \A i \in Index : "success" \in outcome[i]
    BY <1>1, <2>3 DEF IndInv, TasksFit, Run!Final
  <2>5. QED  BY <2>2, <2>4 DEF Recorded
<1>2. QED  BY <1>1, Invariance, PTL

-----------------------------------------------------------------------------
(* Refinement *)

\* Every step is a step of BuildRun, or does not touch the state file.
LEMMA RunStep ==
    ASSUME IndInv, IndInv', [Next]_vars
    PROVE  Run!Advance \/ Run!Relapse \/ UNCHANGED <<record, relapses>>
<1>1. CASE UpdateBuildState
  <2>1. UNCHANGED relapses /\ (record' = record \/ record' = BuildState)
    BY <1>1 DEF UpdateBuildState, Answered, Unanswered, faults
  <2>2. CASE record' = record  BY <2>1, <2>2
  <2>3. CASE record' = BuildState
    <3>1. BuildState \in Run!Record /\ Run!Sound(BuildState)
      BY BuildStateTyped, BuildStateTrue DEF IndInv
    <3>2. Run!Later(record, BuildState)  BY DEF IndInv, RecordsFit
    <3>3. QED  BY <2>1, <2>3, <3>1, <3>2 DEF Run!Advance
  <2>4. QED  BY <2>1, <2>2, <2>3
<1>2. CASE ServeLate
  <2>1. PICK r \in late : IF there THEN record' = r /\ relapses' = relapses + 1
                                   ELSE UNCHANGED <<record, relapses>>
    BY <1>2 DEF ServeLate
  <2>2. r \in Run!Record /\ Run!Sound(r)  BY DEF IndInv, RecordsFit
  <2>3. QED  BY <2>1, <2>2 DEF Run!Relapse
<1>3. CASE \/ ClaimBuild \/ GetJobConfig \/ CreateWorkspace \/ SpawnUnknown \/ CreateTask
           \/ FillTask \/ PollTask \/ DeleteWorkspace \/ DeleteSubtask \/ DeleteMainTask
           \/ TriggerDownstream \/ DeleteBuild \/ CrashController
           \/ \E t \in Task : \/ ClaimSubtask(t) \/ RerunSubtask(t) \/ ReportSubtask(t)
                            \/ AbandonSubtask(t)
  <2>1. CASE \/ ClaimBuild \/ GetJobConfig \/ CreateWorkspace \/ SpawnUnknown
             \/ DeleteBuild \/ CrashController
    BY <2>1 DEF ClaimBuild, GetJobConfig, CreateWorkspace, SpawnUnknown, DeleteBuild,
                CrashController, Answered, Unanswered, storage, faults
  <2>2. CASE CreateTask \/ FillTask \/ PollTask
    BY <2>2 DEF CreateTask, FillTask, PollTask, Answered, Unanswered, storage, faults
  <2>3. CASE DeleteWorkspace \/ DeleteSubtask \/ DeleteMainTask \/ TriggerDownstream
    BY <2>3 DEF DeleteWorkspace, DeleteSubtask, DeleteMainTask, TriggerDownstream,
                Answered, AnsweredAnyway, Unanswered, storage, faults
  <2>4. CASE \E t \in Task : \/ ClaimSubtask(t) \/ RerunSubtask(t) \/ ReportSubtask(t)
                            \/ AbandonSubtask(t)
    BY <2>4 DEF ClaimSubtask, RerunSubtask, ReportSubtask, AbandonSubtask, storage, faults
  <2>5. QED  BY <1>3, <2>1, <2>2, <2>3, <2>4
<1>4. CASE UNCHANGED vars  BY <1>4 DEF vars, storage, faults
<1>5. QED  BY <1>1, <1>2, <1>3, <1>4 DEF Next, ControllerStep

\* The state file of a controller goes through the states of BuildRun: users
\* who read it see steps follow each other, results stay, and an older state
\* only where a late request put it back (build_control.py:104-157).
THEOREM Refinement == Spec => ImplementsBuildRun
<1>1. Init => record = Run!Triggered /\ relapses = 0  BY DEF Init
<1>2. IndInv /\ IndInv' /\ [Next]_vars
         => [Run!Advance \/ Run!Relapse]_<<record, relapses>>
  BY RunStep
<1>3. QED  BY <1>1, <1>2, Invariance, PTL DEF Spec, ImplementsBuildRun, Run!RunSpec
=============================================================================
