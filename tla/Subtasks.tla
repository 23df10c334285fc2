------------------------------ MODULE Subtasks ------------------------------
(***************************************************************************)
(* What the workers do between the claim and the report of a ticket: the   *)
(* subtasks of one build, one after the other (BuildControl), by the       *)
(* workers git_checkout, copy_artifacts, publish_artifacts and             *)
(* execute_shell.  They hand each other the build's workspace, an archive  *)
(* each fetches, unpacks, works on and sends back.  One worker at a time:  *)
(* one that claims a ticket after its end (TaskClaim) is left out.         *)
(*                                                                         *)
(* A step is one attempt of one request, or one look at the script that a  *)
(* shell worker has started, which runs beside it.  An attempt fails       *)
(* before or after it took effect, or halfway, and the client library says *)
(* only that it failed; any failed attempt may be the last of a pass.  The *)
(* worker dies of what it does not catch: the operating system's errors,   *)
(* and those of a reply that is cut in its body.                           *)
(***************************************************************************)
EXTENDS Integers, FiniteSets

CONSTANTS
    Length,      \* number of subtasks of the build
    Kind,        \* the kinds of subtasks that jobs use
    MaxOutput,   \* bound: pieces of output of a script
    MaxFiles,    \* bound: files that a publish finds
    MaxFaults,   \* bound: attempts that fail
    Link,        \* the mark of a workspace with a hard link in it
    Torn         \* a workspace archive that was cut in transfer

ASSUME SubtasksConstants ==
    /\ Length \in Nat \ {0}
    /\ Kind \subseteq {"git", "copy", "publish", "shell"}
    /\ MaxOutput \in Nat \ {0}
    /\ MaxFiles \in Nat
    /\ MaxFaults \in Nat

Step == 1 .. Length
Piece == 1 .. MaxOutput

\* The workspace is told by the subtasks whose work is in it.
Workspace == SUBSET (Step \cup {Link})

VARIABLES
    kind, timed,        \* the job: its subtasks, whether scripts have a timeout
    there,              \* FALSE: the build was deleted
    stored,             \* the workspace archive in the repository
    console,            \* console[i][k]: how often piece k of i is in the log
    artifacts, listed,  \* per subtask: artifacts stored, and named in its ticket
    files,              \* per subtask: files to publish that the worker came to
    result,             \* per subtask: what its ticket says
    step,               \* the subtask at work
    worker, script,     \* its worker, and the process that a shell worker started
    faults,             \* how many attempts failed
    repeated, dropped,  \* replies of the console lost, appends or output lost
    hollow              \* subtasks without work to keep: nothing to copy, or a
                        \* failed transfer that was passed over

Job == <<kind, timed, there>>
published == <<artifacts, files, listed>>
repository == <<stored, console, published, result>>
history == <<repeated, dropped, hollow>>
vars == <<Job, repository, step, worker, script, faults, history>>

Running == {"poll", "read", "push_some", "judge"}
Place == {"claimed", "locate", "fetch", "clone", "download", "upload", "start",
          "flush", "send", "push", "report", "end", "dead"} \cup Running

TypeOK ==
    /\ kind \in [Step -> Kind] /\ timed \in BOOLEAN /\ there \in BOOLEAN
    /\ stored \in Workspace \cup {Torn}
    /\ console \in [Step -> [Piece -> 0 .. MaxFaults + 1]]
    /\ artifacts \in [Step -> Nat]
    /\ listed \in [Step -> 0 .. MaxFiles] /\ files \in [Step -> 0 .. MaxFiles]
    /\ result \in [Step -> {"none", "success", "failure"}]
    /\ step \in Step
    /\ worker \in [pc : Place, outcome : {"success", "failure"}, local : Workspace,
                   log : SUBSET Piece, named : 0 .. MaxFiles, read : 0 .. MaxOutput,
                   retcode : {"running", "zero", "other"}]
    /\ script \in [state : {"none", "running", "zero", "other"},
                   made : 0 .. MaxOutput, clock : {"early", "due", "overdue"}]
    /\ faults \in 0 .. MaxFaults
    /\ repeated \in Nat /\ dropped \in Nat /\ repeated + dropped <= faults
    /\ hollow \in SUBSET {i \in Step : kind[i] # "shell"}
    /\ worker.pc \in Running => script.state # "none"

Fresh == [pc |-> "claimed", outcome |-> "success", local |-> {}, log |-> {},
          named |-> 0, read |-> 0, retcode |-> "running"]
NoScript == [state |-> "none", made |-> 0, clock |-> "early"]

\* BuildControl has stored an empty workspace.
Init ==
    /\ kind \in [Step -> Kind]
    /\ timed \in BOOLEAN /\ (timed => \E i \in Step : kind[i] = "shell")
    /\ there = TRUE
    /\ stored = {}
    /\ console = [i \in Step |-> [k \in Piece |-> 0]]
    /\ artifacts = [i \in Step |-> 0]
    /\ listed = [i \in Step |-> 0]
    /\ files = [i \in Step |-> 0]
    /\ result = [i \in Step |-> "none"]
    /\ step = 1
    /\ worker = Fresh
    /\ script = NoScript
    /\ faults = 0 /\ repeated = 0 /\ dropped = 0
    /\ hollow = {}

-----------------------------------------------------------------------------
Is(k) == kind[step] = k
At(place) == worker.pc = place
Go(place) == worker' = [worker EXCEPT !.pc = place]
Conclude(o, place) == worker' = [worker EXCEPT !.pc = place, !.outcome = o]

NoFault == UNCHANGED <<faults, history>>
Fault == faults < MaxFaults /\ faults' = faults + 1
QuietFault == Fault /\ UNCHANGED history

\* The parameters of the subtask.  A copy without a job is reported, and its
\* worker goes on until it dies of removing the assignee a second time.
CheckParameters ==
    /\ At("claimed")
    /\ \/ Go(IF Is("copy") THEN "locate" ELSE "fetch") /\ UNCHANGED result
       \/ Conclude("failure", "report") /\ UNCHANGED result
       \/ Is("copy") /\ result' = [result EXCEPT ![step] = "failure"] /\ Go("dead")
    /\ NoFault
    /\ UNCHANGED <<Job, stored, console, published, step, script>>

\* A successful build of the other job, and the artifacts asked for; whether
\* an answer cannot be had, or is cut, depends on the other job too.
Locate ==
    /\ At("locate")
    /\ \/ (Go("fetch") \/ Conclude("failure", "report")) /\ UNCHANGED hollow
       \/ Go("push") /\ hollow' = hollow \cup {step}
       \/ Go("dead") /\ UNCHANGED hollow
    /\ UNCHANGED <<faults, repeated, dropped>>
    /\ UNCHANGED <<Job, repository, step, script>>

AfterFetch == CASE Is("git") -> "clone" [] Is("copy") -> "download"
                [] Is("publish") -> "upload" [] Is("shell") -> "start"

FetchGivesUp == IF Is("shell") THEN Go("fetch") ELSE Conclude("failure", "report")

\* An archive with a hard link is refused; one that was cut, in the repository
\* or on its way, raises, and so may the unpacking of any.
FetchWorkspace ==
    /\ At("fetch")
    /\ \/ ~there /\ FetchGivesUp /\ NoFault
       \/ /\ there /\ stored # Torn /\ Link \notin stored
          /\ worker' = [worker EXCEPT !.pc = AfterFetch, !.local = stored]
          /\ NoFault
       \/ there /\ stored # Torn /\ Link \in stored /\ FetchGivesUp /\ NoFault
       \/ there /\ Go("dead") /\ NoFault
       \/ there /\ (FetchGivesUp \/ Go("fetch") \/ Go("dead")) /\ QuietFault
    /\ UNCHANGED <<Job, repository, step, script>>

\* git may not be there to be run.
Clone ==
    /\ At("clone")
    /\ \/ Go("dead")
       \/ worker' = [worker EXCEPT !.pc = "send", !.local = @ \cup {step}, !.log = {1}]
       \/ worker' = [worker EXCEPT !.pc = "push", !.outcome = "failure", !.log = {1}]
    /\ NoFault
    /\ UNCHANGED <<Job, repository, step, script>>

\* Whether a download worked is not looked at; the other build may be gone, a
\* target may be a directory, an artifact may be cut.
Download ==
    /\ At("download")
    /\ \/ /\ worker' = [worker EXCEPT !.pc = "send", !.local = @ \cup {step}, !.log = {1}]
          /\ hollow' \in {hollow, hollow \cup {step}}
       \/ Go("dead") /\ UNCHANGED hollow
    /\ UNCHANGED <<faults, repeated, dropped>>
    /\ UNCHANGED <<Job, repository, step, script>>

\* Broken: a file that could not be stored is only logged.
Harmless == "success"

UploadFailed == "failure"

Store == artifacts' = [artifacts EXCEPT ![step] = @ + 1]

\* The file at hand is done with: n = 1 if the ticket is to name it.
Through(n, o) ==
    /\ files' = [files EXCEPT ![step] = @ + 1]
    /\ worker' = [worker EXCEPT !.named = @ + n, !.outcome = o]

\* One attempt to store the next file that matches.  A match that cannot be
\* opened, as a directory, ends the worker.
UploadFile ==
    /\ files[step] < MaxFiles
    /\ \/ there /\ Store /\ Through(1, worker.outcome) /\ NoFault
       \/ /\ there /\ QuietFault
          /\ Store \/ UNCHANGED artifacts
          /\ \/ UNCHANGED <<files, worker>>
             \/ Through(0, UploadFailed)
             \/ UNCHANGED files /\ Go("dead")
       \/ ~there /\ Through(0, UploadFailed) /\ NoFault /\ UNCHANGED artifacts
       \/ Go("dead") /\ NoFault /\ UNCHANGED <<artifacts, files>>

Upload ==
    /\ At("upload")
    /\ \/ UploadFile
       \/ /\ worker' = [worker EXCEPT !.pc = "push", !.log = {1}]
          /\ NoFault /\ UNCHANGED <<artifacts, files>>
    /\ UNCHANGED <<Job, stored, console, listed, result, step, script>>

\* Broken: every worker takes a failed upload as lightly as git_checkout.
NeverMind == Go(IF Is("shell") THEN "report" ELSE "push")

SendGivesUp ==
    CASE Is("git") -> Go("push")
      [] Is("copy") -> Conclude("failure", "report")
      [] Is("shell") -> Go("flush")

SendFails ==
    SendGivesUp /\ hollow' = IF Is("git") THEN hollow \cup {step} ELSE hollow

\* Packs worker.local, which may raise, and sends it until it is answered 204.
SendWorkspace ==
    /\ At("send")
    /\ \/ /\ there /\ stored' = worker.local /\ NoFault
          /\ Go(IF Is("shell") THEN "report" ELSE "push")
       \/ /\ there /\ Fault /\ UNCHANGED <<repeated, dropped>>
          /\ stored' \in {stored, worker.local, Torn}
          /\ (Go("send") /\ UNCHANGED hollow) \/ SendFails
       \/ ~there /\ SendFails /\ UNCHANGED <<stored, faults, repeated, dropped>>
       \/ Go("dead") /\ NoFault /\ UNCHANGED stored
    /\ UNCHANGED <<Job, console, published, result, step, script>>

\* One append of the log to the console; answered 204 even if not written.
Write == console' = [console EXCEPT ![step] =
             [k \in Piece |-> @[k] + IF k \in worker.log THEN 1 ELSE 0]]

Appended(now) ==
    /\ there /\ worker' = now
    /\ \/ Write /\ NoFault
       \/ UNCHANGED console /\ Fault /\ dropped' = dropped + 1 /\ UNCHANGED <<repeated, hollow>>

NotAppended(now) ==
    /\ there /\ worker' = now
    /\ \/ UNCHANGED console /\ QuietFault
       \/ Write /\ Fault /\ repeated' = repeated + 1 /\ UNCHANGED <<dropped, hollow>>

\* The workers other than execute_shell.
PushLog ==
    /\ At("push")
    /\ \/ Appended([worker EXCEPT !.pc = "report"])
       \/ NotAppended([worker EXCEPT !.pc = "report"]) \/ NotAppended(worker)
       \/ ~there /\ Go("report") /\ NoFault /\ UNCHANGED console
    /\ UNCHANGED <<Job, stored, published, result, step, script>>

\* Next subtask, if this one succeeded and the state of the build can still be
\* recorded.  A report that fails in all attempts is forgotten, unless by a
\* shell worker.
Report ==
    /\ At("report")
    /\ \/ /\ result' = [result EXCEPT ![step] = worker.outcome]
          /\ listed' = [listed EXCEPT ![step] = worker.named]
          /\ NoFault
          /\ IF worker.outcome = "success" /\ step < Length /\ there
             THEN step' = step + 1 /\ worker' = Fresh /\ script' = NoScript
             ELSE Go("end") /\ UNCHANGED <<step, script>>
       \/ /\ QuietFault
          /\ Go(IF Is("shell") THEN "report" ELSE "end")
          /\ UNCHANGED <<result, listed, step, script>>
    /\ UNCHANGED <<Job, stored, console, artifacts, files>>

-----------------------------------------------------------------------------
(* The shell worker and its script *)

\* Broken: the process is watched before it is known to run.
WatchAnyway == Go("poll")

\* Popen raised an OSError.
NotStarted == Conclude("failure", "flush")

StartScript ==
    /\ At("start")
    /\ \/ Go("poll") /\ script' = [script EXCEPT !.state = "running"]
       \/ (NotStarted \/ Go("dead")) /\ UNCHANGED script
    /\ NoFault
    /\ UNCHANGED <<Job, repository, step>>

PollScript ==
    /\ At("poll")
    /\ worker' = [worker EXCEPT !.pc = "read", !.retcode = script.state]
    /\ NoFault
    /\ UNCHANGED <<Job, repository, step, script>>

\* Output since the last time; a decoding error loses all of it.
ReadOutput ==
    /\ At("read")
    /\ \/ /\ worker' = [worker EXCEPT !.pc = "push_some", !.read = script.made,
                           !.log = @ \cup (worker.read + 1 .. script.made)]
          /\ NoFault
       \/ /\ script.made > worker.read
          /\ worker' = [worker EXCEPT !.pc = "push_some", !.read = script.made]
          /\ Fault /\ dropped' = dropped + 1 /\ UNCHANGED <<repeated, hollow>>
    /\ UNCHANGED <<Job, repository, step, script>>

Cleared(place) == [worker EXCEPT !.pc = place, !.log = {}]

\* push_console_log while the script runs: at the next look if not now, or if
\* the build is gone.
PushSome ==
    /\ At("push_some")
    /\ IF worker.log = {} \/ ~there THEN Go("judge") /\ NoFault /\ UNCHANGED console
       ELSE Appended(Cleared("judge")) \/ NotAppended([worker EXCEPT !.pc = "judge"])
    /\ UNCHANGED <<Job, stored, published, result, step, script>>

\* ... and before the report: until it is answered 204, which a build that was
\* deleted never is.
Flush ==
    /\ At("flush")
    /\ IF worker.log = {} THEN Go("send") /\ NoFault /\ UNCHANGED console
       ELSE Appended(Cleared("send")) \/ NotAppended(worker)
    /\ UNCHANGED <<Job, stored, published, result, step, script>>

\* Broken: the script is asked again, and never killed.
AskAgain == script.state
NoKill == FALSE

Polled == worker.retcode

KillDue == timed /\ script.clock = "overdue"

\* SIGTERM, from the timeout on, is up to the script; SIGKILL a minute later.
Judge ==
    /\ At("judge")
    /\ \/ Polled = "zero" /\ Conclude("success", "flush") /\ UNCHANGED script
       \/ Polled = "other" /\ Conclude("failure", "flush") /\ UNCHANGED script
       \/ /\ Polled = "running" /\ Go("poll")
          /\ script' = IF KillDue /\ script.state = "running"
                       THEN [script EXCEPT !.state = "other"] ELSE script
    /\ NoFault
    /\ UNCHANGED <<Job, repository, step>>

Emit ==
    /\ script.made < MaxOutput
    /\ script' = [script EXCEPT !.made = @ + 1]
    /\ UNCHANGED worker

\* What a script that succeeds leaves in the workspace.
Exit ==
    \/ /\ script' = [script EXCEPT !.state = "zero"]
       /\ \E link \in {{}, {Link}} :
             worker' = [worker EXCEPT !.local = @ \cup {step} \cup link]
    \/ script' = [script EXCEPT !.state = "other"] /\ UNCHANGED worker

ScriptStep ==
    /\ script.state = "running"
    /\ Emit \/ Exit
    /\ NoFault
    /\ UNCHANGED <<Job, repository, step>>

\* Time is told by the timeout.
Tick ==
    /\ timed /\ script.state = "running" /\ script.clock # "overdue"
    /\ script' = [script EXCEPT !.clock = IF @ = "early" THEN "due" ELSE "overdue"]
    /\ NoFault
    /\ UNCHANGED <<Job, repository, step, worker>>

-----------------------------------------------------------------------------
WorkerStep ==
    \/ CheckParameters \/ Locate \/ FetchWorkspace \/ Clone \/ Download \/ Upload
    \/ SendWorkspace \/ PushLog \/ Report
    \/ StartScript \/ PollScript \/ ReadOutput \/ PushSome \/ Flush \/ Judge

\* Somebody deletes the build, as a whole; its number is not given again.
DeleteBuild ==
    /\ there
    /\ there' = FALSE
    /\ UNCHANGED <<kind, timed, repository, step, worker, script, faults, history>>

Next == WorkerStep \/ ScriptStep \/ Tick \/ DeleteBuild

Spec == Init /\ [][Next]_vars

\* Workers are loops without exit, and time goes on; scripts may do nothing.
FairSpec == Spec /\ WF_vars(WorkerStep) /\ WF_vars(Tick)

-----------------------------------------------------------------------------
(* Properties *)

\* The work of a subtask that was reported successful is in the stored workspace
\* from then on, through all later fetches and uploads, unless an upload was cut:
\* for shell always (execute_shell.py:153-160), for git and copy if no transfer
\* was passed over (git_checkout.py:98, copy_artifacts.py:111-121).
WorkIsKept ==
    stored # Torn =>
        \A i \in Step \ hollow :
            result[i] = "success" /\ kind[i] # "publish"
            => i \in stored

\* When a shell subtask is reported, each piece of its script's output is in the
\* console log, but for appends and readings that went wrong on the other side,
\* and more than once only as often as replies were lost (execute_shell.py:89-125).
OutputOnce ==
    /\ \A i \in Step : \A k \in Piece : console[i][k] <= 1 + repeated
    /\ worker.pc \in {"report", "send"} /\ Is("shell") =>
          \A k \in 1 .. script.made : console[step][k] + dropped >= 1

\* A publish that reports success names every file it found, and artifacts that
\* a reported ticket does not name are left by attempts that failed, whatever
\* became of the other files (publish_artifacts.py:59-100).
ArtifactsAreNamed ==
    \A i \in Step : kind[i] = "publish" =>
        /\ result[i] = "success" => listed[i] = files[i]
        /\ result[i] # "none" => artifacts[i] <= listed[i] + faults

\* A script with a timeout that was started gets reported, whatever it does, and
\* through every failure of the frontends that ends; unless its worker dies of
\* packing the workspace, or the build is deleted, which is then asked for ever
\* to take the log or the workspace (execute_shell.py:126-164).
ScriptsEnd ==
    \A i \in Step :
        timed /\ step = i /\ worker.pc \in Running
        ~> result[i] # "none" \/ worker.pc = "dead" \/ ~there
=============================================================================
