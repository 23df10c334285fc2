---------------------------- MODULE SubtasksProofs ----------------------------
(***************************************************************************)
(* Proofs about Subtasks, for builds of any number of subtasks, scripts    *)
(* with any amount of output and any number of failed attempts.            *)
(***************************************************************************)
EXTENDS Subtasks, TLAPS

\* Places from which the worker may still send its copy of the workspace.
Working == {"clone", "download", "upload", "start", "flush", "send"} \cup Running

\* Each kind of worker is only where its code takes it.
PlacesFit ==
    /\ worker.pc \in {"locate", "download"} => Is("copy")
    /\ worker.pc = "clone" => Is("git")
    /\ worker.pc = "upload" => Is("publish")
    /\ worker.pc \in {"start", "flush"} \cup Running => Is("shell")
    /\ worker.pc = "send" => ~Is("publish")
    /\ worker.pc = "push" => ~Is("shell")

\* A script is asked until its exit is known, its return code is final, and
\* nothing that was not started has put anything out.
ScriptFits ==
    /\ script.state # "none" =>
          /\ worker.pc \in Running \cup {"flush", "send", "report", "end", "dead"}
          /\ Is("shell")
    /\ script.state = "none" => script.made = 0
    /\ script.state = "running" => worker.pc \in Running
    /\ worker.retcode # "running" => worker.retcode = script.state

\* Nothing is known of a subtask before its turn.
LaterAreBlank == \A i \in Step : i > step =>
    /\ result[i] = "none" /\ artifacts[i] = 0 /\ files[i] = 0 /\ i \notin hollow
    /\ \A k \in Piece : console[i][k] = 0

\* The subtask at work has no result before its worker is through.
ResultsComeLast == worker.pc \notin {"end", "dead"} => result[step] = "none"

\* What WorkIsKept says of a workspace.
HasWork(w) == \A i \in Step \ hollow :
    result[i] = "success" /\ kind[i] # "publish" => i \in w

\* The worker's copy has what the stored one has to keep.
CopyIsWhole == worker.pc \in Working => HasWork(worker.local)

\* The worker's own work is there when it is sent as a success; it was stored
\* when that is reported.
WorkTravels ==
    /\ script.state = "zero" => step \in worker.local
    /\ worker.pc \in {"flush", "send"} /\ Is("shell") /\ worker.outcome = "success"
          => script.state = "zero"
    /\ worker.pc = "send" /\ ~Is("shell") => step \in worker.local
    /\ /\ worker.pc \in {"push", "report"} /\ worker.outcome = "success"
       /\ ~Is("publish") /\ step \notin hollow /\ stored # Torn
       => step \in stored

\* A piece of output that is to be sent was not appended more often than
\* replies were lost.
LogIsNew ==
    /\ worker.pc \in {"claimed", "locate", "fetch", "clone", "download", "upload", "start"}
          => worker.log = {} /\ \A k \in Piece : console[step][k] = 0
    /\ worker.pc = "send" /\ ~Is("shell") => \A k \in Piece : console[step][k] = 0
    /\ worker.pc \notin {"report", "end", "dead"}
          => \A k \in worker.log : console[step][k] <= repeated

FewRepeats == \A i \in Step : \A k \in Piece : console[i][k] <= 1 + repeated

\* A piece of a script's output is unread, or in the log to be sent, or was
\* appended, or went wrong; in the end all of it was read and sent.
PiecesTravel == Is("shell") =>
    /\ worker.read <= script.made
    /\ \A k \in Piece : k > worker.read => k \notin worker.log /\ console[step][k] = 0
    /\ \A k \in 1 .. worker.read : k \in worker.log \/ console[step][k] + dropped >= 1
    /\ worker.pc \in {"send", "report"} => worker.log = {}
    /\ \/ worker.pc \in {"flush", "send", "report"}
       \/ worker.pc \in {"push_some", "judge"} /\ worker.retcode # "running"
       => worker.read = script.made

\* The worker can name every artifact that an answered attempt stored, and has
\* failed if there is a file for which it cannot.
NamesTravel == worker.pc \notin {"end", "dead"} /\ Is("publish") =>
    /\ artifacts[step] <= worker.named + faults
    /\ worker.named <= files[step]
    /\ worker.outcome = "success" => worker.named = files[step]

IndInv ==
    /\ TypeOK
    /\ PlacesFit
    /\ ScriptFits
    /\ LaterAreBlank
    /\ ResultsComeLast
    /\ CopyIsWhole
    /\ WorkTravels
    /\ LogIsNew
    /\ PiecesTravel
    /\ NamesTravel
    /\ WorkIsKept
    /\ FewRepeats
    /\ ArtifactsAreNamed

WorkerState == [pc : Place, outcome : {"success", "failure"}, local : Workspace,
                log : SUBSET Piece, named : 0 .. MaxFiles, read : 0 .. MaxOutput,
                retcode : {"running", "zero", "other"}]

\* The worker goes from p to q; luggage: what it has besides its outcome.
Luggage == <<worker.local, worker.log, worker.named, worker.read, worker.retcode>>
Moves(q) == worker'.pc = q /\ worker'.outcome = worker.outcome /\ UNCHANGED Luggage
Concludes(o, q) == worker'.pc = q /\ worker'.outcome = o /\ UNCHANGED Luggage

\* Going to another place changes nothing else of the worker.
LEMMA WorkerMoves ==
    ASSUME worker \in WorkerState, NEW q \in Place
    PROVE  /\ Go(q) => worker' \in WorkerState /\ Moves(q)
           /\ \A o \in {"success", "failure"} :
                 Conclude(o, q) => worker' \in WorkerState /\ Concludes(o, q)
BY DEF Go, Conclude, WorkerState, Moves, Concludes, Luggage

\* The types of an inductive step, one by one.
LEMMA Typed ==
    ASSUME IndInv
    PROVE  /\ worker \in WorkerState
           /\ worker.pc \in Place /\ worker.local \in Workspace /\ worker.log \subseteq Piece
           /\ worker.read \in 0 .. MaxOutput /\ worker.retcode \in {"running", "zero", "other"}
           /\ script.made \in 0 .. MaxOutput /\ script.state \in {"none", "running", "zero", "other"}
           /\ step \in Step /\ step \in Nat /\ {1} \in SUBSET Piece
           /\ \A i \in Step : i > step => i # step
           /\ worker.local \cup {step} \in Workspace
           /\ kind[step] \in {"git", "copy", "publish", "shell"}
           /\ stored \in Workspace \cup {Torn}
           /\ console \in [Step -> [Piece -> Nat]]
           /\ artifacts \in [Step -> Nat]
           /\ listed \in [Step -> 0 .. MaxFiles] /\ files \in [Step -> 0 .. MaxFiles]
           /\ worker.named \in 0 .. MaxFiles /\ MaxFiles \in Nat
           /\ result \in [Step -> {"none", "success", "failure"}]
           /\ faults \in Nat /\ repeated \in Nat /\ dropped \in Nat
           /\ faults <= MaxFaults /\ repeated + dropped <= faults /\ MaxFaults \in Nat
           /\ hollow \subseteq {i \in Step : kind[i] # "shell"}
<1> USE DEF IndInv, TypeOK
<1>1. /\ worker \in WorkerState
      /\ worker.pc \in Place /\ worker.local \in Workspace /\ worker.log \subseteq Piece
      /\ worker.read \in 0 .. MaxOutput /\ worker.retcode \in {"running", "zero", "other"}
      /\ worker.named \in 0 .. MaxFiles /\ MaxFiles \in Nat
      /\ script.made \in 0 .. MaxOutput /\ script.state \in {"none", "running", "zero", "other"}
    BY SubtasksConstants DEF WorkerState
<1>2. console \in [Step -> [Piece -> Nat]]
    BY SubtasksConstants
<1>3. artifacts \in [Step -> Nat]
    BY SubtasksConstants
<1>4. /\ step \in Step /\ step \in Nat /\ {1} \in SUBSET Piece
      /\ \A i \in Step : i > step => i # step
      /\ faults \in Nat /\ faults <= MaxFaults /\ MaxFaults \in Nat
    BY SubtasksConstants DEF Step, Piece
<1>5. kind[step] \in {"git", "copy", "publish", "shell"}
    BY <1>4, SubtasksConstants
<1>6. worker.local \cup {step} \in Workspace
    BY <1>1, <1>4 DEF Workspace
<1> QED BY <1>1, <1>2, <1>3, <1>4, <1>5, <1>6

\* The parameters: only the last copy without a job has a result.
LEMMA CheckParametersStep ==
    ASSUME IndInv, CheckParameters
    PROVE  IndInv'
<1> USE DEF IndInv
<1>1. /\ worker.pc = "claimed"
    BY Typed DEF CheckParameters, At
<1>2. /\ worker' \in WorkerState
      /\ \/ Moves("locate") /\ Is("copy") /\ UNCHANGED result
         \/ Moves("fetch") /\ ~Is("copy") /\ UNCHANGED result
         \/ Concludes("failure", "report") /\ UNCHANGED result
         \/ Moves("dead") /\ Is("copy") /\ result' = [result EXCEPT ![step] = "failure"]
  <2>1. worker' \in WorkerState
      BY <1>1, Typed, WorkerMoves DEF CheckParameters, Place
  <2> QED
      BY <1>1, <2>1, Typed, WorkerMoves DEF CheckParameters, Place
<1>3. UNCHANGED <<kind, timed, there, stored, console, artifacts, files, listed, step, script, faults, repeated, dropped, hollow>>
    BY DEF CheckParameters, NoFault, Job, published, history
<1> USE <1>1, <1>2, <1>3 DEF Moves, Concludes, Luggage
<1>4. TypeOK'
    BY SubtasksConstants, Typed DEF TypeOK, WorkerState, Running
<1>5. PlacesFit'
    BY Typed DEF PlacesFit, Is, Running
<1>6. ScriptFits'
    BY Typed DEF ScriptFits, Is, Running
<1>7. LaterAreBlank'
  <2>1. \A i \in Step : i > step => result'[i] = result[i]
      BY Typed
  <2> QED BY <2>1 DEF LaterAreBlank
<1>8. ResultsComeLast'
    BY Typed DEF ResultsComeLast
<1>9. CopyIsWhole'
    BY Typed DEF CopyIsWhole, Working, Running, HasWork
<1>10. WorkTravels'
    BY Typed DEF WorkTravels, ScriptFits, PlacesFit, Is, Running
<1>11. LogIsNew'
    BY Typed DEF LogIsNew, Is
<1>12. PiecesTravel'
    BY Typed DEF PiecesTravel, LogIsNew, ScriptFits, PlacesFit, Running, Is
<1>13. NamesTravel'
    BY Typed DEF NamesTravel, PlacesFit, Is
<1>14. WorkIsKept'
    BY Typed DEF WorkIsKept, HasWork
<1>15. FewRepeats'
    BY Typed DEF FewRepeats
<1>16. ArtifactsAreNamed'
    BY Typed DEF ArtifactsAreNamed, NamesTravel, LaterAreBlank, Is
<1> QED BY <1>4, <1>5, <1>6, <1>7, <1>8, <1>9, <1>10, <1>11, <1>12, <1>13, <1>14, <1>15, <1>16

\* Locating artifacts: a copy that has none is without work to keep.
LEMMA LocateStep ==
    ASSUME IndInv, Locate
    PROVE  IndInv'
<1> USE DEF IndInv
<1>1. /\ worker.pc = "locate" /\ Is("copy")
    BY Typed DEF Locate, At, IndInv, PlacesFit
<1>2. /\ worker' \in WorkerState
      /\ \/ Moves("fetch") /\ UNCHANGED hollow
         \/ Concludes("failure", "report") /\ UNCHANGED hollow
         \/ Moves("push") /\ hollow' = hollow \cup {step}
         \/ Moves("dead") /\ UNCHANGED hollow
  <2>1. worker' \in WorkerState
      BY <1>1, Typed, WorkerMoves DEF Locate, Place
  <2> QED
      BY <1>1, <2>1, Typed, WorkerMoves DEF Locate, Place
<1>3. UNCHANGED <<kind, timed, there, stored, console, artifacts, files, listed, result, step, script, faults, repeated, dropped>>
    BY DEF Locate, Job, repository, published
<1> USE <1>1, <1>2, <1>3 DEF Moves, Concludes, Luggage
<1>4. TypeOK'
  <2>1. hollow' \in SUBSET {i \in Step : kind'[i] # "shell"}
      BY Typed DEF Is
  <2> QED BY <2>1, Typed, SubtasksConstants DEF TypeOK, WorkerState, Running
<1>5. PlacesFit'
    BY Typed DEF PlacesFit, Is, Running
<1>6. ScriptFits'
    BY Typed DEF ScriptFits, Is, Running
<1>7. LaterAreBlank'
    BY Typed DEF LaterAreBlank
<1>8. ResultsComeLast'
    BY Typed DEF ResultsComeLast
<1>9. CopyIsWhole'
    BY Typed DEF CopyIsWhole, Working, Running, HasWork
<1>10. WorkTravels'
    BY Typed DEF WorkTravels, ScriptFits, PlacesFit, Is, Running
<1>11. LogIsNew'
    BY Typed DEF LogIsNew, Is
<1>12. PiecesTravel'
    BY Typed DEF PiecesTravel, LogIsNew, ScriptFits, PlacesFit, Running, Is
<1>13. NamesTravel'
    BY Typed DEF NamesTravel, PlacesFit, Is
<1>14. WorkIsKept'
    BY Typed DEF WorkIsKept, HasWork
<1>15. FewRepeats'
    BY Typed DEF FewRepeats
<1>16. ArtifactsAreNamed'
    BY Typed DEF ArtifactsAreNamed, NamesTravel, LaterAreBlank, Is
<1> QED BY <1>4, <1>5, <1>6, <1>7, <1>8, <1>9, <1>10, <1>11, <1>12, <1>13, <1>14, <1>15, <1>16

\* A fetched workspace has what the stored one has to keep.
LEMMA FetchWorkspaceStep ==
    ASSUME IndInv, FetchWorkspace
    PROVE  IndInv'
<1> USE DEF IndInv
<1>1. /\ worker.pc = "fetch"
    BY Typed DEF FetchWorkspace, At
<1>2. /\ worker' \in WorkerState
      /\ \/ /\ \/ worker'.pc = "clone" /\ Is("git")
               \/ worker'.pc = "download" /\ Is("copy")
               \/ worker'.pc = "upload" /\ Is("publish")
               \/ worker'.pc = "start" /\ Is("shell")
            /\ worker'.local = stored /\ stored # Torn
            /\ UNCHANGED <<worker.outcome, worker.log, worker.named, worker.read, worker.retcode>>
         \/ Moves("fetch") \/ Moves("dead")
         \/ Concludes("failure", "report") /\ ~Is("shell")
      /\ faults' \in Nat /\ faults <= faults' /\ faults' <= MaxFaults
  <2>1. \/ worker' = [worker EXCEPT !.pc = AfterFetch, !.local = stored] /\ stored # Torn
        \/ Go("fetch")
        \/ Go("dead")
        \/ Conclude("failure", "report") /\ ~Is("shell")
      BY DEF FetchWorkspace, FetchGivesUp
  <2>2. /\ AfterFetch \in Place
        /\ \/ AfterFetch = "clone" /\ Is("git")
           \/ AfterFetch = "download" /\ Is("copy")
           \/ AfterFetch = "upload" /\ Is("publish")
           \/ AfterFetch = "start" /\ Is("shell")
      BY Typed DEF AfterFetch, Is, Place
  <2>3. {"fetch", "dead", "report"} \subseteq Place
      BY DEF Place
  <2>4. faults' \in Nat /\ faults <= faults' /\ faults' <= MaxFaults
      BY Typed DEF FetchWorkspace, NoFault, QuietFault, Fault
  <2>5. CASE worker' = [worker EXCEPT !.pc = AfterFetch, !.local = stored] /\ stored # Torn
      BY <2>2, <2>4, <2>5, Typed DEF WorkerState
  <2> QED BY <2>1, <2>3, <2>4, <2>5, WorkerMoves, Typed
<1>3. UNCHANGED <<kind, timed, there, stored, console, artifacts, files, listed, result, step, script, repeated, dropped, hollow>>
    BY DEF FetchWorkspace, NoFault, QuietFault, Fault, Job, repository, published, history
<1> USE <1>1, <1>2, <1>3 DEF Moves, Concludes, Luggage
<1>4. TypeOK'
    BY SubtasksConstants, Typed DEF TypeOK, WorkerState, Running
<1>5. PlacesFit'
    BY Typed DEF PlacesFit, Is, Running
<1>6. ScriptFits'
    BY Typed DEF ScriptFits, Is, Running
<1>7. LaterAreBlank'
    BY Typed DEF LaterAreBlank
<1>8. ResultsComeLast'
    BY Typed DEF ResultsComeLast
<1>9. CopyIsWhole'
  <2>1. stored # Torn => HasWork(stored)
      BY DEF WorkIsKept, HasWork
  <2>2. HasWork(worker.local)' <=> HasWork(worker'.local)
      BY DEF HasWork
  <2> QED BY <2>1, <2>2 DEF CopyIsWhole, Working, Running
<1>10. WorkTravels'
    BY Typed DEF WorkTravels, ScriptFits, PlacesFit, Is, Running
<1>11. LogIsNew'
    BY Typed DEF LogIsNew, Is
<1>12. PiecesTravel'
    BY Typed DEF PiecesTravel, LogIsNew, ScriptFits, PlacesFit, Running, Is
<1>13. NamesTravel'
    BY Typed DEF NamesTravel, PlacesFit, Is
<1>14. WorkIsKept'
    BY Typed DEF WorkIsKept, HasWork
<1>15. FewRepeats'
    BY Typed DEF FewRepeats
<1>16. ArtifactsAreNamed'
    BY Typed DEF ArtifactsAreNamed, NamesTravel, LaterAreBlank, Is
<1> QED BY <1>4, <1>5, <1>6, <1>7, <1>8, <1>9, <1>10, <1>11, <1>12, <1>13, <1>14, <1>15, <1>16

\* A clone is part of the workspace, or the subtask failed.
LEMMA CloneStep ==
    ASSUME IndInv, Clone
    PROVE  IndInv'
<1> USE DEF IndInv
<1>1. /\ worker.pc = "clone" /\ Is("git")
    BY Typed DEF Clone, At, IndInv, PlacesFit
<1>2. /\ worker' \in WorkerState
      /\ UNCHANGED <<worker.named, worker.read, worker.retcode>>
      /\ \/ /\ worker'.pc = "send" /\ worker'.log = {1} /\ UNCHANGED worker.outcome
            /\ worker'.local = worker.local \cup {step}
         \/ /\ worker'.pc = "push" /\ worker'.log = {1} /\ worker'.outcome = "failure"
            /\ UNCHANGED worker.local
         \/ Moves("dead")
  <2>1. CASE Go("dead")
      BY <2>1, Typed, WorkerMoves DEF Place, Moves, Luggage
  <2>2. CASE worker' = [worker EXCEPT !.pc = "send", !.local = @ \cup {step}, !.log = {1}]
      BY <2>2, Typed DEF WorkerState, Place
  <2>3. CASE worker' = [worker EXCEPT !.pc = "push", !.outcome = "failure", !.log = {1}]
      BY <2>3, Typed DEF WorkerState, Place
  <2> QED BY <2>1, <2>2, <2>3 DEF Clone
<1>3. UNCHANGED <<kind, timed, there, stored, console, artifacts, files, listed, result, step, script, faults, repeated, dropped, hollow>>
    BY DEF Clone, NoFault, Job, repository, published, history
<1> USE <1>1, <1>2, <1>3 DEF Moves, Concludes, Luggage
<1>4. TypeOK'
    BY SubtasksConstants, Typed DEF TypeOK, WorkerState, Running
<1>5. PlacesFit'
    BY Typed DEF PlacesFit, Is, Running
<1>6. ScriptFits'
    BY Typed DEF ScriptFits, Is, Running
<1>7. LaterAreBlank'
    BY Typed DEF LaterAreBlank
<1>8. ResultsComeLast'
    BY Typed DEF ResultsComeLast
<1>9. CopyIsWhole'
    BY Typed DEF CopyIsWhole, Working, Running, HasWork
<1>10. WorkTravels'
    BY Typed DEF WorkTravels, ScriptFits, PlacesFit, Is, Running
<1>11. LogIsNew'
    BY Typed DEF LogIsNew, Is
<1>12. PiecesTravel'
    BY Typed DEF PiecesTravel, LogIsNew, ScriptFits, PlacesFit, Running, Is
<1>13. NamesTravel'
    BY Typed DEF NamesTravel, PlacesFit, Is
<1>14. WorkIsKept'
    BY Typed DEF WorkIsKept, HasWork
<1>15. FewRepeats'
    BY Typed DEF FewRepeats
<1>16. ArtifactsAreNamed'
    BY Typed DEF ArtifactsAreNamed, NamesTravel, LaterAreBlank, Is
<1> QED BY <1>4, <1>5, <1>6, <1>7, <1>8, <1>9, <1>10, <1>11, <1>12, <1>13, <1>14, <1>15, <1>16

\* A download is part of the workspace, or passed over.
LEMMA DownloadStep ==
    ASSUME IndInv, Download
    PROVE  IndInv'
<1> USE DEF IndInv
<1>1. /\ worker.pc = "download" /\ Is("copy")
    BY Typed DEF Download, At, IndInv, PlacesFit
<1>2. /\ worker' \in WorkerState
      /\ \/ /\ worker'.pc = "send" /\ worker'.local = worker.local \cup {step}
            /\ worker'.log = {1}
            /\ UNCHANGED <<worker.named, worker.read, worker.retcode, worker.outcome>>
            /\ hollow' = hollow \/ hollow' = hollow \cup {step}
         \/ Moves("dead") /\ UNCHANGED hollow
  <2>1. worker' \in WorkerState
      BY <1>1, Typed, WorkerMoves DEF Download, WorkerState, Place, Piece, Workspace
  <2> QED
      BY <1>1, <2>1, Typed, WorkerMoves DEF Download, WorkerState, Place, Piece, Workspace
<1>3. UNCHANGED <<kind, timed, there, stored, console, artifacts, files, listed, result, step, script, faults, repeated, dropped>>
    BY DEF Download, Job, repository, published
<1> USE <1>1, <1>2, <1>3 DEF Moves, Concludes, Luggage
<1>4. TypeOK'
  <2>1. hollow' \in SUBSET {i \in Step : kind'[i] # "shell"}
      BY Typed DEF Is
  <2> QED BY <2>1, Typed, SubtasksConstants DEF TypeOK, WorkerState, Running
<1>5. PlacesFit'
    BY Typed DEF PlacesFit, Is, Running
<1>6. ScriptFits'
    BY Typed DEF ScriptFits, Is, Running
<1>7. LaterAreBlank'
    BY Typed DEF LaterAreBlank
<1>8. ResultsComeLast'
    BY Typed DEF ResultsComeLast
<1>9. CopyIsWhole'
    BY Typed DEF CopyIsWhole, Working, Running, HasWork
<1>10. WorkTravels'
    BY Typed DEF WorkTravels, ScriptFits, PlacesFit, Is, Running
<1>11. LogIsNew'
    BY Typed DEF LogIsNew, Is
<1>12. PiecesTravel'
    BY Typed DEF PiecesTravel, LogIsNew, ScriptFits, PlacesFit, Running, Is
<1>13. NamesTravel'
    BY Typed DEF NamesTravel, PlacesFit, Is
<1>14. WorkIsKept'
    BY Typed DEF WorkIsKept, HasWork
<1>15. FewRepeats'
    BY Typed DEF FewRepeats
<1>16. ArtifactsAreNamed'
    BY Typed DEF ArtifactsAreNamed, NamesTravel, LaterAreBlank, Is
<1> QED BY <1>4, <1>5, <1>6, <1>7, <1>8, <1>9, <1>10, <1>11, <1>12, <1>13, <1>14, <1>15, <1>16

\* A file is named in the ticket or taken as a failure.
LEMMA ThroughDoes ==
    ASSUME IndInv, Is("publish"), worker.pc = "upload", files[step] < MaxFiles,
           NEW n \in {0, 1}, NEW o \in {"success", "failure"}, Through(n, o)
    PROVE  /\ worker' \in WorkerState
           /\ UNCHANGED <<worker.pc, worker.local, worker.log, worker.read, worker.retcode>>
           /\ worker'.named = worker.named + n /\ worker'.outcome = o
           /\ files' \in [Step -> 0 .. MaxFiles]
           /\ files' = [files EXCEPT ![step] = @ + 1]
<1>1. /\ worker \in WorkerState /\ worker.named \in Nat /\ worker.named <= files[step]
      /\ files \in [Step -> 0 .. MaxFiles] /\ files[step] \in 0 .. MaxFiles
      /\ step \in Step /\ MaxFiles \in Nat
    BY Typed DEF IndInv, NamesTravel
<1>2. worker.named + n \in 0 .. MaxFiles /\ files[step] + 1 \in 0 .. MaxFiles
    BY <1>1
<1>3. worker' = [worker EXCEPT !.named = worker.named + n, !.outcome = o]
    BY <1>1 DEF Through
<1>4. files' = [files EXCEPT ![step] = files[step] + 1]
    BY <1>1 DEF Through
<1> QED BY <1>1, <1>2, <1>3, <1>4 DEF WorkerState

\* An artifact more, that gets named, or is left behind by a failed attempt.
LEMMA UploadStep ==
    ASSUME IndInv, Upload
    PROVE  IndInv'
<1> USE DEF IndInv
<1>1. /\ worker.pc = "upload" /\ Is("publish")
    BY Typed DEF Upload, At, IndInv, PlacesFit
<1>2. /\ worker' \in WorkerState
      /\ UNCHANGED <<worker.local, worker.read, worker.retcode>>
      /\ \/ worker'.pc \in {"upload", "dead"} /\ UNCHANGED worker.log
         \/ worker'.pc = "push" /\ worker'.log = {1}
      /\ \/ /\ worker'.named = worker.named + 1 /\ UNCHANGED <<worker.outcome, faults>>
            /\ artifacts' = [artifacts EXCEPT ![step] = @ + 1]
            /\ files' = [files EXCEPT ![step] = @ + 1]
         \/ /\ UNCHANGED worker.named
            /\ \/ UNCHANGED <<worker.outcome, files>>
               \/ worker'.outcome = "failure" /\ files' = [files EXCEPT ![step] = @ + 1]
            /\ \/ UNCHANGED artifacts /\ faults' \in {faults, faults + 1}
               \/ artifacts' = [artifacts EXCEPT ![step] = @ + 1] /\ faults' = faults + 1
      /\ faults' <= MaxFaults
      /\ files' \in [Step -> 0 .. MaxFiles]
  <2>1. /\ worker \in WorkerState /\ {"push", "dead"} \subseteq Place /\ {1} \in SUBSET Piece
        /\ worker.outcome \in {"success", "failure"} /\ files \in [Step -> 0 .. MaxFiles]
        /\ faults \in Nat /\ faults <= MaxFaults /\ MaxFaults \in Nat
        /\ worker.named \in Nat
      BY Typed DEF Place, WorkerState
  <2>2. \A n \in {0, 1}, o \in {"success", "failure"} :
           files[step] < MaxFiles /\ Through(n, o) =>
               /\ worker' \in WorkerState
               /\ UNCHANGED <<worker.pc, worker.local, worker.log, worker.read, worker.retcode>>
               /\ worker'.named = worker.named + n /\ worker'.outcome = o
               /\ files' \in [Step -> 0 .. MaxFiles]
               /\ files' = [files EXCEPT ![step] = @ + 1]
      BY <1>1, ThroughDoes
  <2>3. Go("dead") => worker' \in WorkerState /\ Moves("dead")
      BY <2>1, WorkerMoves
  <2> HIDE DEF IndInv
  <2>4. CASE /\ worker' = [worker EXCEPT !.pc = "push", !.log = {1}]
             /\ NoFault /\ UNCHANGED <<artifacts, files>>
      BY <2>1, <2>4 DEF WorkerState, NoFault
  <2>5. CASE files[step] < MaxFiles /\ Store /\ Through(1, worker.outcome) /\ NoFault
      BY <1>1, <2>1, <2>2, <2>5 DEF Store, NoFault
  <2>6. CASE files[step] < MaxFiles /\ Through(0, "failure") /\ NoFault /\ UNCHANGED artifacts
      BY <1>1, <2>1, <2>2, <2>6 DEF NoFault
  <2>7. CASE Go("dead") /\ NoFault /\ UNCHANGED <<artifacts, files>>
      BY <2>1, <2>3, <2>7 DEF NoFault, Moves, Luggage
  <2>8. CASE /\ files[step] < MaxFiles /\ QuietFault
             /\ Store \/ UNCHANGED artifacts
             /\ \/ UNCHANGED <<files, worker>>
                \/ Through(0, "failure")
                \/ UNCHANGED files /\ Go("dead")
    <3>1. faults' = faults + 1 /\ faults' <= MaxFaults
        BY <2>1, <2>8 DEF QuietFault, Fault
    <3>2. artifacts' = [artifacts EXCEPT ![step] = @ + 1] \/ UNCHANGED artifacts
        BY <2>8 DEF Store
    <3>3. CASE UNCHANGED <<files, worker>>
        BY <1>1, <2>1, <3>1, <3>2, <3>3
    <3>4. CASE Through(0, "failure")
        BY <1>1, <2>1, <2>2, <2>8, <3>1, <3>2, <3>4
    <3>5. CASE UNCHANGED files /\ Go("dead")
        BY <1>1, <2>1, <2>3, <3>1, <3>2, <3>5 DEF Moves, Luggage
    <3> QED BY <2>8, <3>3, <3>4, <3>5
  <2> QED BY <2>4, <2>5, <2>6, <2>7, <2>8 DEF Upload, UploadFile, UploadFailed
<1>3. UNCHANGED <<kind, timed, there, stored, console, listed, result, step, script, repeated, dropped, hollow>>
    BY DEF Upload, UploadFile, NoFault, QuietFault, Fault, Job, history
<1> USE <1>1, <1>2, <1>3
<1>4. TypeOK'
  <2>1. artifacts' \in [Step -> Nat]
      BY Typed
  <2>2. faults' \in 0 .. MaxFaults /\ repeated' + dropped' <= faults'
      BY Typed
  <2> QED BY <2>1, <2>2, Typed DEF TypeOK, WorkerState, Running
<1>5. PlacesFit'
    BY Typed DEF PlacesFit, Is, Running
<1>6. ScriptFits'
    BY Typed DEF ScriptFits, Is, Running
<1>7. LaterAreBlank'
    BY Typed DEF LaterAreBlank
<1>8. ResultsComeLast'
    BY Typed DEF ResultsComeLast
<1>9. CopyIsWhole'
    BY Typed DEF CopyIsWhole, Working, Running, HasWork
<1>10. WorkTravels'
    BY Typed DEF WorkTravels, ScriptFits, PlacesFit, Is, Running
<1>11. LogIsNew'
    BY Typed DEF LogIsNew, Is
<1>12. PiecesTravel'
    BY Typed DEF PiecesTravel, LogIsNew, ScriptFits, PlacesFit, Running, Is
<1>13. NamesTravel'
  <2>1. /\ step \in Step /\ artifacts \in [Step -> Nat] /\ files \in [Step -> 0 .. MaxFiles]
        /\ faults \in Nat /\ worker.named \in Nat /\ MaxFiles \in Nat
        /\ artifacts[step] <= worker.named + faults /\ worker.named <= files[step]
        /\ worker.outcome = "success" => worker.named = files[step]
      BY Typed DEF NamesTravel
  <2> HIDE DEF IndInv
  <2> QED BY <2>1 DEF NamesTravel
<1>14. WorkIsKept'
    BY Typed DEF WorkIsKept, HasWork
<1>15. FewRepeats'
    BY Typed DEF FewRepeats
<1>16. ArtifactsAreNamed'
  <2>1. /\ step \in Step /\ artifacts \in [Step -> Nat] /\ files \in [Step -> 0 .. MaxFiles]
        /\ listed \in [Step -> 0 .. MaxFiles] /\ faults \in Nat /\ MaxFiles \in Nat
        /\ result[step] = "none"
      BY Typed DEF ResultsComeLast
  <2>2. \A i \in Step \ {step} : artifacts'[i] = artifacts[i] /\ files'[i] = files[i]
      BY <2>1
  <2>3. faults' \in {faults, faults + 1}
      OBVIOUS
  <2> HIDE <1>2
  <2> QED BY <2>1, <2>2, <2>3 DEF ArtifactsAreNamed
<1> QED BY <1>4, <1>5, <1>6, <1>7, <1>8, <1>9, <1>10, <1>11, <1>12, <1>13, <1>14, <1>15, <1>16

\* The stored workspace is the one that was sent, the one before, or torn.
LEMMA SendWorkspaceStep ==
    ASSUME IndInv, SendWorkspace
    PROVE  IndInv'
<1> USE DEF IndInv
<1>1. /\ worker.pc = "send" /\ ~Is("publish")
    BY Typed DEF SendWorkspace, At, IndInv, PlacesFit
<1> DEFINE GaveUp ==
        \/ Moves("push") /\ Is("git") /\ hollow' = hollow \cup {step}
        \/ Concludes("failure", "report") /\ Is("copy") /\ UNCHANGED hollow
        \/ Moves("flush") /\ Is("shell") /\ UNCHANGED hollow
<1>2. /\ worker' \in WorkerState
      /\ \/ /\ stored' = worker.local
            /\ (Moves("report") /\ Is("shell")) \/ (Moves("push") /\ ~Is("shell"))
            /\ UNCHANGED <<faults, hollow>>
         \/ /\ stored' \in {stored, worker.local, Torn}
            /\ faults' = faults + 1 /\ faults' <= MaxFaults
            /\ \/ Moves("send") /\ UNCHANGED hollow
               \/ GaveUp
         \/ stored' = stored /\ UNCHANGED faults /\ GaveUp
         \/ stored' = stored /\ UNCHANGED <<faults, hollow>> /\ Moves("dead")
  <2>1. {"send", "report", "push", "flush", "dead"} \subseteq Place
      BY DEF Place
  <2>2. \/ Go("report") \/ Go("push") \/ Go("send") \/ Go("flush")
        \/ Conclude("failure", "report") \/ Go("dead")
      BY Typed, <1>1 DEF SendWorkspace, SendFails, SendGivesUp, Is
  <2>3. worker' \in WorkerState
    <3>1. worker \in WorkerState
        BY Typed
    <3> QED BY <2>1, <2>2, <3>1, WorkerMoves
  <2>4. SendFails => \/ Is("git") /\ Go("push") /\ hollow' = hollow \cup {step}
                     \/ Is("copy") /\ Conclude("failure", "report") /\ hollow' = hollow
                     \/ Is("shell") /\ Go("flush") /\ hollow' = hollow
      BY <1>1, Typed DEF SendFails, SendGivesUp, Is
  <2>5. worker \in WorkerState /\ faults \in Nat /\ MaxFaults \in Nat
      BY Typed
  <2> HIDE DEF IndInv
  <2>6. \A q \in {"send", "report", "push", "flush", "dead"} : Go(q) => Moves(q)
      BY <2>1, <2>5, WorkerMoves
  <2>7. SendFails => GaveUp
    <3>1. Conclude("failure", "report") => Concludes("failure", "report")
        BY <2>5 DEF Conclude, Concludes, WorkerState, Luggage
    <3> QED BY <2>4, <2>6, <3>1
  <2>8. CASE /\ stored' = worker.local /\ NoFault
             /\ Go(IF Is("shell") THEN "report" ELSE "push")
      BY <2>3, <2>5, <2>6, <2>8 DEF NoFault, history
  <2>9. CASE /\ Fault /\ stored' \in {stored, worker.local, Torn}
             /\ (Go("send") /\ UNCHANGED hollow) \/ SendFails
      BY <2>3, <2>5, <2>6, <2>7, <2>9 DEF Fault
  <2>10. CASE SendFails /\ UNCHANGED <<stored, faults>>
      BY <2>3, <2>5, <2>7, <2>10
  <2>11. CASE Go("dead") /\ NoFault /\ UNCHANGED stored
      BY <2>3, <2>5, <2>6, <2>11 DEF NoFault, history
  <2> QED BY <2>8, <2>9, <2>10, <2>11 DEF SendWorkspace
<1>3. UNCHANGED <<kind, timed, there, console, artifacts, files, listed, result, step, script, repeated, dropped>>
    BY DEF SendWorkspace, NoFault, Fault, Job, published, history
<1> USE <1>1, <1>2, <1>3 DEF Moves, Concludes, Luggage
<1>4. TypeOK'
  <2>1. hollow' \in SUBSET {i \in Step : kind'[i] # "shell"}
      BY Typed DEF Is
  <2> QED BY <2>1, Typed, SubtasksConstants DEF TypeOK, WorkerState, Running
<1>5. PlacesFit'
    BY Typed DEF PlacesFit, Is, Running
<1>6. ScriptFits'
    BY Typed DEF ScriptFits, Is, Running
<1>7. LaterAreBlank'
    BY Typed DEF LaterAreBlank
<1>8. ResultsComeLast'
    BY Typed DEF ResultsComeLast
<1>9. CopyIsWhole'
    BY Typed DEF CopyIsWhole, Working, Running, HasWork
<1>10. WorkTravels'
    BY Typed DEF WorkTravels, ScriptFits, PlacesFit, Is, Running
<1>11. LogIsNew'
    BY Typed DEF LogIsNew, Is
<1>12. PiecesTravel'
    BY Typed DEF PiecesTravel, LogIsNew, ScriptFits, PlacesFit, Running, Is
<1>13. NamesTravel'
    BY Typed DEF NamesTravel, PlacesFit, Is
<1>14. WorkIsKept'
  <2>1. HasWork(worker.local)
      BY DEF CopyIsWhole, Working
  <2>2. stored' \in {stored, worker.local, Torn} /\ hollow \subseteq hollow'
      OBVIOUS
  <2> QED BY <2>1, <2>2 DEF WorkIsKept, HasWork
<1>15. FewRepeats'
    BY Typed DEF FewRepeats
<1>16. ArtifactsAreNamed'
    BY Typed DEF ArtifactsAreNamed, NamesTravel, LaterAreBlank, Is
<1> QED BY <1>4, <1>5, <1>6, <1>7, <1>8, <1>9, <1>10, <1>11, <1>12, <1>13, <1>14, <1>15, <1>16

\* One append to the console, answered or not.
LEMMA WriteDoes ==
    ASSUME IndInv, Write
    PROVE  /\ console' \in [Step -> [Piece -> Nat]]
           /\ \A i \in Step \ {step} : console'[i] = console[i]
           /\ \A k \in Piece \ worker.log : console'[step][k] = console[step][k]
           /\ \A k \in worker.log : console'[step][k] = console[step][k] + 1
<1>1. /\ step \in Step /\ console \in [Step -> [Piece -> Nat]]
      /\ worker.log \subseteq Piece
    BY Typed
<1>2. [k \in Piece |-> console[step][k] + IF k \in worker.log THEN 1 ELSE 0] \in [Piece -> Nat]
    BY <1>1
<1> QED BY <1>1, <1>2 DEF Write

\* What any attempt to append the log leaves of the console and the counters.
AppendOrNot ==
    /\ console' \in [Step -> [Piece -> Nat]]
    /\ \A i \in Step \ {step} : console'[i] = console[i]
    /\ \A k \in Piece \ worker.log : console'[step][k] = console[step][k]
    /\ \A k \in worker.log : /\ console[step][k] <= console'[step][k]
                              /\ console'[step][k] <= console[step][k] + 1
    /\ faults' \in Nat /\ repeated' \in Nat /\ dropped' \in Nat
    /\ faults <= faults' /\ faults' <= MaxFaults
    /\ repeated <= repeated' /\ dropped <= dropped'
    /\ repeated' + dropped' <= faults'
    /\ UNCHANGED hollow

\* A log request that was answered put its pieces there, or dropped them.
LEMMA AppendedDoes ==
    ASSUME IndInv, NEW now, Appended(now)
    PROVE  /\ worker' = now /\ AppendOrNot
           /\ \A k \in worker.log : console'[step][k] + dropped' >= 1
<1>1. /\ step \in Step /\ console \in [Step -> [Piece -> Nat]] /\ worker.log \subseteq Piece
      /\ faults \in Nat /\ repeated \in Nat /\ dropped \in Nat /\ MaxFaults \in Nat
      /\ faults <= MaxFaults /\ repeated + dropped <= faults
    BY Typed
<1>2. Write =>
          /\ console' \in [Step -> [Piece -> Nat]]
          /\ \A i \in Step \ {step} : console'[i] = console[i]
          /\ \A k \in Piece \ worker.log : console'[step][k] = console[step][k]
          /\ \A k \in worker.log : console'[step][k] = console[step][k] + 1
    BY WriteDoes
<1> HIDE DEF IndInv
<1>3. CASE Write /\ NoFault
    BY <1>1, <1>2, <1>3 DEF Appended, AppendOrNot, NoFault, history
<1>4. CASE UNCHANGED console /\ Fault /\ dropped' = dropped + 1 /\ UNCHANGED <<repeated, hollow>>
    BY <1>1, <1>4 DEF Appended, AppendOrNot, Fault
<1> QED BY <1>3, <1>4 DEF Appended

\* One that was not answered added each piece at most once, as a repetition.
LEMMA NotAppendedDoes ==
    ASSUME IndInv, NEW now, NotAppended(now)
    PROVE  /\ worker' = now /\ AppendOrNot
           /\ \A k \in worker.log : console'[step][k] <= console[step][k] + repeated' - repeated
<1>1. /\ step \in Step /\ console \in [Step -> [Piece -> Nat]] /\ worker.log \subseteq Piece
      /\ faults \in Nat /\ repeated \in Nat /\ dropped \in Nat /\ MaxFaults \in Nat
      /\ faults <= MaxFaults /\ repeated + dropped <= faults
    BY Typed
<1>2. Write =>
          /\ console' \in [Step -> [Piece -> Nat]]
          /\ \A i \in Step \ {step} : console'[i] = console[i]
          /\ \A k \in Piece \ worker.log : console'[step][k] = console[step][k]
          /\ \A k \in worker.log : console'[step][k] = console[step][k] + 1
    BY WriteDoes
<1>3. CASE UNCHANGED console /\ QuietFault
    BY <1>1, <1>3 DEF NotAppended, AppendOrNot, QuietFault, Fault, history
<1>4. CASE Write /\ Fault /\ repeated' = repeated + 1 /\ UNCHANGED <<dropped, hollow>>
    BY <1>1, <1>2, <1>4 DEF NotAppended, AppendOrNot, Fault
<1> QED BY <1>3, <1>4 DEF NotAppended

\* Nothing is appended without a log, or to a build that is gone.
LEMMA NothingDoes ==
    ASSUME IndInv, NoFault, UNCHANGED console
    PROVE  AppendOrNot
BY Typed DEF AppendOrNot, NoFault, history

\* As often as allowed is not too often.
LEMMA CountsFit ==
    ASSUME NEW f \in 0 .. MaxFaults, NEW r \in Nat, NEW d \in Nat, r + d <= f
    PROVE  \A n \in Nat : n <= 1 + r => n \in 0 .. MaxFaults + 1
BY SubtasksConstants

\* The log of git_checkout, copy_artifacts and publish_artifacts.
LEMMA PushLogStep ==
    ASSUME IndInv, PushLog
    PROVE  IndInv'
<1> USE DEF IndInv
<1>1. worker.pc = "push" /\ ~Is("shell")
    BY Typed DEF PushLog, At, PlacesFit, Running
<1>2. /\ worker' \in WorkerState
      /\ AppendOrNot
      /\ \/ Moves("report")
         \/ UNCHANGED worker /\ \A k \in worker.log : console'[step][k] <= console[step][k] + repeated' - repeated
  <2>1. worker \in WorkerState /\ "report" \in Place
      BY Typed DEF Place
  <2>2. CASE Appended([worker EXCEPT !.pc = "report"])
      BY <2>1, <2>2, AppendedDoes, WorkerMoves DEF Go
  <2>3. CASE NotAppended([worker EXCEPT !.pc = "report"])
      BY <2>1, <2>3, NotAppendedDoes, WorkerMoves DEF Go
  <2>4. CASE NotAppended(worker)
      BY <2>1, <2>4, NotAppendedDoes
  <2>5. CASE Go("report") /\ NoFault /\ UNCHANGED console
      BY <2>1, <2>5, NothingDoes, WorkerMoves
  <2> QED BY <2>2, <2>3, <2>4, <2>5 DEF PushLog
<1>3. UNCHANGED <<kind, timed, there, stored, artifacts, files, listed, result, step, script>>
    BY DEF PushLog, Job, published
<1>4. AppendOrNot
    BY <1>2
<1> USE <1>1, <1>2, <1>3 DEF Moves, Luggage
<1>5. FewRepeats'
  <2>1. \A k \in worker.log : console[step][k] <= repeated
      BY DEF LogIsNew
  <2>2. /\ console \in [Step -> [Piece -> Nat]] /\ console' \in [Step -> [Piece -> Nat]]
        /\ repeated \in Nat /\ repeated' \in Nat /\ repeated <= repeated'
        /\ step \in Step /\ worker.log \subseteq Piece
      BY <1>4, Typed DEF AppendOrNot
  <2>3. ASSUME NEW k \in Piece PROVE console'[step][k] <= 1 + repeated'
      BY <1>4, <2>1, <2>2 DEF FewRepeats, AppendOrNot
  <2>4. ASSUME NEW i \in Step \ {step}, NEW k \in Piece PROVE console'[i][k] <= 1 + repeated'
      BY <1>4, <2>2 DEF FewRepeats, AppendOrNot
  <2> QED BY <2>3, <2>4 DEF FewRepeats
<1>6. TypeOK'
  <2>1. worker'.pc \in Running => worker.pc \in Running
      BY DEF Running
  <2>2. worker' \in WorkerState
      OBVIOUS
  <2> HIDE <1>1, <1>2
  <2>3. /\ faults' \in 0 .. MaxFaults /\ hollow' = hollow
        /\ repeated' \in Nat /\ dropped' \in Nat /\ repeated' + dropped' <= faults'
    <3>1. /\ faults' \in Nat /\ faults' <= MaxFaults /\ hollow' = hollow
          /\ repeated' \in Nat /\ dropped' \in Nat /\ repeated' + dropped' <= faults'
        BY <1>4 DEF AppendOrNot
    <3>2. \A n \in Nat : n <= MaxFaults => n \in 0 .. MaxFaults
        BY SubtasksConstants
    <3> QED BY <3>1, <3>2
  <2>4. console' \in [Step -> [Piece -> Nat]]
      BY <1>4 DEF AppendOrNot
  <2>5. \A i \in Step : \A k \in Piece : console'[i][k] \in 0 .. MaxFaults + 1
      BY <1>5, <2>3, <2>4, CountsFit DEF FewRepeats
  <2>6. console' \in [Step -> [Piece -> 0 .. MaxFaults + 1]]
      BY <2>4, <2>5
  <2> QED BY <2>3, <2>6, <2>1, <2>2, SubtasksConstants DEF TypeOK, WorkerState
<1>7. PlacesFit'
    BY DEF PlacesFit, Is, Running
<1>8. ScriptFits'
    BY DEF ScriptFits, Is, Running
<1>9. LaterAreBlank'
    BY <1>4, Typed DEF LaterAreBlank, AppendOrNot
<1>10. ResultsComeLast'
    BY DEF ResultsComeLast
<1>11. CopyIsWhole'
    BY <1>4 DEF CopyIsWhole, Working, Running, HasWork, AppendOrNot
<1>12. WorkTravels'
    BY <1>4 DEF WorkTravels, ScriptFits, PlacesFit, Is, Running, AppendOrNot
<1>13. LogIsNew'
    BY <1>4, Typed DEF LogIsNew, AppendOrNot, Is
<1>14. PiecesTravel'
    BY <1>4, Typed DEF PiecesTravel, ScriptFits, Running, Is, AppendOrNot
<1>15. NamesTravel'
    BY <1>4, Typed DEF NamesTravel, PlacesFit, Is, AppendOrNot
<1>16. WorkIsKept'
    BY <1>4 DEF WorkIsKept, AppendOrNot
<1>17. ArtifactsAreNamed'
    BY <1>4, Typed DEF ArtifactsAreNamed, AppendOrNot
<1> QED BY <1>6, <1>7, <1>8, <1>9, <1>10, <1>11, <1>12, <1>13, <1>14, <1>15, <1>16, <1>5, <1>17

\* A worker that has sent its pieces has none left to send.
LEMMA WorkerClears ==
    ASSUME worker \in WorkerState, NEW q \in Place
    PROVE  /\ Cleared(q) \in WorkerState
           /\ Cleared(q).pc = q /\ Cleared(q).log = {}
           /\ Cleared(q).outcome = worker.outcome /\ Cleared(q).local = worker.local
           /\ Cleared(q).named = worker.named
           /\ Cleared(q).read = worker.read /\ Cleared(q).retcode = worker.retcode
BY DEF Cleared, WorkerState

\* The log is out, or kept for the next look.
LEMMA PushSomeStep ==
    ASSUME IndInv, PushSome
    PROVE  IndInv'
<1> USE DEF IndInv
<1>1. worker.pc = "push_some" /\ Is("shell")
    BY Typed DEF PushSome, At, PlacesFit, Running
<1>2. /\ worker' \in WorkerState
      /\ AppendOrNot
      /\ \/ Moves("judge") /\ UNCHANGED console
         \/ /\ worker'.pc = "judge"
            /\ worker'.log = {} /\ UNCHANGED <<worker.outcome, worker.local, worker.named, worker.read, worker.retcode>>
            /\ \A k \in worker.log : console'[step][k] + dropped' >= 1
         \/ Moves("judge") /\ \A k \in worker.log : console'[step][k] <= console[step][k] + repeated' - repeated
  <2>1. worker \in WorkerState /\ "judge" \in Place
      BY Typed DEF Place, Running
  <2>2. CASE worker.log = {} \/ ~there
      BY <2>1, <2>2, NothingDoes, WorkerMoves DEF PushSome
  <2>3. CASE Appended(Cleared("judge"))
      BY <2>1, <2>3, AppendedDoes, WorkerClears
  <2>4. CASE NotAppended([worker EXCEPT !.pc = "judge"])
      BY <2>1, <2>4, NotAppendedDoes, WorkerMoves DEF Go
  <2> QED BY <2>2, <2>3, <2>4 DEF PushSome
<1>3. UNCHANGED <<kind, timed, there, stored, artifacts, files, listed, result, step, script>>
    BY DEF PushSome, Job, published
<1>4. AppendOrNot
    BY <1>2
<1> USE <1>1, <1>2, <1>3 DEF Moves, Luggage
<1>5. FewRepeats'
  <2>1. \A k \in worker.log : console[step][k] <= repeated
      BY DEF LogIsNew
  <2>2. /\ console \in [Step -> [Piece -> Nat]] /\ console' \in [Step -> [Piece -> Nat]]
        /\ repeated \in Nat /\ repeated' \in Nat /\ repeated <= repeated'
        /\ step \in Step /\ worker.log \subseteq Piece
      BY <1>4, Typed DEF AppendOrNot
  <2>3. ASSUME NEW k \in Piece PROVE console'[step][k] <= 1 + repeated'
      BY <1>4, <2>1, <2>2 DEF FewRepeats, AppendOrNot
  <2>4. ASSUME NEW i \in Step \ {step}, NEW k \in Piece PROVE console'[i][k] <= 1 + repeated'
      BY <1>4, <2>2 DEF FewRepeats, AppendOrNot
  <2> QED BY <2>3, <2>4 DEF FewRepeats
<1>6. TypeOK'
  <2>1. worker'.pc \in Running => worker.pc \in Running
      BY DEF Running
  <2>2. worker' \in WorkerState
      OBVIOUS
  <2> HIDE <1>1, <1>2
  <2>3. /\ faults' \in 0 .. MaxFaults /\ hollow' = hollow
        /\ repeated' \in Nat /\ dropped' \in Nat /\ repeated' + dropped' <= faults'
    <3>1. /\ faults' \in Nat /\ faults' <= MaxFaults /\ hollow' = hollow
          /\ repeated' \in Nat /\ dropped' \in Nat /\ repeated' + dropped' <= faults'
        BY <1>4 DEF AppendOrNot
    <3>2. \A n \in Nat : n <= MaxFaults => n \in 0 .. MaxFaults
        BY SubtasksConstants
    <3> QED BY <3>1, <3>2
  <2>4. console' \in [Step -> [Piece -> Nat]]
      BY <1>4 DEF AppendOrNot
  <2>5. \A i \in Step : \A k \in Piece : console'[i][k] \in 0 .. MaxFaults + 1
      BY <1>5, <2>3, <2>4, CountsFit DEF FewRepeats
  <2>6. console' \in [Step -> [Piece -> 0 .. MaxFaults + 1]]
      BY <2>4, <2>5
  <2> QED BY <2>3, <2>6, <2>1, <2>2, SubtasksConstants DEF TypeOK, WorkerState
<1>7. PlacesFit'
    BY DEF PlacesFit, Is, Running
<1>8. ScriptFits'
    BY DEF ScriptFits, Is, Running
<1>9. LaterAreBlank'
    BY <1>4, Typed DEF LaterAreBlank, AppendOrNot
<1>10. ResultsComeLast'
    BY DEF ResultsComeLast
<1>11. CopyIsWhole'
    BY <1>4 DEF CopyIsWhole, Working, Running, HasWork, AppendOrNot
<1>12. WorkTravels'
    BY <1>4 DEF WorkTravels, ScriptFits, PlacesFit, Is, Running, AppendOrNot
<1>13. LogIsNew'
    BY <1>4, Typed DEF LogIsNew, AppendOrNot, Is
<1>14. PiecesTravel'
  <2>1. ASSUME NEW k \in 1 .. worker.read
        PROVE  k \in worker'.log \/ console'[step][k] + dropped' >= 1
    <3>1. /\ k \in Piece /\ step \in Step /\ dropped \in Nat
          /\ console \in [Step -> [Piece -> Nat]]
      <4>1. worker.read \in 0 .. MaxOutput /\ MaxOutput \in Nat
          BY Typed, SubtasksConstants
      <4>2. k \in Piece
          BY <4>1 DEF Piece
      <4> QED BY <4>2, Typed
    <3>2. /\ console' \in [Step -> [Piece -> Nat]] /\ dropped' \in Nat /\ dropped <= dropped'
          /\ console[step][k] <= console'[step][k]
        BY <1>4, <3>1 DEF AppendOrNot
    <3>3. CASE k \in worker.log
        BY <3>3
    <3>4. CASE k \notin worker.log
      <4>1. console[step][k] + dropped >= 1
          BY <3>4 DEF PiecesTravel
      <4> HIDE <1>2
      <4> QED BY <3>1, <3>2, <4>1
    <3> QED BY <3>3, <3>4
  <2>2. \A k \in Piece : k > worker.read => k \notin worker'.log /\ console'[step][k] = 0
      BY <1>4 DEF PiecesTravel, AppendOrNot
  <2>3. worker'.read = worker.read /\ worker'.retcode = worker.retcode /\ worker'.log \subseteq worker.log
      OBVIOUS
  <2>4. worker'.pc = "send" => worker'.log = {}
      OBVIOUS
  <2> QED BY <2>1, <2>2, <2>3, <2>4 DEF PiecesTravel, Is
<1>15. NamesTravel'
    BY <1>4, Typed DEF NamesTravel, PlacesFit, Is, AppendOrNot
<1>16. WorkIsKept'
    BY <1>4 DEF WorkIsKept, AppendOrNot
<1>17. ArtifactsAreNamed'
    BY <1>4, Typed DEF ArtifactsAreNamed, AppendOrNot
<1> QED BY <1>6, <1>7, <1>8, <1>9, <1>10, <1>11, <1>12, <1>13, <1>14, <1>15, <1>16, <1>5, <1>17

\* The whole log is out, or the next attempt is the same.
LEMMA FlushStep ==
    ASSUME IndInv, Flush
    PROVE  IndInv'
<1> USE DEF IndInv
<1>1. worker.pc = "flush" /\ Is("shell")
    BY Typed DEF Flush, At, PlacesFit, Running
<1>2. /\ worker' \in WorkerState
      /\ AppendOrNot
      /\ \/ worker.log = {} /\ Moves("send")
         \/ /\ worker'.pc = "send"
            /\ worker'.log = {} /\ UNCHANGED <<worker.outcome, worker.local, worker.named, worker.read, worker.retcode>>
            /\ \A k \in worker.log : console'[step][k] + dropped' >= 1
         \/ UNCHANGED worker /\ \A k \in worker.log : console'[step][k] <= console[step][k] + repeated' - repeated
  <2>1. worker \in WorkerState /\ "send" \in Place
      BY Typed DEF Place, Running
  <2>2. CASE worker.log = {}
      BY <2>1, <2>2, NothingDoes, WorkerMoves DEF Flush
  <2>3. CASE Appended(Cleared("send"))
      BY <2>1, <2>3, AppendedDoes, WorkerClears
  <2>4. CASE NotAppended(worker)
      BY <2>1, <2>4, NotAppendedDoes
  <2> QED BY <2>2, <2>3, <2>4 DEF Flush
<1>3. UNCHANGED <<kind, timed, there, stored, artifacts, files, listed, result, step, script>>
    BY DEF Flush, Job, published
<1>4. AppendOrNot
    BY <1>2
<1> USE <1>1, <1>2, <1>3 DEF Moves, Luggage
<1>5. FewRepeats'
  <2>1. \A k \in worker.log : console[step][k] <= repeated
      BY DEF LogIsNew
  <2>2. /\ console \in [Step -> [Piece -> Nat]] /\ console' \in [Step -> [Piece -> Nat]]
        /\ repeated \in Nat /\ repeated' \in Nat /\ repeated <= repeated'
        /\ step \in Step /\ worker.log \subseteq Piece
      BY <1>4, Typed DEF AppendOrNot
  <2>3. ASSUME NEW k \in Piece PROVE console'[step][k] <= 1 + repeated'
      BY <1>4, <2>1, <2>2 DEF FewRepeats, AppendOrNot
  <2>4. ASSUME NEW i \in Step \ {step}, NEW k \in Piece PROVE console'[i][k] <= 1 + repeated'
      BY <1>4, <2>2 DEF FewRepeats, AppendOrNot
  <2> QED BY <2>3, <2>4 DEF FewRepeats
<1>6. TypeOK'
  <2>1. worker'.pc \in Running => worker.pc \in Running
      BY DEF Running
  <2>2. worker' \in WorkerState
      OBVIOUS
  <2> HIDE <1>1, <1>2
  <2>3. /\ faults' \in 0 .. MaxFaults /\ hollow' = hollow
        /\ repeated' \in Nat /\ dropped' \in Nat /\ repeated' + dropped' <= faults'
    <3>1. /\ faults' \in Nat /\ faults' <= MaxFaults /\ hollow' = hollow
          /\ repeated' \in Nat /\ dropped' \in Nat /\ repeated' + dropped' <= faults'
        BY <1>4 DEF AppendOrNot
    <3>2. \A n \in Nat : n <= MaxFaults => n \in 0 .. MaxFaults
        BY SubtasksConstants
    <3> QED BY <3>1, <3>2
  <2>4. console' \in [Step -> [Piece -> Nat]]
      BY <1>4 DEF AppendOrNot
  <2>5. \A i \in Step : \A k \in Piece : console'[i][k] \in 0 .. MaxFaults + 1
      BY <1>5, <2>3, <2>4, CountsFit DEF FewRepeats
  <2>6. console' \in [Step -> [Piece -> 0 .. MaxFaults + 1]]
      BY <2>4, <2>5
  <2> QED BY <2>3, <2>6, <2>1, <2>2, SubtasksConstants DEF TypeOK, WorkerState
<1>7. PlacesFit'
    BY DEF PlacesFit, Is, Running
<1>8. ScriptFits'
    BY DEF ScriptFits, Is, Running
<1>9. LaterAreBlank'
    BY <1>4, Typed DEF LaterAreBlank, AppendOrNot
<1>10. ResultsComeLast'
    BY DEF ResultsComeLast
<1>11. CopyIsWhole'
    BY <1>4 DEF CopyIsWhole, Working, Running, HasWork, AppendOrNot
<1>12. WorkTravels'
    BY <1>4 DEF WorkTravels, ScriptFits, PlacesFit, Is, Running, AppendOrNot
<1>13. LogIsNew'
    BY <1>4, Typed DEF LogIsNew, AppendOrNot, Is
<1>14. PiecesTravel'
  <2>1. ASSUME NEW k \in 1 .. worker.read
        PROVE  k \in worker'.log \/ console'[step][k] + dropped' >= 1
    <3>1. /\ k \in Piece /\ step \in Step /\ dropped \in Nat
          /\ console \in [Step -> [Piece -> Nat]]
      <4>1. worker.read \in 0 .. MaxOutput /\ MaxOutput \in Nat
          BY Typed, SubtasksConstants
      <4>2. k \in Piece
          BY <4>1 DEF Piece
      <4> QED BY <4>2, Typed
    <3>2. /\ console' \in [Step -> [Piece -> Nat]] /\ dropped' \in Nat /\ dropped <= dropped'
          /\ console[step][k] <= console'[step][k]
        BY <1>4, <3>1 DEF AppendOrNot
    <3>3. CASE k \in worker.log
        BY <3>3
    <3>4. CASE k \notin worker.log
      <4>1. console[step][k] + dropped >= 1
          BY <3>4 DEF PiecesTravel
      <4> HIDE <1>2
      <4> QED BY <3>1, <3>2, <4>1
    <3> QED BY <3>3, <3>4
  <2>2. \A k \in Piece : k > worker.read => k \notin worker'.log /\ console'[step][k] = 0
      BY <1>4 DEF PiecesTravel, AppendOrNot
  <2>3. worker'.read = worker.read /\ worker'.retcode = worker.retcode /\ worker'.log \subseteq worker.log
      OBVIOUS
  <2>4. worker'.pc = "send" => worker'.log = {}
      OBVIOUS
  <2> QED BY <2>1, <2>2, <2>3, <2>4 DEF PiecesTravel, Is
<1>15. NamesTravel'
    BY <1>4, Typed DEF NamesTravel, PlacesFit, Is, AppendOrNot
<1>16. WorkIsKept'
    BY <1>4 DEF WorkIsKept, AppendOrNot
<1>17. ArtifactsAreNamed'
    BY <1>4, Typed DEF ArtifactsAreNamed, AppendOrNot
<1> QED BY <1>6, <1>7, <1>8, <1>9, <1>10, <1>11, <1>12, <1>13, <1>14, <1>15, <1>16, <1>5, <1>17

ScriptTypes == [state : {"none", "running", "zero", "other"},
                made : 0 .. MaxOutput, clock : {"early", "due", "overdue"}]

\* A change of one field of the script is well-formed.
LEMMA ScriptTyped ==
    ASSUME IndInv
    PROVE  /\ script \in ScriptTypes
           /\ \A s \in {"none", "running", "zero", "other"} :
                 /\ [script EXCEPT !.state = s] \in ScriptTypes
                 /\ [script EXCEPT !.state = s].state = s
                 /\ [script EXCEPT !.state = s].made = script.made
                 /\ [script EXCEPT !.state = s].clock = script.clock
BY DEF IndInv, TypeOK, ScriptTypes

\* The script runs, or is reported as failed.
LEMMA StartScriptStep ==
    ASSUME IndInv, StartScript
    PROVE  IndInv'
<1> USE DEF IndInv
<1>1. worker.pc = "start" /\ Is("shell") /\ script.state = "none"
    BY Typed DEF StartScript, At, PlacesFit, ScriptFits, Running
<1>2. /\ worker' \in WorkerState /\ script' \in ScriptTypes
      /\ UNCHANGED script.made
      /\ \/ Moves("poll") /\ script'.state = "running"
         \/ Concludes("failure", "flush") /\ UNCHANGED script.state
         \/ Moves("dead") /\ UNCHANGED script.state
  <2>1. worker \in WorkerState /\ {"poll", "flush", "dead"} \subseteq Place
      BY Typed DEF Place, Running
  <2> QED BY <2>1, WorkerMoves, ScriptTyped DEF StartScript, NotStarted
<1>3. UNCHANGED <<kind, timed, there, stored, console, artifacts, files, listed, result, step, faults, repeated, dropped, hollow>>
    BY DEF StartScript, NoFault, Job, repository, published, history
<1> USE <1>1, <1>2, <1>3 DEF Moves, Concludes, Luggage
<1>4. TypeOK'
    BY SubtasksConstants, Typed DEF TypeOK, WorkerState, ScriptTypes, Running
<1>5. PlacesFit'
    BY Typed DEF PlacesFit, Is, Running
<1>6. ScriptFits'
    BY Typed DEF ScriptFits, PlacesFit, Is, Running
<1>7. LaterAreBlank'
    BY Typed DEF LaterAreBlank
<1>8. ResultsComeLast'
    BY Typed DEF ResultsComeLast
<1>9. CopyIsWhole'
    BY Typed DEF CopyIsWhole, Working, Running, HasWork
<1>10. WorkTravels'
    BY Typed DEF WorkTravels, ScriptFits, PlacesFit, Is, Running
<1>11. LogIsNew'
    BY Typed DEF LogIsNew, PlacesFit, Is
<1>12. PiecesTravel'
    BY Typed DEF PiecesTravel, ScriptFits, PlacesFit, Running, Is
<1>13. NamesTravel'
    BY Typed DEF NamesTravel, PlacesFit, Is
<1>14. WorkIsKept'
    BY Typed DEF WorkIsKept, HasWork
<1>15. FewRepeats'
    BY Typed DEF FewRepeats
<1>16. ArtifactsAreNamed'
    BY Typed DEF ArtifactsAreNamed, NamesTravel, LaterAreBlank, Is
<1> QED BY <1>4, <1>5, <1>6, <1>7, <1>8, <1>9, <1>10, <1>11, <1>12, <1>13, <1>14, <1>15, <1>16

\* The return code is what the script is at.
LEMMA PollScriptStep ==
    ASSUME IndInv, PollScript
    PROVE  IndInv'
<1> USE DEF IndInv
<1>1. worker.pc = "poll" /\ Is("shell") /\ script.state # "none"
    BY Typed DEF PollScript, At, TypeOK, PlacesFit, ScriptFits, Running
<1>2. /\ worker' \in WorkerState
      /\ worker'.pc = "read" /\ worker'.retcode = script.state
      /\ UNCHANGED <<worker.outcome, worker.local, worker.log, worker.named, worker.read>>
  <2>1. worker \in WorkerState /\ "read" \in Place
      BY Typed DEF Place, Running
  <2>2. script.state \in {"running", "zero", "other"}
      BY Typed, <1>1
  <2> QED BY <2>1, <2>2 DEF PollScript, WorkerState
<1>3. UNCHANGED <<kind, timed, there, stored, console, artifacts, files, listed, result, step, script, faults, repeated, dropped, hollow>>
    BY DEF PollScript, NoFault, Job, repository, published, history
<1> USE <1>1, <1>2, <1>3 DEF Moves, Concludes, Luggage
<1>4. TypeOK'
    BY SubtasksConstants, Typed DEF TypeOK, WorkerState, Running
<1>5. PlacesFit'
    BY Typed DEF PlacesFit, Is, Running
<1>6. ScriptFits'
    BY Typed DEF ScriptFits, PlacesFit, Is, Running
<1>7. LaterAreBlank'
    BY Typed DEF LaterAreBlank
<1>8. ResultsComeLast'
    BY Typed DEF ResultsComeLast
<1>9. CopyIsWhole'
    BY Typed DEF CopyIsWhole, Working, Running, HasWork
<1>10. WorkTravels'
    BY Typed DEF WorkTravels, ScriptFits, PlacesFit, Is, Running
<1>11. LogIsNew'
    BY Typed DEF LogIsNew, PlacesFit, Is
<1>12. PiecesTravel'
    BY Typed DEF PiecesTravel, ScriptFits, PlacesFit, Running, Is
<1>13. NamesTravel'
    BY Typed DEF NamesTravel, PlacesFit, Is
<1>14. WorkIsKept'
    BY Typed DEF WorkIsKept, HasWork
<1>15. FewRepeats'
    BY Typed DEF FewRepeats
<1>16. ArtifactsAreNamed'
    BY Typed DEF ArtifactsAreNamed, NamesTravel, LaterAreBlank, Is
<1> QED BY <1>4, <1>5, <1>6, <1>7, <1>8, <1>9, <1>10, <1>11, <1>12, <1>13, <1>14, <1>15, <1>16

\* What was put out is in the log, or lost.
LEMMA ReadOutputStep ==
    ASSUME IndInv, ReadOutput
    PROVE  IndInv'
<1> USE DEF IndInv
<1>1. worker.pc = "read" /\ Is("shell")
    BY Typed DEF ReadOutput, At, PlacesFit, ScriptFits, Running
<1>2. /\ worker' \in WorkerState
      /\ worker'.pc = "push_some" /\ worker'.read = script.made
      /\ UNCHANGED <<worker.outcome, worker.local, worker.named, worker.retcode>>
      /\ \/ /\ worker'.log = worker.log \cup (worker.read + 1 .. script.made)
            /\ UNCHANGED <<faults, dropped>>
         \/ /\ UNCHANGED worker.log
            /\ faults' = faults + 1 /\ faults' <= MaxFaults /\ dropped' = dropped + 1
  <2>1. worker \in WorkerState /\ "push_some" \in Place
      BY Typed DEF Place, Running
  <2>2. worker.log \cup (worker.read + 1 .. script.made) \in SUBSET Piece
    <3>1. /\ worker.log \subseteq Piece /\ worker.read \in Nat
          /\ script.made \in Nat /\ script.made <= MaxOutput /\ MaxOutput \in Nat
        BY Typed, SubtasksConstants
    <3> HIDE DEF IndInv
    <3> QED BY <3>1 DEF Piece
  <2>3. script.made \in 0 .. MaxOutput /\ faults \in Nat /\ MaxFaults \in Nat
      BY Typed, SubtasksConstants
  <2> HIDE DEF IndInv
  <2>4. worker' \in WorkerState
      BY <2>1, <2>2, <2>3 DEF ReadOutput, WorkerState
  <2>5. CASE /\ worker' = [worker EXCEPT !.pc = "push_some", !.read = script.made,
                           !.log = @ \cup (worker.read + 1 .. script.made)]
             /\ NoFault
      BY <2>1, <2>4, <2>5 DEF WorkerState, NoFault, history
  <2>6. CASE /\ worker' = [worker EXCEPT !.pc = "push_some", !.read = script.made]
             /\ Fault /\ dropped' = dropped + 1
      BY <2>1, <2>3, <2>4, <2>6 DEF WorkerState, Fault
  <2> QED BY <2>5, <2>6 DEF ReadOutput
<1>3. UNCHANGED <<kind, timed, there, stored, console, artifacts, files, listed, result, step, script, repeated, hollow>>
    BY DEF ReadOutput, NoFault, Fault, Job, repository, published, history
<1> USE <1>1, <1>2, <1>3 DEF Moves, Concludes, Luggage
<1>4. TypeOK'
    BY SubtasksConstants, Typed DEF TypeOK, WorkerState, Running
<1>5. PlacesFit'
    BY Typed DEF PlacesFit, Is, Running
<1>6. ScriptFits'
    BY Typed DEF ScriptFits, PlacesFit, Is, Running
<1>7. LaterAreBlank'
    BY Typed DEF LaterAreBlank
<1>8. ResultsComeLast'
    BY Typed DEF ResultsComeLast
<1>9. CopyIsWhole'
    BY Typed DEF CopyIsWhole, Working, Running, HasWork
<1>10. WorkTravels'
    BY Typed DEF WorkTravels, ScriptFits, PlacesFit, Is, Running
<1>11. /\ worker.read \in Nat /\ script.made \in Nat /\ MaxOutput \in Nat
       /\ worker.read <= script.made /\ script.made <= MaxOutput
       /\ console \in [Step -> [Piece -> Nat]] /\ step \in Step
       /\ repeated \in Nat /\ dropped \in Nat /\ worker.log \subseteq Piece
    BY Typed, SubtasksConstants DEF PiecesTravel
<1>12. \A k \in worker.read + 1 .. script.made : k \in Piece /\ console[step][k] = 0
  <2>1. ASSUME NEW k \in worker.read + 1 .. script.made PROVE k \in Piece /\ k > worker.read
      BY <1>11 DEF Piece
  <2> QED BY <2>1 DEF PiecesTravel
<1>13. LogIsNew'
  <2>1. \A k \in worker.log : console[step][k] <= repeated
      BY DEF LogIsNew
  <2>2. \A k \in worker'.log : console[step][k] <= repeated
    <3>1. worker'.log \subseteq worker.log \cup (worker.read + 1 .. script.made)
        OBVIOUS
    <3> HIDE <1>1, <1>2
    <3> QED BY <1>11, <1>12, <2>1, <3>1
  <2> QED BY <2>2 DEF LogIsNew
<1>14. PiecesTravel'
  <2>1. ASSUME NEW k \in 1 .. script.made
        PROVE  k \in worker'.log \/ console[step][k] + dropped' >= 1
    <3>1. CASE k <= worker.read
      <4>1. k \in worker.log \/ console[step][k] + dropped >= 1
          BY <1>11, <3>1 DEF PiecesTravel
      <4>2. k \in Piece
          BY <1>11 DEF Piece
      <4>3. worker.log \subseteq worker'.log /\ (dropped' = dropped \/ dropped' = dropped + 1)
          OBVIOUS
      <4> HIDE <1>1, <1>2
      <4> QED BY <1>11, <4>1, <4>2, <4>3
    <3>2. CASE k > worker.read
      <4>1. k \in Piece /\ console[step][k] = 0 /\ k \in worker.read + 1 .. script.made
          BY <1>11, <1>12, <3>2
      <4> QED BY <1>11, <4>1
    <3> QED BY <1>11, <3>1, <3>2
  <2>2. ASSUME NEW k \in Piece, k > script.made
        PROVE  k \notin worker'.log /\ console[step][k] = 0
    <3>1. k > worker.read /\ k \notin worker.read + 1 .. script.made
        BY <1>11, <2>2 DEF Piece
    <3> QED BY <3>1 DEF PiecesTravel
  <2> QED BY <1>11, <2>1, <2>2 DEF PiecesTravel, Is
<1>15. NamesTravel'
    BY Typed DEF NamesTravel, PlacesFit, Is
<1>16. WorkIsKept'
    BY Typed DEF WorkIsKept, HasWork
<1>17. FewRepeats'
    BY Typed DEF FewRepeats
<1>18. ArtifactsAreNamed'
    BY Typed DEF ArtifactsAreNamed, NamesTravel, LaterAreBlank, Is
<1> QED BY <1>4, <1>5, <1>6, <1>7, <1>8, <1>9, <1>10, <1>13, <1>14, <1>15, <1>16, <1>17, <1>18

\* The exit decides the outcome; a script that is overdue is killed.
LEMMA JudgeStep ==
    ASSUME IndInv, Judge
    PROVE  IndInv'
<1> USE DEF IndInv
<1>1. worker.pc = "judge" /\ Is("shell") /\ script.state # "none"
    BY Typed DEF Judge, At, TypeOK, PlacesFit, ScriptFits, Running
<1>2. /\ worker' \in WorkerState /\ script' \in ScriptTypes
      /\ UNCHANGED script.made
      /\ \/ worker.retcode = "zero" /\ Concludes("success", "flush") /\ UNCHANGED script.state
         \/ worker.retcode = "other" /\ Concludes("failure", "flush") /\ UNCHANGED script.state
         \/ /\ worker.retcode = "running" /\ Moves("poll")
            /\ \/ UNCHANGED script.state
               \/ script.state = "running" /\ script'.state = "other"
  <2>1. worker \in WorkerState /\ {"poll", "flush"} \subseteq Place
      BY Typed DEF Place, Running
  <2> HIDE DEF IndInv
  <2> QED BY <2>1, WorkerMoves, ScriptTyped DEF Judge, Polled
<1>3. UNCHANGED <<kind, timed, there, stored, console, artifacts, files, listed, result, step, faults, repeated, dropped, hollow>>
    BY DEF Judge, NoFault, Job, repository, published, history
<1> USE <1>1, <1>2, <1>3 DEF Moves, Concludes, Luggage
<1>4. TypeOK'
    BY SubtasksConstants, Typed DEF TypeOK, WorkerState, ScriptTypes, Running
<1>5. PlacesFit'
    BY Typed DEF PlacesFit, Is, Running
<1>6. ScriptFits'
    BY Typed DEF ScriptFits, PlacesFit, Is, Running
<1>7. LaterAreBlank'
    BY Typed DEF LaterAreBlank
<1>8. ResultsComeLast'
    BY Typed DEF ResultsComeLast
<1>9. CopyIsWhole'
    BY Typed DEF CopyIsWhole, Working, Running, HasWork
<1>10. WorkTravels'
    BY Typed DEF WorkTravels, ScriptFits, PlacesFit, Is, Running
<1>11. LogIsNew'
    BY Typed DEF LogIsNew, PlacesFit, Is
<1>12. PiecesTravel'
    BY Typed DEF PiecesTravel, ScriptFits, PlacesFit, Running, Is
<1>13. NamesTravel'
    BY Typed DEF NamesTravel, PlacesFit, Is
<1>14. WorkIsKept'
    BY Typed DEF WorkIsKept, HasWork
<1>15. FewRepeats'
    BY Typed DEF FewRepeats
<1>16. ArtifactsAreNamed'
    BY Typed DEF ArtifactsAreNamed, NamesTravel, LaterAreBlank, Is
<1> QED BY <1>4, <1>5, <1>6, <1>7, <1>8, <1>9, <1>10, <1>11, <1>12, <1>13, <1>14, <1>15, <1>16

\* The script puts out a piece, or ends, with its work done if well.
LEMMA ScriptStepStep ==
    ASSUME IndInv, ScriptStep
    PROVE  IndInv'
<1> USE DEF IndInv
<1>1. script.state = "running" /\ Is("shell") /\ worker.pc \in Running
    BY Typed DEF ScriptStep, At, PlacesFit, ScriptFits, Running
<1>2. /\ worker' \in WorkerState /\ script' \in ScriptTypes
      /\ UNCHANGED <<worker.pc, worker.outcome, worker.log, worker.named, worker.read, worker.retcode>>
      /\ \/ /\ script'.made = script.made + 1
            /\ UNCHANGED <<script.state, worker.local>>
         \/ /\ script'.state = "zero" /\ UNCHANGED script.made
            /\ worker.local \subseteq worker'.local /\ step \in worker'.local
         \/ /\ script'.state = "other" /\ UNCHANGED <<script.made, worker.local>>
  <2>1. worker \in WorkerState /\ script \in ScriptTypes /\ step \in Step
      BY Typed, ScriptTyped
  <2>2. CASE Emit
      BY <2>1, <2>2, SubtasksConstants DEF Emit, ScriptTypes
  <2>3. CASE /\ script' = [script EXCEPT !.state = "zero"]
             /\ \E link \in {{}, {Link}} :
                   worker' = [worker EXCEPT !.local = @ \cup {step} \cup link]
    <3>1. PICK link \in {{}, {Link}} : worker' = [worker EXCEPT !.local = @ \cup {step} \cup link]
        BY <2>3
    <3>2. worker.local \cup {step} \cup link \in Workspace
        BY <2>1 DEF WorkerState, Workspace
    <3> QED BY <2>1, <2>3, <3>1, <3>2, ScriptTyped DEF WorkerState
  <2>4. CASE script' = [script EXCEPT !.state = "other"] /\ UNCHANGED worker
      BY <2>1, <2>4, ScriptTyped
  <2> QED BY <2>2, <2>3, <2>4 DEF ScriptStep, Exit
<1>3. UNCHANGED <<kind, timed, there, stored, console, artifacts, files, listed, result, step, faults, repeated, dropped, hollow>>
    BY DEF ScriptStep, Emit, Exit, NoFault, Job, repository, published, history
<1> USE <1>1, <1>2, <1>3 DEF Moves, Concludes, Luggage
<1>4. TypeOK'
    BY SubtasksConstants, Typed DEF TypeOK, WorkerState, ScriptTypes, Running
<1>5. PlacesFit'
    BY Typed DEF PlacesFit, Is, Running
<1>6. ScriptFits'
    BY Typed DEF ScriptFits, PlacesFit, Is, Running
<1>7. LaterAreBlank'
    BY Typed DEF LaterAreBlank
<1>8. ResultsComeLast'
    BY Typed DEF ResultsComeLast
<1>9. CopyIsWhole'
    BY Typed DEF CopyIsWhole, Working, Running, HasWork
<1>10. WorkTravels'
    BY Typed DEF WorkTravels, ScriptFits, PlacesFit, Is, Running
<1>11. LogIsNew'
    BY Typed DEF LogIsNew, PlacesFit, Is
<1>12. PiecesTravel'
    BY Typed DEF PiecesTravel, ScriptFits, PlacesFit, Running, Is
<1>13. NamesTravel'
    BY Typed DEF NamesTravel, PlacesFit, Is
<1>14. WorkIsKept'
    BY Typed DEF WorkIsKept, HasWork
<1>15. FewRepeats'
    BY Typed DEF FewRepeats
<1>16. ArtifactsAreNamed'
    BY Typed DEF ArtifactsAreNamed, NamesTravel, LaterAreBlank, Is
<1> QED BY <1>4, <1>5, <1>6, <1>7, <1>8, <1>9, <1>10, <1>11, <1>12, <1>13, <1>14, <1>15, <1>16

\* Time goes on.
LEMMA TickStep ==
    ASSUME IndInv, Tick
    PROVE  IndInv'
<1> USE DEF IndInv
<1>1. script.state = "running"
    BY Typed DEF Tick, At, PlacesFit, ScriptFits, Running
<1>2. /\ script' \in ScriptTypes
      /\ UNCHANGED <<script.made, script.state, worker>>
  <2>1. script \in ScriptTypes
      BY ScriptTyped
  <2>2. script' \in ScriptTypes /\ UNCHANGED <<script.made, script.state>>
      BY <2>1 DEF Tick, ScriptTypes
  <2> QED BY <2>2 DEF Tick
<1>3. UNCHANGED <<kind, timed, there, stored, console, artifacts, files, listed, result, step, worker, faults, repeated, dropped, hollow>>
    BY DEF Tick, NoFault, Job, repository, published, history
<1> USE <1>1, <1>2, <1>3 DEF Moves, Concludes, Luggage
<1>4. TypeOK'
    BY SubtasksConstants, Typed DEF TypeOK, WorkerState, ScriptTypes, Running
<1>5. PlacesFit'
    BY Typed DEF PlacesFit, Is, Running
<1>6. ScriptFits'
    BY Typed DEF ScriptFits, PlacesFit, Is, Running
<1>7. LaterAreBlank'
    BY Typed DEF LaterAreBlank
<1>8. ResultsComeLast'
    BY Typed DEF ResultsComeLast
<1>9. CopyIsWhole'
    BY Typed DEF CopyIsWhole, Working, Running, HasWork
<1>10. WorkTravels'
    BY Typed DEF WorkTravels, ScriptFits, PlacesFit, Is, Running
<1>11. LogIsNew'
    BY Typed DEF LogIsNew, PlacesFit, Is
<1>12. PiecesTravel'
    BY Typed DEF PiecesTravel, ScriptFits, PlacesFit, Running, Is
<1>13. NamesTravel'
    BY Typed DEF NamesTravel, PlacesFit, Is
<1>14. WorkIsKept'
    BY Typed DEF WorkIsKept, HasWork
<1>15. FewRepeats'
    BY Typed DEF FewRepeats
<1>16. ArtifactsAreNamed'
    BY Typed DEF ArtifactsAreNamed, NamesTravel, LaterAreBlank, Is
<1> QED BY <1>4, <1>5, <1>6, <1>7, <1>8, <1>9, <1>10, <1>11, <1>12, <1>13, <1>14, <1>15, <1>16
\* The next subtask starts with nothing, and what the last one promised is there.
LEMMA NextSubtaskStep ==
    ASSUME IndInv, worker.pc = "report", worker.outcome = "success", step < Length,
           result' = [result EXCEPT ![step] = "success"],
           listed' = [listed EXCEPT ![step] = worker.named],
           step' = step + 1, worker' = Fresh, script' = NoScript,
           UNCHANGED <<kind, timed, there, stored, console, artifacts, files, faults, repeated,
                       dropped, hollow>>
    PROVE  IndInv'
<1> USE DEF IndInv
<1>1. /\ step' \in Step /\ step \in Step /\ step' # step /\ step' > step
      /\ \A i \in Step : i > step' => i > step
  <2>1. step \in Nat /\ step \in 1 .. Length /\ Length \in Nat
      BY Typed, SubtasksConstants DEF Step
  <2> HIDE DEF IndInv
  <2> QED BY <2>1 DEF Step
<1>2. /\ result' \in [Step -> {"none", "success", "failure"}]
      /\ result'[step] = "success"
      /\ \A i \in Step \ {step} : result'[i] = result[i]
    BY Typed
<1>3. /\ result'[step'] = "none" /\ step' \notin hollow /\ artifacts[step'] = 0 /\ files[step'] = 0
      /\ \A k \in Piece : console[step'][k] = 0
    BY <1>1, <1>2 DEF LaterAreBlank
<1>4. /\ worker'.pc = "claimed" /\ worker'.log = {} /\ worker'.read = 0 /\ worker'.named = 0
      /\ worker'.retcode = "running"
      /\ script'.state = "none" /\ script'.made = 0
    BY DEF Fresh, NoScript
<1>5. TypeOK'
  <2>1. worker' \in WorkerState /\ script' \in ScriptTypes
      BY SubtasksConstants DEF Fresh, NoScript, WorkerState, ScriptTypes, Place, Workspace
  <2> QED BY <1>1, <1>2, <1>4, <2>1 DEF TypeOK, WorkerState, ScriptTypes, Running
<1>6. PlacesFit' /\ ScriptFits'
    BY <1>4 DEF PlacesFit, ScriptFits, Running
<1>7. LaterAreBlank'
    BY <1>1, <1>2 DEF LaterAreBlank
<1>8. ResultsComeLast'
    BY <1>3 DEF ResultsComeLast
<1>9. CopyIsWhole' /\ WorkTravels'
    BY <1>4 DEF CopyIsWhole, WorkTravels, Working, Running
<1>10. LogIsNew' /\ NamesTravel'
    BY <1>3, <1>4, Typed DEF LogIsNew, NamesTravel
<1>11. PiecesTravel'
    BY <1>3, <1>4 DEF PiecesTravel
<1>12. WorkIsKept'
  <2>1. stored # Torn /\ step \notin hollow /\ kind[step] # "publish" => step \in stored
      BY DEF WorkTravels, Is
  <2> QED BY <1>2, <2>1 DEF WorkIsKept
<1>13. FewRepeats'
    BY DEF FewRepeats
<1>14. ArtifactsAreNamed'
  <2>1. kind[step] = "publish" =>
            worker.named = files[step] /\ artifacts[step] <= worker.named + faults
      BY DEF NamesTravel, Is
  <2>2. listed'[step] = worker.named /\ \A i \in Step \ {step} : listed'[i] = listed[i]
      BY Typed
  <2> QED BY <1>2, <2>1, <2>2 DEF ArtifactsAreNamed
<1> QED BY <1>5, <1>6, <1>7, <1>8, <1>9, <1>10, <1>11, <1>12, <1>13, <1>14

\* The last subtask, one that failed, or a report that nobody got.
LEMMA NoNextSubtaskStep ==
    ASSUME IndInv, worker.pc = "report", worker' \in WorkerState,
           \/ Moves("end")
           \/ Moves("report") /\ UNCHANGED result,
           \/ result' = result /\ listed' = listed
           \/ /\ result' = [result EXCEPT ![step] = worker.outcome]
              /\ listed' = [listed EXCEPT ![step] = worker.named],
           faults' \in 0 .. MaxFaults, faults <= faults',
           UNCHANGED <<kind, timed, there, stored, console, artifacts, files, step, script, repeated,
                       dropped, hollow>>
    PROVE  IndInv'
<1> USE DEF IndInv, Moves, Luggage
<1>1. /\ result' \in [Step -> {"none", "success", "failure"}]
      /\ listed' \in [Step -> 0 .. MaxFiles]
      /\ \A i \in Step :
            \/ result'[i] = result[i] /\ listed'[i] = listed[i]
            \/ i = step /\ result'[i] = worker.outcome /\ listed'[i] = worker.named
  <2>1. /\ result \in [Step -> {"none", "success", "failure"}]
        /\ listed \in [Step -> 0 .. MaxFiles] /\ worker.named \in 0 .. MaxFiles
        /\ worker.outcome \in {"success", "failure"} /\ step \in Step
      BY Typed DEF WorkerState
  <2> HIDE DEF IndInv
  <2> QED BY <2>1
<1>2. worker'.pc \in {"report", "end"}
    OBVIOUS
<1>3. TypeOK'
    BY <1>1, <1>2, Typed DEF TypeOK, WorkerState, Running
<1>4. PlacesFit' /\ ScriptFits'
    BY <1>2 DEF PlacesFit, ScriptFits, Running, Is
<1>5. LaterAreBlank'
    BY <1>1, Typed DEF LaterAreBlank
<1>6. ResultsComeLast'
    BY DEF ResultsComeLast
<1>7. CopyIsWhole' /\ WorkTravels'
    BY <1>2 DEF CopyIsWhole, WorkTravels, Working, Running, Is
<1>8. LogIsNew'
    BY <1>2 DEF LogIsNew, Is
<1>9. NamesTravel'
  <2>1. /\ faults \in Nat /\ faults' \in Nat /\ faults <= faults' /\ worker.named \in Nat
        /\ artifacts \in [Step -> Nat] /\ step \in Step
      BY Typed, SubtasksConstants
  <2>2. NamesTravel
      BY DEF IndInv
  <2> HIDE DEF IndInv
  <2> QED BY <2>1, <2>2 DEF NamesTravel, Is
<1>10. PiecesTravel'
    BY DEF PiecesTravel, Is
<1>11. WorkIsKept'
  <2>1. worker.outcome = "success" /\ stored # Torn /\ step \notin hollow
        /\ kind[step] # "publish" => step \in stored
      BY DEF WorkTravels, Is
  <2> QED BY <1>1, <2>1 DEF WorkIsKept
<1>12. FewRepeats'
    BY DEF FewRepeats
<1>13. ArtifactsAreNamed'
  <2>1. kind[step] = "publish" =>
            /\ worker.outcome = "success" => worker.named = files[step]
            /\ artifacts[step] <= worker.named + faults
      BY DEF NamesTravel, Is
  <2>2. /\ faults \in Nat /\ faults' \in Nat /\ faults <= faults' /\ worker.named \in Nat
        /\ artifacts \in [Step -> Nat] /\ listed \in [Step -> 0 .. MaxFiles] /\ MaxFiles \in Nat
      BY Typed, SubtasksConstants
  <2> HIDE DEF IndInv
  <2>3. ArtifactsAreNamed
      BY DEF IndInv
  <2> QED BY <1>1, <2>1, <2>2, <2>3 DEF ArtifactsAreNamed
<1> QED BY <1>3, <1>4, <1>5, <1>6, <1>7, <1>8, <1>10, <1>11, <1>12, <1>13, <1>9

\* report: the result is known once, and what it stands for was done before.
LEMMA ReportStep ==
    ASSUME IndInv, Report
    PROVE  IndInv'
<1>1. /\ worker.pc = "report" /\ worker \in WorkerState /\ {"report", "end"} \subseteq Place
      /\ faults \in 0 .. MaxFaults /\ faults \in Nat /\ MaxFaults \in Nat
    BY Typed, SubtasksConstants DEF Report, At, Place
<1>2. UNCHANGED <<kind, timed, there, stored, console, artifacts, files>>
    BY DEF Report, Job
<1>3. CASE /\ result' = [result EXCEPT ![step] = worker.outcome] /\ NoFault
           /\ listed' = [listed EXCEPT ![step] = worker.named]
           /\ worker.outcome = "success" /\ step < Length
           /\ step' = step + 1 /\ worker' = Fresh /\ script' = NoScript
    BY <1>1, <1>2, <1>3, NextSubtaskStep DEF NoFault, history
<1>4. CASE /\ result' = [result EXCEPT ![step] = worker.outcome] /\ NoFault
           /\ listed' = [listed EXCEPT ![step] = worker.named]
           /\ Go("end") /\ UNCHANGED <<step, script>>
  <2>1. worker' \in WorkerState /\ Moves("end")
      BY <1>1, <1>4, WorkerMoves
  <2> QED BY <1>1, <1>2, <1>4, <2>1, NoNextSubtaskStep DEF NoFault, history
<1>5. CASE /\ QuietFault /\ (Go("report") \/ Go("end"))
           /\ UNCHANGED <<result, listed, step, script>>
  <2>1. worker' \in WorkerState /\ (Moves("end") \/ Moves("report"))
      BY <1>1, <1>5, WorkerMoves
  <2>2. faults' \in 0 .. MaxFaults /\ faults <= faults'
      BY <1>1, <1>5 DEF QuietFault, Fault
  <2> QED BY <1>1, <1>2, <1>5, <2>1, <2>2, NoNextSubtaskStep DEF QuietFault, history
<1> QED BY <1>3, <1>4, <1>5 DEF Report

\* A deletion takes nothing of what the invariant speaks of.
LEMMA DeleteBuildStep ==
    ASSUME IndInv, DeleteBuild
    PROVE  IndInv'
<1>1. /\ UNCHANGED <<kind, timed, stored, console, artifacts, files, listed, result, step,
                    worker, script, faults, repeated, dropped, hollow>>
      /\ there' \in BOOLEAN
    BY DEF DeleteBuild, repository, published, history
<1> QED BY <1>1 DEF IndInv, TypeOK, PlacesFit, ScriptFits, LaterAreBlank, ResultsComeLast,
        CopyIsWhole, HasWork, WorkTravels, LogIsNew, PiecesTravel, NamesTravel,
        WorkIsKept, FewRepeats, ArtifactsAreNamed, Is

-----------------------------------------------------------------------------
(* The inductive invariant *)

\* A new build has no result, no workspace and no output.
LEMMA IndInit == Init => IndInv
<1> SUFFICES ASSUME Init PROVE IndInv
    OBVIOUS
<1> USE SubtasksConstants DEF Init, Fresh, NoScript
<1>1. TypeOK
  <2>1. 1 \in Step /\ 0 \in 0 .. MaxFaults /\ 0 \in 0 .. MaxFaults + 1 /\ 0 \in 0 .. MaxOutput
      BY DEF Step
  <2> QED BY <2>1 DEF TypeOK, Workspace, Place, Running
<1>2. PlacesFit /\ ScriptFits /\ LaterAreBlank /\ ResultsComeLast
    BY DEF PlacesFit, ScriptFits, LaterAreBlank, ResultsComeLast, Running, Step
<1>3. CopyIsWhole /\ WorkTravels /\ LogIsNew /\ NamesTravel
    BY DEF CopyIsWhole, WorkTravels, LogIsNew, NamesTravel, Working, Running, Step
<1>4. PiecesTravel
    BY DEF PiecesTravel, Step
<1>5. WorkIsKept /\ FewRepeats /\ ArtifactsAreNamed
    BY DEF WorkIsKept, FewRepeats, ArtifactsAreNamed
<1> QED BY <1>1, <1>2, <1>3, <1>4, <1>5 DEF IndInv

\* Every step of the workers, scripts and the service keeps the invariant.
LEMMA IndStep == IndInv /\ [Next]_vars => IndInv'
<1> SUFFICES ASSUME IndInv, [Next]_vars PROVE IndInv'
    OBVIOUS
<1>1. CASE WorkerStep
    BY <1>1, CheckParametersStep, LocateStep, FetchWorkspaceStep, CloneStep, DownloadStep,
       UploadStep, SendWorkspaceStep, PushLogStep, ReportStep, StartScriptStep,
       PollScriptStep, ReadOutputStep, PushSomeStep, FlushStep, JudgeStep
    DEF WorkerStep
<1>2. CASE ScriptStep
    BY <1>2, ScriptStepStep
<1>3. CASE Tick
    BY <1>3, TickStep
<1>4. CASE DeleteBuild
    BY <1>4, DeleteBuildStep
<1>5. CASE UNCHANGED vars
  <2>1. UNCHANGED <<kind, timed, there, stored, console, artifacts, files, listed, result, step, worker,
                    script, faults, repeated, dropped, hollow>>
      BY <1>5 DEF vars, Job, repository, published, history
  <2> QED BY <2>1 DEF IndInv, TypeOK, PlacesFit, ScriptFits, LaterAreBlank, ResultsComeLast,
          CopyIsWhole, HasWork, WorkTravels, LogIsNew, PiecesTravel, NamesTravel,
          WorkIsKept, FewRepeats, ArtifactsAreNamed, Is
<1> QED BY <1>1, <1>2, <1>3, <1>4, <1>5 DEF Next

\* All that the theorems below need holds at all times.
LEMMA Invariance == Spec => []IndInv
BY IndInit, IndStep, PTL DEF Spec

-----------------------------------------------------------------------------
(* Theorems *)

\* The state stays of its type: in particular no piece of output is in the log
\* more often than attempts failed, and once.
THEOREM TypeCorrect == Spec => []TypeOK
<1>1. IndInv => TypeOK
    BY DEF IndInv
<1> QED BY <1>1, Invariance, PTL

\* The work of a subtask that was reported successful stays in the workspace,
\* through the fetches and uploads of the later ones (execute_shell.py:153-160).
THEOREM SuccessKeepsWork == Spec => []WorkIsKept
<1>1. IndInv => WorkIsKept
    BY DEF IndInv
<1> QED BY <1>1, Invariance, PTL

\* The output of a script reaches the log, each piece once but for failed
\* attempts, before its subtask is reported (execute_shell.py:89-125).
THEOREM OutputReachesLog == Spec => []OutputOnce
<1>1. IndInv => OutputOnce
  <2> SUFFICES ASSUME IndInv PROVE OutputOnce
      OBVIOUS
  <2> USE DEF IndInv
  <2>1. ASSUME worker.pc \in {"report", "send"}, Is("shell"), NEW k \in 1 .. script.made
        PROVE  console[step][k] + dropped >= 1
      BY <2>1 DEF PiecesTravel
  <2> QED BY <2>1 DEF OutputOnce, FewRepeats
<1> QED BY <1>1, Invariance, PTL

\* A successful publish names every file it found, and only failed attempts
\* leave artifacts that a reported ticket does not name, whatever became of the
\* other files (publish_artifacts.py:59-100).
THEOREM PublishedIsNamed == Spec => []ArtifactsAreNamed
<1>1. IndInv => ArtifactsAreNamed
    BY DEF IndInv
<1> QED BY <1>1, Invariance, PTL
=============================================================================
