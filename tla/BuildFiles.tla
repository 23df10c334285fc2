----------------------------- MODULE BuildFiles -----------------------------
(***************************************************************************)
(* The files of one build and the frontend's handlers for them: state,     *)
(* console, workspace (frontend/jobs_builds.py) and artifacts              *)
(* (frontend/jobs_builds_artifacts.py), over frontend/storage.py.          *)
(*                                                                         *)
(* No lock is taken here.  A step is one call of the storage: a check, an  *)
(* open, the transfer of one chunk, a stat, an unlink.  An open file is an *)
(* inode, which outlives its name.  A body is two chunks that carry the    *)
(* request they came with, which is enough to tell a whole body from a cut *)
(* or mixed one.                                                           *)
(***************************************************************************)
EXTENDS Integers, Sequences, FiniteSets

CONSTANTS
    Request,       \* the requests of a behaviour, each served once
    Operation,     \* the kinds of requests clients send
    Trigger,       \* the origin of the files a build starts with
    NoFile,
    Backend,       \* where the frontend keeps its files: "ceph" or "local"
    ListingSize,   \* how many artifacts one call of listdir can return
    MaxActive,     \* bound: requests in progress at the same time
    MaxErrors      \* bound: calls of the storage that fail, processes that die

Reads == {"get_state", "get_console", "get_workspace", "get_artifact"}
Writes == {"put_state", "append_console", "put_workspace", "post_artifact",
           "put_artifact", "trigger"}
Deletes == {"delete_workspace", "delete_artifact"}

ASSUME FilesConstants ==
    /\ Operation \subseteq Reads \cup Writes \cup Deletes \cup {"delete_build"}
    /\ IsFiniteSet(Request)
    /\ {Trigger, NoFile} \cap Request = {}
    /\ Trigger # NoFile
    /\ (Request \cup {Trigger}) \cap {"state", "console", "workspace", "build",
                                     "absent", "unknown"} = {}
    /\ Backend \in {"ceph", "local"}
    /\ ListingSize \in Nat \ {0}
    /\ MaxActive \in Nat
    /\ MaxErrors \in Nat

Origin == Request \cup {Trigger}
Artifact == Origin     \* an artifact's uuid, by the request that posted it
TopFile == {"state", "console", "workspace"}
Name == TopFile \cup Artifact

\* The piece a writer leaves out when the file was cut under its position.
Hole == <<NoFile, 0>>
Chunk == (Origin \X {1, 2}) \cup {Hole}
Body(o) == <<<<o, 1>>, <<o, 2>>>>
Longest == 2 * Cardinality(Origin)

VARIABLES
    builddir, artdir,   \* the build's directory and artifacts/ in it exist
    file,    \* file[n]: who created the inode n is linked to, or NoFile
    data,    \* data[n][o]: contents of the inode that o created under name n
    req,     \* the requests
    last,    \* last[n]: whose body n holds, if nobody has disturbed its writing
    errors

vars == <<builddir, artdir, file, data, req, last, errors>>

ReqType ==
    [op : Operation \cup {"none"}, target : Name \cup {"build"},
     pc : {"idle", "check", "mkbuild", "artdir", "mkdir", "open", "write", "size", "read",
           "unlink", "list", "clear", "clear_art", "done", "dead"},
     code : {"none", "ok", "not_found", "conflict", "error"},
     inode : Origin \cup {NoFile}, pos : 0 .. Longest, size : 0 .. Longest,
     seen : Seq(Chunk), todo : SUBSET (TopFile \cup {"artifacts"}), arts : SUBSET Artifact,
     quiet : BOOLEAN,       \* nobody else changed what the request is about
     failed : BOOLEAN,      \* one of its calls failed
     cut : BOOLEAN,         \* its listing left artifacts out
     expect : Origin \cup {"absent", "unknown"}]   \* last, when it came

TypeOK ==
    /\ builddir \in BOOLEAN
    /\ artdir \in BOOLEAN
    /\ file \in [Name -> Origin \cup {NoFile}]
    /\ data \in [Name -> [Origin -> Seq(Chunk)]]
    /\ \A n \in Name : \A o \in Origin : Len(data[n][o]) <= Longest
    /\ req \in [Request -> ReqType]
    /\ last \in [Name -> Origin \cup {"absent", "unknown"}]
    /\ errors \in 0 .. MaxErrors
    /\ ~builddir => ~artdir /\ \A n \in TopFile : file[n] = NoFile
    /\ ~artdir => \A n \in Artifact : file[n] = NoFile

\* Files of a build under way, with an artifact or before its first one.
Present == {"state", "workspace"} \cup (IF artdir THEN {Trigger} ELSE {})

Init ==
    /\ builddir = TRUE
    /\ artdir \in BOOLEAN
    /\ file = [n \in Name |-> IF n \in Present THEN Trigger ELSE NoFile]
    /\ data = [n \in Name |-> [o \in Origin |->
                   IF n \in Present /\ o = Trigger THEN Body(Trigger) ELSE <<>>]]
    /\ req = [r \in Request |->
                 [op |-> "none", target |-> "build", pc |-> "idle", code |-> "none",
                  inode |-> NoFile, pos |-> 0, size |-> Longest, seen |-> <<>>,
                  todo |-> {}, arts |-> {}, quiet |-> TRUE, failed |-> FALSE,
                  cut |-> FALSE, expect |-> "unknown"]]
    /\ last = [n \in Name |-> IF n \in Present THEN Trigger ELSE "absent"]
    /\ errors = 0

-----------------------------------------------------------------------------
(* Steps shared by the handlers *)

At(r, step) == req[r].pc = step
Target(r) == req[r].target
Linked(n) == file[n] # NoFile

\* Broken: the artifacts directory is made when it is missing.
BuildOnly(n) == builddir

\* The directory of n exists.
Parent(n) == IF n \in Artifact THEN artdir ELSE builddir

\* The request becomes now; what it touched is no longer quiet for others.
Becomes(r, now, touched) ==
    req' = [q \in Request |->
        IF q = r THEN now
        ELSE [req[q] EXCEPT !.quiet = @ /\ ~(touched # {} /\ req[q].target \in touched \cup {"build"})]]

GoTo(r, step) == Becomes(r, [req[r] EXCEPT !.pc = step], {})

Answered(r, code) == [req[r] EXCEPT !.pc = "done", !.code = code]
Answer(r, code) == Becomes(r, Answered(r, code), {})

\* update_console_log answers 204 whatever happened.
ErrorCode(r) == IF req[r].op = "append_console" THEN "ok"
                ELSE IF req[r].op = "delete_build" THEN "not_found" ELSE "error"

Storage == <<builddir, artdir, file, data, last>>

\* A call of the storage fails, or the process dies.
Fail(r) ==
    /\ req[r].pc \in {"mkbuild", "artdir", "mkdir", "open", "write", "unlink", "clear", "clear_art"}
    /\ req[r].op \notin Reads
    /\ errors < MaxErrors
    /\ errors' = errors + 1
    /\ \/ Becomes(r, [Answered(r, ErrorCode(r)) EXCEPT !.failed = TRUE], {})
       \/ Becomes(r, [req[r] EXCEPT !.pc = "dead"], {})
    /\ UNCHANGED Storage

TargetOf(r, op) ==
    IF op \in {"put_state", "get_state", "trigger"} THEN {"state"}
    ELSE IF op \in {"append_console", "get_console"} THEN {"console"}
    ELSE IF op \in {"put_workspace", "get_workspace", "delete_workspace"} THEN {"workspace"}
    ELSE IF op = "post_artifact" THEN {r}
    ELSE IF op = "delete_build" THEN {"build"}
    ELSE Artifact

FirstStep(op) == IF op = "post_artifact" THEN "artdir"
                 ELSE IF op = "trigger" THEN "mkbuild" ELSE "check"

Active == {r \in Request : req[r].pc \notin {"idle", "done", "dead"}}

\* A build's number is given out again only when its directory is gone.
Receive(r) ==
    /\ At(r, "idle")
    /\ Cardinality(Active) < MaxActive
    /\ \E op \in Operation : \E n \in TargetOf(r, op) :
          /\ op = "trigger" => ~builddir
          /\ Becomes(r, [req[r] EXCEPT
                            !.op = op, !.target = n, !.pc = FirstStep(op),
                            !.quiet = builddir \/ op = "trigger",
                            !.expect = IF n = "build" THEN "unknown" ELSE last[n]], {})
    /\ UNCHANGED <<Storage, errors>>

NeedsFile(op) == op \in {"get_workspace", "get_artifact", "put_artifact"} \cup Deletes

\* isdir of the build's directory, or isfile of the very file.
Check(r) ==
    /\ At(r, "check")
    /\ LET op == req[r].op
       IN  IF IF NeedsFile(op) THEN Linked(Target(r)) ELSE builddir
           THEN GoTo(r, CASE op = "put_artifact" -> "artdir"
                          [] op \in Deletes -> "unlink"
                          [] op = "delete_build" -> "list"
                          [] OTHER -> "open")
           ELSE Answer(r, "not_found")
    /\ UNCHANGED <<Storage, errors>>

-----------------------------------------------------------------------------
(* Writing *)

\* mkdir of trigger_build.
MakeBuildDir(r) ==
    /\ At(r, "mkbuild")
    /\ IF builddir THEN Answer(r, "error") /\ UNCHANGED builddir
       ELSE /\ builddir' = TRUE
            /\ Becomes(r, [req[r] EXCEPT !.pc = "open"], Name)
    /\ UNCHANGED <<artdir, file, data, last, errors>>

CheckArtifactDir(r) ==
    /\ At(r, "artdir")
    /\ GoTo(r, IF artdir THEN "open" ELSE "mkdir")
    /\ UNCHANGED <<Storage, errors>>

\* Broken: the directory another request just made is an error.
RaceIsLost(r) == Answer(r, "error")

\* ObjectExists is passed over; LocalFSStorage.mkdir raises OSError instead.
AlreadyMade(r) == IF Backend = "ceph" THEN GoTo(r, "open") ELSE Answer(r, "error")

MakeArtifactDir(r) ==
    /\ At(r, "mkdir")
    /\ \/ ~builddir /\ Answer(r, "error") /\ UNCHANGED artdir
       \/ artdir /\ AlreadyMade(r) /\ UNCHANGED artdir
       \/ /\ builddir /\ ~artdir /\ artdir' = TRUE
          /\ Becomes(r, [req[r] EXCEPT !.pc = "open"], {"build"})
    /\ UNCHANGED <<builddir, file, data, last, errors>>

\* Broken: a mode that keeps what is there, or cuts what others append.
KeepsContents(op) == op # "none"
Truncates(op) == op = "none"

Appends(op) == op = "append_console"

\* 'wb' creates the file or cuts it to nothing, 'ab' creates or keeps it.
OpenToWrite(r) ==
    /\ At(r, "open") /\ req[r].op \in Writes
    /\ LET n == Target(r)
           o == IF Linked(n) THEN file[n] ELSE r
       IN  \/ ~Parent(n) /\ Answer(r, ErrorCode(r)) /\ UNCHANGED <<file, data, last>>
           \/ /\ Parent(n)
              /\ file' = [file EXCEPT ![n] = o]
              /\ data' = [data EXCEPT ![n][o] = IF Appends(req[r].op) THEN @ ELSE <<>>]
              /\ last' = [last EXCEPT ![n] = "unknown"]
              /\ Becomes(r, [req[r] EXCEPT !.inode = o, !.pc = "write"], {n})
    /\ UNCHANGED <<builddir, artdir, errors>>

\* What a write at pos makes of a file's contents.
Overwritten(old, pos, chunk) ==
    [i \in 1 .. (IF Len(old) > pos THEN Len(old) ELSE pos + 1) |->
        IF i = pos + 1 THEN chunk ELSE IF i \in DOMAIN old THEN old[i] ELSE Hole]

WriteChunk(r) ==
    /\ At(r, "write")
    /\ LET n == Target(r)
           pos == req[r].pos
           chunk == <<r, pos + 1>>
           done == pos + 1 = 2
       IN  /\ data' = [data EXCEPT ![n][req[r].inode] =
                          IF Appends(req[r].op) THEN Append(@, chunk)
                          ELSE Overwritten(@, pos, chunk)]
           /\ last' = [last EXCEPT ![n] = IF done /\ req[r].quiet THEN r ELSE "unknown"]
           /\ Becomes(r, IF done THEN Answered(r, "ok") ELSE [req[r] EXCEPT !.pos = pos + 1],
                      {n})
    /\ UNCHANGED <<builddir, artdir, file, errors>>

-----------------------------------------------------------------------------
(* Reading *)

\* Ten attempts with a pause; how many are left is not looked at.
TryAgain(r) ==
    \/ Becomes(r, [req[r] EXCEPT !.pc = "open", !.pos = 0, !.seen = <<>>], {})
    \/ Answer(r, "conflict")

OpenToRead(r) ==
    /\ At(r, "open") /\ req[r].op \in Reads
    /\ IF Linked(Target(r))
       THEN Becomes(r, [req[r] EXCEPT !.inode = file[Target(r)],
                           !.pc = IF NeedsFile(req[r].op) THEN "size" ELSE "read"], {})
       ELSE CASE req[r].op = "get_state" -> TryAgain(r)
              [] req[r].op = "get_console" -> Answer(r, "ok")
              [] OTHER -> Answer(r, "error")
    /\ UNCHANGED <<Storage, errors>>

\* Content-Length comes from a stat of the path, not of the open file.
GetSize(r) ==
    /\ At(r, "size")
    /\ LET n == Target(r)
       IN  IF Linked(n)
           THEN Becomes(r, [req[r] EXCEPT !.pc = "read", !.size = Len(data[n][file[n]])], {})
           ELSE Answer(r, "error")
    /\ UNCHANGED <<Storage, errors>>

Whole(s) == \E o \in Origin : s = Body(o)
Cut(s) == \E o \in Origin : s = <<>> \/ s = <<<<o, 1>>>>

\* json.load of a body that was cut fails; whether a mixture of bodies
\* parses nobody can say.
EndOfState(r, s) ==
    \/ ~Cut(s) /\ Answer(r, "ok")
    \/ ~Whole(s) /\ TryAgain(r)

ReadChunk(r) ==
    /\ At(r, "read")
    /\ LET contents == data[Target(r)][req[r].inode]
           pos == req[r].pos
       IN  IF pos < req[r].size /\ pos < Len(contents)
           THEN Becomes(r, [req[r] EXCEPT !.pos = pos + 1,
                               !.seen = Append(@, contents[pos + 1])], {})
           ELSE IF req[r].op = "get_state" THEN EndOfState(r, req[r].seen)
           ELSE Answer(r, "ok")
    /\ UNCHANGED <<Storage, errors>>

-----------------------------------------------------------------------------
(* Deleting *)

UnlinkName(r, n, now) ==
    /\ file' = [file EXCEPT ![n] = NoFile]
    /\ last' = [last EXCEPT ![n] = "absent"]
    /\ Becomes(r, now, {n})

Unlink(r) ==
    /\ At(r, "unlink")
    /\ \/ /\ ~Linked(Target(r))
          /\ Answer(r, IF req[r].op = "delete_artifact" THEN "not_found" ELSE "error")
          /\ UNCHANGED <<file, last>>
       \/ Linked(Target(r)) /\ UnlinkName(r, Target(r), Answered(r, "ok"))
    /\ UNCHANGED <<builddir, artdir, data, errors>>

\* rmtree works on a listing made at its start; four names always fit in it.
ListBuild(r) ==
    /\ At(r, "list")
    /\ IF builddir
       THEN Becomes(r, [req[r] EXCEPT !.pc = "clear",
                           !.todo = {n \in TopFile : Linked(n)}
                                    \cup (IF artdir THEN {"artifacts"} ELSE {})], {})
       ELSE Answer(r, "ok")
    /\ UNCHANGED <<Storage, errors>>

\* Broken: whatever went wrong, the build counts as deleted.
AnythingGoes(r) == "ok"

\* rmdir finds the directory not empty.
NotEmptyCode(r) == ErrorCode(r)

\* NotFound in the middle of rmtree is answered like its success.
GoneCode(r) == "ok"

\* What one listing of the artifacts may return: CephFSStorage.listdir makes a
\* single call with a buffer of 1024 bytes and takes the names that fit for the
\* whole directory; LocalFSStorage has no limit.
Listings ==
    LET all == {n \in Artifact : Linked(n)}
    IN  IF Backend = "ceph" /\ Cardinality(all) > ListingSize
        THEN {part \in SUBSET all : Cardinality(part) = ListingSize}
        ELSE {all}

ClearBuild(r) ==
    /\ At(r, "clear")
    /\ \/ \E n \in req[r].todo \ {"artifacts"} :
             \/ ~Linked(n) /\ Answer(r, GoneCode(r)) /\ UNCHANGED <<file, last>>
             \/ Linked(n) /\ UnlinkName(r, n, [req[r] EXCEPT !.todo = @ \ {n}])
       \/ /\ "artifacts" \in req[r].todo
          /\ UNCHANGED <<file, last>>
          /\ IF artdir
             THEN \E found \in Listings :
                     Becomes(r, [req[r] EXCEPT !.pc = "clear_art", !.todo = @ \ {"artifacts"},
                                    !.arts = found,
                                    !.cut = \E n \in Artifact \ found : Linked(n)], {})
             ELSE Answer(r, GoneCode(r))
    /\ UNCHANGED <<builddir, artdir, data, errors>>

\* ... and of the artifacts directory, with its rmdir.
ClearArtifacts(r) ==
    /\ At(r, "clear_art")
    /\ \/ \E n \in req[r].arts :
             \/ ~Linked(n) /\ Answer(r, GoneCode(r)) /\ UNCHANGED <<file, last>>
             \/ Linked(n) /\ UnlinkName(r, n, [req[r] EXCEPT !.arts = @ \ {n}])
          /\ UNCHANGED artdir
       \/ /\ req[r].arts = {}
          /\ UNCHANGED <<file, last>>
          /\ \/ ~artdir /\ Answer(r, GoneCode(r)) /\ UNCHANGED artdir
             \/ /\ \E n \in Artifact : Linked(n)
                /\ Answer(r, NotEmptyCode(r)) /\ UNCHANGED artdir
             \/ /\ artdir /\ \A n \in Artifact : ~Linked(n)
                /\ artdir' = FALSE
                /\ Becomes(r, [req[r] EXCEPT !.pc = "clear"], Artifact)
    /\ UNCHANGED <<builddir, data, errors>>

RemoveBuildDir(r) ==
    /\ At(r, "clear")
    /\ req[r].todo = {}
    /\ LET empty == ~artdir /\ \A n \in Name : ~Linked(n)
       IN  \/ ~builddir /\ Answer(r, GoneCode(r)) /\ UNCHANGED builddir
           \/ builddir /\ ~empty /\ Answer(r, NotEmptyCode(r)) /\ UNCHANGED builddir
           \/ builddir /\ empty /\ builddir' = FALSE /\ Becomes(r, Answered(r, "ok"), Name)
    /\ UNCHANGED <<artdir, file, data, last, errors>>

-----------------------------------------------------------------------------
Handle(r) ==
    \/ Check(r) \/ MakeBuildDir(r) \/ CheckArtifactDir(r) \/ MakeArtifactDir(r)
    \/ OpenToWrite(r) \/ WriteChunk(r)
    \/ OpenToRead(r) \/ GetSize(r) \/ ReadChunk(r)
    \/ Unlink(r) \/ ListBuild(r) \/ ClearBuild(r) \/ ClearArtifacts(r) \/ RemoveBuildDir(r)

Next == \E r \in Request : Receive(r) \/ Handle(r) \/ Fail(r)

Spec == Init /\ [][Next]_vars

-----------------------------------------------------------------------------
(* Properties *)

\* A request whose file nobody else touched, and whose own calls all worked,
\* gets what it asked for: nothing that went on in other files of the build,
\* before or meanwhile, can refuse it (jobs_builds.py:146-330,
\* jobs_builds_artifacts.py:39-126).  The deletion of a build is refused, half
\* done, exactly when the listing of its artifacts was cut (storage.py:202-206).
QuietRequestsSucceed ==
    \A r \in Request :
        LET q == req[r]
        IN  q.pc = "done" /\ q.quiet /\ ~q.failed =>
            CASE NeedsFile(q.op) \/ q.op = "get_state" ->
                     /\ q.expect \in Origin => q.code = "ok"
                     /\ q.expect = "absent" => q.code # "ok"
              [] q.op = "delete_build" -> q.code = "ok" <=> ~q.cut
              [] OTHER -> q.code = "ok"

\* ... and what it reads is what the last request that wrote the file and
\* finished wrote, all of it and nothing else.
ReadsSeeLastWrite ==
    \A r \in Request :
        LET q == req[r]
        IN  /\ q.pc = "done" /\ q.op \in Reads /\ q.quiet
            /\ q.op # "get_console" /\ q.expect \in Origin
            => q.seen = Body(q.expect)

\* Nothing that was appended to a console log is lost or changed by what others
\* append, delete or write at the same time (jobs_builds.py:236-239).
AppendsAreKept ==
    \A r \in Request :
        LET q == req[r]
            log == data["console"][q.inode]
        IN  q.op = "append_console" /\ q.pc = "done" /\ q.inode # NoFile /\ ~q.failed
            => \E i, j \in DOMAIN log :
                   /\ i < j /\ log[i] = <<r, 1>> /\ log[j] = <<r, 2>>
                   /\ \A k \in DOMAIN log \ {i, j} : log[k][1] # r

\* A deletion that is answered 204 has removed the build, whatever others write
\* meanwhile, as long as nobody else deletes anything (jobs_builds.py:345-351).
DeletionIsThorough ==
    [][\A r \in Request :
           /\ req[r].op = "delete_build" /\ req[r].pc # "done"
           /\ req'[r].pc = "done" /\ req'[r].code = "ok"
           /\ \A q \in Request \ {r} : req[q].op \notin Deletes \cup {"delete_build"}
           => ~builddir']_vars

\* A deletion that is answered 204 has removed the build (jobs_builds.py:333,
\* "Delete a specific build and all related data").
DeletedIsGone ==
    [][\A r \in Request :
           /\ req[r].op = "delete_build" /\ req[r].pc # "done"
           /\ req'[r].pc = "done" /\ req'[r].code = "ok"
           => ~builddir']_vars
=============================================================================
