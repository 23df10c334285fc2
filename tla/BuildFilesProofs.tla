--------------------------- MODULE BuildFilesProofs ---------------------------
(***************************************************************************)
(* Proofs about BuildFiles, for any number of requests, of any kinds, in   *)
(* any number at the same time, with any number of failing calls.          *)
(*                                                                         *)
(* A request is quiet as long as nobody else changed what it is about.     *)
(* The invariant says what a quiet request may rely on at each of its      *)
(* steps, and what each file holds if its last writer was quiet; only the  *)
(* logs, which several requests write at a time, need an account of their  *)
(* own.                                                                    *)
(***************************************************************************)
EXTENDS BuildFiles, FiniteSetTheorems, TLAPS

\* TypeOK without the bound on lengths, which the rest of the invariant gives.
Shape ==
    /\ builddir \in BOOLEAN
    /\ artdir \in BOOLEAN
    /\ file \in [Name -> Origin \cup {NoFile}]
    /\ data \in [Name -> [Origin -> Seq(Chunk)]]
    /\ req \in [Request -> ReqType]
    /\ last \in [Name -> Origin \cup {"absent", "unknown"}]
    /\ errors \in 0 .. MaxErrors
    /\ ~builddir => ~artdir /\ \A n \in TopFile : file[n] = NoFile
    /\ ~artdir => \A n \in Artifact : file[n] = NoFile

\* Each step is one of a request of its kind, which has what it needs for it.
OpFits(r) ==
    /\ At(r, "idle") => req[r].op = "none"
    /\ ~At(r, "idle") =>
          req[r].op \in Operation /\ Target(r) \in TargetOf(r, req[r].op)
    /\ At(r, "check") => req[r].op \notin {"trigger", "post_artifact"}
    /\ At(r, "mkbuild") => req[r].op = "trigger"
    /\ req[r].pc \in {"artdir", "mkdir"} =>
          req[r].op \in {"post_artifact", "put_artifact"}
    /\ At(r, "open") => req[r].op \in Reads \cup Writes
    /\ At(r, "write") => /\ req[r].op \in Writes
                         /\ req[r].inode \in Origin
                         /\ req[r].pos \in {0, 1}
    /\ At(r, "size") => req[r].op \in {"get_workspace", "get_artifact"}
    /\ At(r, "read") => req[r].op \in Reads
    /\ req[r].pc \in {"size", "read"} => req[r].inode \in Origin
    /\ At(r, "unlink") => req[r].op \in Deletes
    /\ req[r].pc \in {"list", "clear", "clear_art"} => req[r].op = "delete_build"
    /\ At(r, "clear_art") => "artifacts" \notin req[r].todo
    /\ req[r].pc \in {"idle", "check", "mkbuild", "artdir", "mkdir", "open", "size"} =>
          req[r].pos = 0 /\ req[r].seen = <<>>
    /\ req[r].pc \in {"idle", "check", "mkbuild", "artdir", "mkdir", "open"}
          /\ req[r].op \notin Reads => req[r].inode = NoFile
    /\ req[r].op \notin {"get_workspace", "get_artifact"} => req[r].size = Longest
    /\ req[r].failed => At(r, "done")
    /\ req[r].pc \in {"idle", "check", "list"} => ~req[r].cut

\* Where the chunks of r are in the log that o created.
Mine(r, o) == {i \in DOMAIN data["console"][o] : data["console"][o][i][1] = r}

NoneOf(r, o) == Mine(r, o) = {}
OneOf(r, o) == \E i \in DOMAIN data["console"][o] :
    Mine(r, o) = {i} /\ data["console"][o][i] = <<r, 1>>
BothOf(r, o) == \E i, j \in DOMAIN data["console"][o] :
    /\ i < j /\ Mine(r, o) = {i, j}
    /\ data["console"][o][i] = <<r, 1>> /\ data["console"][o][j] = <<r, 2>>

\* Only what was appended is in a log, and what r appended is in the log that
\* r opened and nowhere else.
ChunksFit == \A o \in Origin : \A i \in DOMAIN data["console"][o] :
    data["console"][o][i] \in Request \X {1, 2}

Logs(r, o) == req[r].op = "append_console" /\ req[r].inode = o

LogFits(r) == \A o \in Origin :
    /\ ~Logs(r, o) => NoneOf(r, o)
    /\ Logs(r, o) =>
          \/ /\ NoneOf(r, o)
             /\ \/ At(r, "write") /\ req[r].pos = 0
                \/ At(r, "dead")
                \/ At(r, "done") /\ req[r].failed
          \/ /\ OneOf(r, o)
             /\ \/ At(r, "write") /\ req[r].pos = 1
                \/ At(r, "dead")
                \/ At(r, "done") /\ req[r].failed
          \/ BothOf(r, o) /\ At(r, "done")

\* What is known of a file by whose body it holds.
FileFits(n) ==
    /\ last[n] = "absent" => ~Linked(n)
    /\ last[n] \in Origin => /\ Linked(n)
                             /\ n # "console" => data[n][file[n]] = Body(last[n])
    /\ n # "console" => \A o \in Origin : Len(data[n][o]) <= 2

\* What a quiet reader has seen of the file it expects.
SeenFits(r) ==
    /\ req[r].size >= 2
    /\ \/ req[r].pos = 0 /\ req[r].seen = <<>>
       \/ req[r].pos = 1 /\ req[r].seen = <<<<req[r].expect, 1>>>>
       \/ req[r].pos = 2 /\ req[r].seen = Body(req[r].expect)

\* What a quiet request may rely on about its file ...
QuietOnFile(r) == LET n == Target(r) IN
    /\ builddir <=> ~At(r, "mkbuild")
    /\ ~At(r, "write") => req[r].expect = last[n]
    /\ NeedsFile(req[r].op) /\ ~At(r, "check") =>
          Linked(n) /\ req[r].expect # "absent"
    /\ At(r, "open") /\ req[r].op \in Writes /\ n \in Artifact => artdir
    /\ At(r, "write") =>
          /\ Linked(n) /\ file[n] = req[r].inode
          /\ ~Appends(req[r].op) =>
                data[n][req[r].inode] =
                    IF req[r].pos = 0 THEN <<>> ELSE <<<<r, 1>>>>
    /\ req[r].pc \in {"size", "read"} => file[n] = req[r].inode
    /\ At(r, "read") /\ req[r].op # "get_console" /\ req[r].expect \in Origin =>
          SeenFits(r)

\* ... and about the build it deletes.
QuietOnBuild(r) ==
    /\ builddir
    /\ req[r].pc \in {"clear", "clear_art"} =>
          \A n \in TopFile : Linked(n) <=> n \in req[r].todo
    /\ At(r, "clear") => (artdir <=> "artifacts" \in req[r].todo) /\ ~req[r].cut
    /\ At(r, "clear_art") =>
          /\ artdir /\ \A n \in req[r].arts : Linked(n)
          /\ req[r].cut <=> \E n \in Artifact \ req[r].arts : Linked(n)

QuietFits(r) == req[r].quiet /\ r \in Active =>
    IF Target(r) = "build" THEN QuietOnBuild(r) ELSE QuietOnFile(r)

\* Nobody but r deletes anything.
Alone(r) == \A q \in Request \ {r} : req[q].op \notin Deletes \cup {"delete_build"}

\* The only one to delete finds everything that its listing names.
AloneFits(r) == req[r].op = "delete_build" /\ Alone(r) =>
    /\ req[r].pc \in {"clear", "clear_art"} =>
          \A n \in req[r].todo \ {"artifacts"} : Linked(n)
    /\ At(r, "clear") /\ "artifacts" \in req[r].todo => artdir
    /\ At(r, "clear_art") => artdir /\ \A n \in req[r].arts : Linked(n)

IndInv ==
    /\ Shape
    /\ ChunksFit
    /\ \A n \in Name : FileFits(n)
    /\ \A r \in Request : OpFits(r) /\ LogFits(r) /\ QuietFits(r) /\ AloneFits(r)

\* A request to which a step of another one does nothing but disturb it.
Bystander(q) ==
    /\ req'[q].op = req[q].op /\ req'[q].target = req[q].target
    /\ req'[q].pc = req[q].pc /\ req'[q].code = req[q].code
    /\ req'[q].inode = req[q].inode /\ req'[q].pos = req[q].pos
    /\ req'[q].size = req[q].size /\ req'[q].seen = req[q].seen
    /\ req'[q].todo = req[q].todo /\ req'[q].arts = req[q].arts
    /\ req'[q].failed = req[q].failed /\ req'[q].expect = req[q].expect
    /\ req'[q].cut = req[q].cut
    /\ req'[q].quiet => req[q].quiet

-----------------------------------------------------------------------------
(* Constants, lengths and requests *)

\* Requests, files and markers are different things, and files are finite.
LEMMA Constants ==
    /\ NoFile \notin Origin
    /\ Request \subseteq Origin /\ Trigger \in Origin
    /\ Origin \cap {"state", "console", "workspace", "build", "absent", "unknown"} = {}
    /\ Operation \subseteq Reads \cup Writes \cup Deletes \cup {"delete_build"}
    /\ IsFiniteSet(Origin)
    /\ Cardinality(Origin) \in Nat
    /\ Longest \in Nat /\ Longest >= 2
    /\ MaxErrors \in Nat
<1>1. IsFiniteSet(Origin)  BY FilesConstants, FS_AddElement DEF Origin
<1>2. Cardinality(Origin) \in Nat  BY <1>1, FS_CardinalityType
<1>3. Cardinality(Origin) # 0  BY <1>1, FS_EmptySet DEF Origin
<1>4. Longest \in Nat /\ Longest >= 2  BY <1>2, <1>3 DEF Longest
<1>5. Origin \cap {"state", "console", "workspace", "build", "absent", "unknown"} = {}
  BY FilesConstants DEF Origin
<1>6. NoFile \notin Origin  BY FilesConstants DEF Origin
<1>7. QED  BY <1>1, <1>2, <1>4, <1>5, <1>6, FilesConstants DEF Origin

\* What a step of r makes of its own request, and of the others.
LEMMA Own ==
    ASSUME NEW r \in Request, NEW now, NEW touched, Becomes(r, now, touched)
    PROVE  req'[r] = now
BY DEF Becomes

\* A step on one file, or on the build, disturbs whoever is about it.
LEMMA Others ==
    ASSUME req \in [Request -> ReqType],
           NEW r \in Request, NEW now, NEW touched, Becomes(r, now, touched),
           NEW q \in Request \ {r}
    PROVE  /\ Bystander(q)
           /\ req'[q] \in ReqType
           /\ touched # {} /\ req[q].target \in touched \cup {"build"}
                  => ~req'[q].quiet
<1> DEFINE calm == req[q].quiet /\ ~(touched # {} /\ req[q].target \in touched \cup {"build"})
<1>1. req'[q] = [req[q] EXCEPT !.quiet = calm]  BY DEF Becomes
<1>2. calm \in BOOLEAN /\ (calm => req[q].quiet)
      /\ (touched # {} /\ req[q].target \in touched \cup {"build"} => ~calm)
  OBVIOUS
<1>3. req[q] \in ReqType  OBVIOUS
<1> HIDE DEF calm
<1>4. req'[q] \in ReqType  BY <1>1, <1>2, <1>3 DEF ReqType
<1>5. req'[q].quiet = calm  BY <1>1, <1>3 DEF ReqType
<1>6. Bystander(q)  BY <1>1, <1>2, <1>3, <1>5 DEF ReqType, Bystander
<1>7. QED  BY <1>2, <1>4, <1>5, <1>6

\* The requests stay requests if the one that moved is one.
LEMMA BecomesTyped ==
    ASSUME req \in [Request -> ReqType],
           NEW r \in Request, NEW now \in ReqType, NEW touched, Becomes(r, now, touched)
    PROVE  req' \in [Request -> ReqType]
<1>1. \A q \in Request : req'[q] \in ReqType  BY Own, Others
<1>2. req' = [q \in Request |-> req'[q]]  BY DEF Becomes
<1>3. QED  BY <1>1, <1>2

\* The fields of a request.
LEMMA Fields ==
    ASSUME req \in [Request -> ReqType], NEW r \in Request
    PROVE  /\ req[r] \in ReqType
           /\ req[r].op \in Operation \cup {"none"}
           /\ req[r].target \in Name \cup {"build"}
           /\ req[r].pc \in {"idle", "check", "mkbuild", "artdir", "mkdir", "open",
                             "write", "size", "read", "unlink", "list", "clear",
                             "clear_art", "done", "dead"}
           /\ req[r].inode \in Origin \cup {NoFile}
           /\ req[r].pos \in 0 .. Longest /\ req[r].pos \in Nat
           /\ req[r].size \in 0 .. Longest /\ req[r].size \in Nat
           /\ req[r].seen \in Seq(Chunk)
           /\ req[r].todo \subseteq TopFile \cup {"artifacts"}
           /\ req[r].arts \subseteq Artifact
           /\ req[r].quiet \in BOOLEAN
           /\ req[r].failed \in BOOLEAN /\ req[r].cut \in BOOLEAN
           /\ req[r].expect \in Origin \cup {"absent", "unknown"}
<1>1. req[r] \in ReqType  OBVIOUS
<1>2. Longest \in Nat  BY Constants
<1>3. QED  BY <1>1, <1>2 DEF ReqType

\* A request that is answered, in all its fields.
LEMMA AnsweredIs ==
    ASSUME NEW r, req[r] \in ReqType, NEW code
    PROVE  /\ code \in {"none", "ok", "not_found", "conflict", "error"}
                  => Answered(r, code) \in ReqType
           /\ Answered(r, code).op = req[r].op
           /\ Answered(r, code).target = req[r].target
           /\ Answered(r, code).pc = "done" /\ Answered(r, code).code = code
           /\ Answered(r, code).inode = req[r].inode
           /\ Answered(r, code).pos = req[r].pos
           /\ Answered(r, code).size = req[r].size
           /\ Answered(r, code).seen = req[r].seen
           /\ Answered(r, code).quiet = req[r].quiet
           /\ Answered(r, code).failed = req[r].failed
           /\ Answered(r, code).cut = req[r].cut
           /\ Answered(r, code).expect = req[r].expect
<1> PICK q, now : q = req[r] /\ now = Answered(r, code)  OBVIOUS
<1>1. q \in ReqType /\ now = [q EXCEPT !.pc = "done", !.code = code]  BY DEF Answered
<1>2. now =
          [op |-> q.op, target |-> q.target, pc |-> "done", code |-> code,
            inode |-> q.inode, pos |-> q.pos, size |-> q.size, seen |-> q.seen,
            todo |-> q.todo, arts |-> q.arts, quiet |-> q.quiet, failed |-> q.failed, cut |-> q.cut,
            expect |-> q.expect]
  BY <1>1, ZenonT(60) DEF ReqType
<1>3. q \in ReqType  BY <1>1
<1>4. ASSUME code \in {"none", "ok", "not_found", "conflict", "error"}
      PROVE  now \in ReqType
  BY <1>2, <1>3, <1>4 DEF ReqType
<1>5. QED  BY <1>2, <1>4

\* A request that has opened a file, in all its fields.
Opened(q, o, step) == [q EXCEPT !.inode = o, !.pc = step]
\* Nothing but the file and the step has changed.
LEMMA OpenedIs ==
    ASSUME NEW q \in ReqType, NEW o \in Origin, NEW step \in {"size", "read", "write"}
    PROVE  LET now == Opened(q, o, step)
           IN  /\ now \in ReqType /\ now.op = q.op /\ now.target = q.target
               /\ now.pc = step /\ now.pos = q.pos /\ now.seen = q.seen
               /\ now.inode = o /\ now.size = q.size /\ now.quiet = q.quiet
               /\ now.failed = q.failed /\ now.cut = q.cut /\ now.expect = q.expect
<1> PICK now : now = Opened(q, o, step)  OBVIOUS
<1>1. now = [op |-> q.op, target |-> q.target, pc |-> step, code |-> q.code,
              inode |-> o, pos |-> q.pos, size |-> q.size, seen |-> q.seen,
              todo |-> q.todo, arts |-> q.arts, quiet |-> q.quiet,
              failed |-> q.failed, cut |-> q.cut, expect |-> q.expect]
  BY DEF Opened, ReqType
<1>2. now \in ReqType  BY <1>1 DEF ReqType
<1>3. QED  BY <1>1, <1>2

\* What each kind of request is about.
LEMMA Targets ==
    ASSUME IndInv, NEW r \in Request, ~At(r, "idle")
    PROVE  /\ req[r].op \in Reads \cup Writes \cup Deletes \cup {"delete_build"}
           /\ req[r].op = "delete_build" <=> Target(r) = "build"
           /\ req[r].op # "delete_build" => Target(r) \in Name
           /\ req[r].op \in {"get_state", "put_state", "trigger"} => Target(r) = "state"
           /\ req[r].op \in {"get_console", "append_console"} <=> Target(r) = "console"
           /\ req[r].op \in {"get_workspace", "put_workspace", "delete_workspace"}
                  => Target(r) = "workspace"
           /\ req[r].op \in {"post_artifact", "put_artifact", "get_artifact",
                             "delete_artifact"} => Target(r) \in Artifact
<1>1. /\ req[r].op \in Reads \cup Writes \cup Deletes \cup {"delete_build"}
      /\ Target(r) \in TargetOf(r, req[r].op)
  BY Constants DEF IndInv, OpFits
<1>2. r \in Artifact /\ "console" \notin Artifact /\ "build" \notin Artifact
  BY Constants DEF Artifact
<1>3. QED
  BY <1>1, <1>2 DEF TargetOf, Reads, Writes, Deletes, Name, TopFile

\* An operation is what it is.
LEMMA Kinds ==
    ASSUME NEW op
    PROVE  /\ op \in Reads <=> op \in {"get_state", "get_console", "get_workspace", "get_artifact"}
           /\ op \in Writes <=> op \in {"put_state", "append_console", "put_workspace",
                                        "post_artifact", "put_artifact", "trigger"}
           /\ op \in Deletes <=> op \in {"delete_workspace", "delete_artifact"}
           /\ NeedsFile(op) <=> op \in {"get_workspace", "get_artifact", "put_artifact",
                                        "delete_workspace", "delete_artifact"}
           /\ Appends(op) <=> op = "append_console"
BY DEF Reads, Writes, Deletes, NeedsFile, Appends

\* A chunk appended to another makes two.
LEMMA TwoChunks ==
    ASSUME NEW a, NEW b
    PROVE  Append(<<a>>, b) = <<a, b>>
<1> DEFINE s == Append(<<a>>, b)
           t == <<a, b>>
           S == {a, b}
<1>1. <<a>> \in Seq(S) /\ s \in Seq(S) /\ t \in Seq(S)  OBVIOUS
<1>2. Len(s) = 2 /\ s[1] = a /\ s[2] = b  OBVIOUS
<1>3. Len(t) = 2 /\ t[1] = a /\ t[2] = b  OBVIOUS
<1> HIDE DEF s, t, S
<1>4. s = [i \in 1 .. 2 |-> s[i]] /\ t = [i \in 1 .. 2 |-> t[i]]
  BY <1>1, <1>2, <1>3
<1>5. \A i \in 1 .. 2 : s[i] = t[i]  BY <1>2, <1>3
<1>6. [i \in 1 .. 2 |-> s[i]] = [i \in 1 .. 2 |-> t[i]]  BY <1>5
<1>7. QED  BY <1>4, <1>6 DEF s, t

\* A log holds each chunk of each request once: it is no longer than they are many.
LEMMA Lengths ==
    ASSUME IndInv, NEW n \in Name, NEW o \in Origin
    PROVE  Len(data[n][o]) \in Nat /\ Len(data[n][o]) <= Longest
<1>1. data[n][o] \in Seq(Chunk)  BY DEF IndInv, Shape
<1>2. Len(data[n][o]) \in Nat  BY <1>1
<1>3. CASE n # "console"
  <2>1. Len(data[n][o]) <= 2  BY <1>3 DEF IndInv, FileFits
  <2>2. QED  BY <1>2, <2>1, Constants
<1>4. CASE n = "console"
  <2> DEFINE log == data["console"][o]
             All == Origin \X {1, 2}
  <2>1. log \in Seq(Chunk) /\ Len(log) \in Nat /\ DOMAIN log = 1 .. Len(log)
    BY <1>1, <1>2, <1>4
  <2>2. \A i \in DOMAIN log : log[i] \in Request \X {1, 2}
    BY DEF IndInv, ChunksFit
  <2>3. \A i \in DOMAIN log : log[i] \in All  BY <2>2, Constants
  <2>4. ASSUME NEW i \in DOMAIN log, NEW j \in DOMAIN log, log[i] = log[j]
        PROVE  i = j
    <3>1. PICK r \in Request : log[i][1] = r /\ log[j][1] = r  BY <2>2, <2>4
    <3>2. i \in Mine(r, o) /\ j \in Mine(r, o)  BY <3>1 DEF Mine
    <3>3. LogFits(r)  BY DEF IndInv
    <3>4. NoneOf(r, o) \/ OneOf(r, o) \/ BothOf(r, o)  BY <3>3 DEF LogFits
    <3>5. CASE NoneOf(r, o)  BY <3>2, <3>5 DEF NoneOf
    <3>6. CASE OneOf(r, o)  BY <3>2, <3>6 DEF OneOf
    <3>7. CASE BothOf(r, o)
      <4>1. PICK a, b \in DOMAIN log :
                Mine(r, o) = {a, b} /\ log[a] = <<r, 1>> /\ log[b] = <<r, 2>>
        BY <3>7 DEF BothOf
      <4>2. <<r, 1>> # <<r, 2>>  OBVIOUS
      <4>3. QED  BY <2>4, <3>2, <4>1, <4>2
    <3>8. QED  BY <3>4, <3>5, <3>6, <3>7
  <2>5. IsFiniteSet(All) /\ Cardinality(All) = 2 * Cardinality(Origin)
    <3>1. IsFiniteSet({1, 2}) /\ Cardinality({1, 2}) = 2
      <4>1. IsFiniteSet({1}) /\ Cardinality({1}) = 1  BY FS_Singleton
      <4>2. {1, 2} = {1} \cup {2} /\ 2 \notin {1}  OBVIOUS
      <4>3. QED  BY <4>1, <4>2, FS_AddElement
    <3>2. /\ IsFiniteSet(Origin \X {1, 2})
          /\ Cardinality(Origin \X {1, 2}) = Cardinality(Origin) * Cardinality({1, 2})
      BY <3>1, Constants, FS_Product
    <3>3. QED  BY <3>1, <3>2, Constants
  <2> HIDE DEF log, All
  <2>6. log \in Injection(1 .. Len(log), All)
    BY <2>1, <2>3, <2>4 DEF Injection, IsInjective
  <2>7. IsFiniteSet(1 .. Len(log)) /\ Cardinality(1 .. Len(log)) = Len(log)
    <3>1. Cardinality(1 .. Len(log)) = IF 1 > Len(log) THEN 0 ELSE Len(log) - 1 + 1
      BY <2>1, FS_Interval
    <3>2. QED  BY <2>1, <3>1, FS_Interval
  <2>8. Cardinality(1 .. Len(log)) <= Cardinality(All)
    BY <2>5, <2>6, <2>7, FS_Injection
  <2>9. Len(log) <= Longest  BY <2>5, <2>7, <2>8 DEF Longest
  <2>10. QED  BY <1>2, <1>4, <2>9 DEF log
<1>5. QED  BY <1>3, <1>4

-----------------------------------------------------------------------------
(* What a step leaves alone *)

\* A bystander is where it was.
LEMMA OpKept ==
    ASSUME NEW q \in Request, OpFits(q), Bystander(q)
    PROVE  OpFits(q)'
BY DEF OpFits, Bystander, At, Target, TargetOf

\* The log entries of a request depend on the logs and on where it is.
LEMMA LogKept ==
    ASSUME NEW q \in Request, LogFits(q), Bystander(q),
           data'["console"] = data["console"]
    PROVE  LogFits(q)'
<1>1. ASSUME NEW o \in Origin
      PROVE  /\ Logs(q, o)' <=> Logs(q, o)
             /\ NoneOf(q, o)' <=> NoneOf(q, o)
             /\ OneOf(q, o)' <=> OneOf(q, o)
             /\ BothOf(q, o)' <=> BothOf(q, o)
  <2>1. Mine(q, o)' = Mine(q, o)  BY DEF Mine
  <2>2. Logs(q, o)' <=> Logs(q, o)  BY DEF Logs, Bystander
  <2>3. QED  BY <2>1, <2>2 DEF NoneOf, OneOf, BothOf
<1>2. QED  BY <1>1 DEF LogFits, Bystander, At

\* A request that writes no log has no entries, whatever else it does.
LEMMA LogStill ==
    ASSUME NEW r \in Request, LogFits(r),
           data'["console"] = data["console"],
           \A o \in Origin : ~Logs(r, o) /\ ~Logs(r, o)'
    PROVE  LogFits(r)'
<1>1. \A o \in Origin : NoneOf(r, o)  BY DEF LogFits
<1>2. \A o \in Origin : NoneOf(r, o)'  BY <1>1 DEF NoneOf, Mine
<1>3. QED  BY <1>2 DEF LogFits

\* A file that was not touched is what it was.
LEMMA FileKept ==
    ASSUME NEW n \in Name, FileFits(n),
           file'[n] = file[n], data'[n] = data[n], last'[n] = last[n]
    PROVE  FileFits(n)'
BY DEF FileFits, Linked

\* A request that is still quiet can still rely on what it relied on, if its
\* file was not touched, or if nothing was.
LEMMA QuietKept ==
    ASSUME NEW q \in Request, QuietFits(q), Bystander(q),
           req'[q].quiet /\ Target(q) # "build" =>
               /\ file'[Target(q)] = file[Target(q)]
               /\ data'[Target(q)] = data[Target(q)]
               /\ last'[Target(q)] = last[Target(q)]
               /\ builddir' = builddir
               /\ Target(q) \in Artifact /\ artdir => artdir',
           req'[q].quiet /\ Target(q) = "build" =>
               UNCHANGED <<builddir, artdir, file>>
    PROVE  QuietFits(q)'
<1> SUFFICES ASSUME req'[q].quiet, (q \in Active)'
             PROVE  IF Target(q)' = "build" THEN QuietOnBuild(q)' ELSE QuietOnFile(q)'
  BY DEF QuietFits
<1>1. req[q].quiet /\ q \in Active /\ Target(q)' = Target(q)
  BY DEF Bystander, Active, Target
<1>2. CASE Target(q) = "build"
  <2>1. QuietOnBuild(q)  BY <1>1, <1>2 DEF QuietFits
  <2>2. QuietOnBuild(q)'
    BY <1>1, <1>2, <2>1 DEF QuietOnBuild, Bystander, At, Linked
  <2>3. QED  BY <1>1, <1>2, <2>2
<1>3. CASE Target(q) # "build"
  <2>1. QuietOnFile(q)  BY <1>1, <1>3 DEF QuietFits
  <2>2. PICK n : n = Target(q) /\ n = Target(q)'  BY <1>1
  <2>3. /\ file'[n] = file[n] /\ data'[n] = data[n] /\ last'[n] = last[n]
        /\ builddir' = builddir
        /\ n \in Artifact /\ artdir => artdir'
    BY <1>3, <2>2
  <2>4. SeenFits(q) => SeenFits(q)'  BY DEF SeenFits, Bystander
  <2>5. QuietOnFile(q)'
    BY <2>1, <2>2, <2>3, <2>4 DEF QuietOnFile, Bystander, At, Linked
  <2>6. QED  BY <1>1, <1>3, <2>5
<1>4. QED  BY <1>2, <1>3

\* What the only deleter finds stays there as long as it is the only one.
LEMMA AloneKept ==
    ASSUME NEW q \in Request, AloneFits(q), Bystander(q),
           Alone(q)' => Alone(q),
           Alone(q)' /\ req[q].op = "delete_build" =>
               /\ \A n \in TopFile \cup Artifact : Linked(n) => Linked(n)'
               /\ artdir => artdir',
           req[q].todo \subseteq TopFile \cup {"artifacts"},
           req[q].arts \subseteq Artifact
    PROVE  AloneFits(q)'
<1> SUFFICES ASSUME req'[q].op = "delete_build", Alone(q)'
             PROVE  /\ req'[q].pc \in {"clear", "clear_art"} =>
                           \A n \in req'[q].todo \ {"artifacts"} : Linked(n)'
                    /\ At(q, "clear")' /\ "artifacts" \in req'[q].todo => artdir'
                    /\ At(q, "clear_art")' => artdir' /\ \A n \in req'[q].arts : Linked(n)'
  BY DEF AloneFits
<1>1. req[q].op = "delete_build" /\ Alone(q)  BY DEF Bystander
<1>2. QED  BY <1>1 DEF AloneFits, Bystander, At

\* Whoever was the only deleter before a step of r that begins no deletion was
\* so after it, and the other way round.
LEMMA AloneBefore ==
    ASSUME req \in [Request -> ReqType],
           NEW r \in Request, NEW now, NEW touched, Becomes(r, now, touched),
           now.op = req[r].op \/ req[r].op = "none",
           NEW q \in Request
    PROVE  /\ Alone(q)' => Alone(q)
           /\ q # r /\ Alone(q)' => req[r].op \notin Deletes \cup {"delete_build"}
<1>1. \A x \in Request \ {r} : req'[x].op = req[x].op  BY Others DEF Bystander
<1>2. req'[r] = now  BY Own
<1>3. "none" \notin Deletes \cup {"delete_build"}  BY DEF Deletes
<1>4. QED  BY <1>1, <1>2, <1>3 DEF Alone

\* A step that touches no file keeps everything but, perhaps, what concerns
\* the request that makes it.
LEMMA Untouched ==
    ASSUME IndInv, NEW r \in Request, NEW now \in ReqType, Becomes(r, now, {}),
           UNCHANGED Storage, errors' \in 0 .. MaxErrors,
           now.op = req[r].op \/ req[r].op = "none",
           OpFits(r)', LogFits(r)', QuietFits(r)', AloneFits(r)'
    PROVE  IndInv'
<1> USE DEF IndInv
<1>1. req \in [Request -> ReqType]  BY DEF Shape
<1>2. UNCHANGED <<builddir, artdir, file, data, last>>  BY DEF Storage
<1>3. req' \in [Request -> ReqType]  BY <1>1, BecomesTyped
<1>4. Shape'  BY <1>2, <1>3 DEF Shape
<1>5. ChunksFit'  BY <1>2 DEF ChunksFit
<1>6. \A n \in Name : FileFits(n)'  BY <1>2, FileKept
<1>7. ASSUME NEW q \in Request \ {r}
      PROVE  OpFits(q)' /\ LogFits(q)' /\ QuietFits(q)' /\ AloneFits(q)'
  <2>1. Bystander(q)  BY <1>1, Others
  <2>2. OpFits(q)' /\ LogFits(q)'  BY <1>2, <2>1, OpKept, LogKept
  <2>3. QuietFits(q)'  BY <1>2, <2>1, QuietKept
  <2>4. AloneFits(q)'
    <3>1. Alone(q)' => Alone(q)  BY <1>1, AloneBefore
    <3>2. \A n \in TopFile \cup Artifact : Linked(n) => Linked(n)'
      BY <1>2 DEF Linked
    <3>3. QED  BY <1>1, <1>2, <2>1, <3>1, <3>2, Fields, AloneKept
  <2>5. QED  BY <2>2, <2>3, <2>4
<1>8. QED  BY <1>4, <1>5, <1>6, <1>7

\* A request that writes no log has opened none.
LEMMA NoLog ==
    ASSUME IndInv, NEW r \in Request,
           req[r].op # "append_console" \/
           req[r].pc \in {"idle", "check", "mkbuild", "artdir", "mkdir", "open"}
    PROVE  \A o \in Origin : ~Logs(r, o)
<1>1. OpFits(r)  BY DEF IndInv
<1>2. "append_console" \notin Reads  BY DEF Reads
<1>3. CASE req[r].op # "append_console"  BY <1>3 DEF Logs
<1>4. CASE /\ req[r].op = "append_console"
           /\ req[r].pc \in {"idle", "check", "mkbuild", "artdir", "mkdir", "open"}
  <2>1. req[r].inode = NoFile  BY <1>1, <1>2, <1>4 DEF OpFits
  <2>2. QED  BY <2>1, Constants DEF Logs
<1>5. QED  BY <1>3, <1>4

\* An early answer, good or bad, of a request that was not writing.
LEMMA AnswerStep ==
    ASSUME IndInv, NEW r \in Request, req[r].pc \notin {"idle", "write", "done", "dead"},
           NEW code \in {"ok", "not_found", "conflict", "error"},
           Answer(r, code), UNCHANGED <<Storage, errors>>
    PROVE  IndInv'
<1> USE DEF IndInv
<1> DEFINE now == Answered(r, code)
<1>1. req \in [Request -> ReqType] /\ req[r] \in ReqType  BY DEF Shape
<1>2. now \in ReqType /\ now.op = req[r].op /\ now.target = req[r].target
      /\ now.pc = "done" /\ now.inode = req[r].inode /\ now.size = req[r].size
  BY <1>1, AnsweredIs
<1>3. Becomes(r, now, {})  BY DEF Answer
<1> HIDE DEF now
<1>4. req'[r] = now  BY <1>3, Own
<1>5. errors' \in 0 .. MaxErrors  BY DEF Shape
<1>6. OpFits(r)  OBVIOUS
<1>7. OpFits(r)'  BY <1>2, <1>4, <1>6 DEF OpFits, At, Target, TargetOf
<1>8. \A o \in Origin : ~Logs(r, o)
  <2>1. CASE req[r].op # "append_console"  BY <2>1, NoLog
  <2>2. CASE req[r].op = "append_console"
    <3>1. req[r].pc \in {"check", "open"}
      BY <1>1, <1>6, <2>2, Fields, Kinds DEF OpFits, At
    <3>2. QED  BY <3>1, NoLog
  <2>3. QED  BY <2>1, <2>2
<1>9. LogFits(r)'
  <2>1. \A o \in Origin : ~Logs(r, o)'  BY <1>2, <1>4, <1>8 DEF Logs
  <2>2. data' = data  BY DEF Storage
  <2>3. QED  BY <1>8, <2>1, <2>2, LogStill
<1>10. QuietFits(r)'  BY <1>2, <1>4 DEF QuietFits, Active
<1>11. AloneFits(r)'  BY <1>2, <1>4 DEF AloneFits, At
<1>12. QED  BY <1>2, <1>3, <1>5, <1>7, <1>9, <1>10, <1>11, Untouched

-----------------------------------------------------------------------------
(* Steps that touch no file *)

\* A request that goes on to another step, with nothing else changed in it.
LEMMA Goes ==
    ASSUME req \in [Request -> ReqType], NEW r \in Request,
           NEW step \in {"open", "mkdir", "artdir", "unlink", "list", "clear"},
           NEW touched,
           Becomes(r, [req[r] EXCEPT !.pc = step], touched)
    PROVE  /\ [req[r] EXCEPT !.pc = step] \in ReqType
           /\ [req[r] EXCEPT !.pc = step].op = req[r].op
           /\ req'[r].pc = step
           /\ req'[r].op = req[r].op /\ req'[r].target = req[r].target
           /\ req'[r].inode = req[r].inode /\ req'[r].pos = req[r].pos
           /\ req'[r].size = req[r].size /\ req'[r].seen = req[r].seen
           /\ req'[r].todo = req[r].todo /\ req'[r].arts = req[r].arts
           /\ req'[r].quiet = req[r].quiet /\ req'[r].failed = req[r].failed
           /\ req'[r].cut = req[r].cut /\ req'[r].expect = req[r].expect
<1>1. PICK q, now : q = req[r] /\ now = [req[r] EXCEPT !.pc = step]  OBVIOUS
<1>2. q \in ReqType  BY <1>1
<1>3. now = [op |-> q.op, target |-> q.target, pc |-> step, code |-> q.code,
              inode |-> q.inode, pos |-> q.pos, size |-> q.size, seen |-> q.seen,
              todo |-> q.todo, arts |-> q.arts, quiet |-> q.quiet,
              failed |-> q.failed, cut |-> q.cut, expect |-> q.expect]
  BY <1>1, <1>2 DEF ReqType
<1>4. now \in ReqType  BY <1>2, <1>3 DEF ReqType
<1>5. req'[r] = now  BY <1>1, Own
<1>6. QED  BY <1>1, <1>3, <1>4, <1>5

\* A new request is about a file that is as the last writer left it.
LEMMA ReceiveStep ==
    ASSUME IndInv, NEW r \in Request, Receive(r)
    PROVE  IndInv'
<1> USE DEF IndInv
<1>1. PICK op \in Operation : \E n \in TargetOf(r, op) :
          /\ op = "trigger" => ~builddir
          /\ Becomes(r, [req[r] EXCEPT
                            !.op = op, !.target = n, !.pc = FirstStep(op),
                            !.quiet = builddir \/ op = "trigger",
                            !.expect = IF n = "build" THEN "unknown" ELSE last[n]], {})
  BY DEF Receive
<1>2. PICK n \in TargetOf(r, op) :
          /\ op = "trigger" => ~builddir
          /\ Becomes(r, [req[r] EXCEPT
                            !.op = op, !.target = n, !.pc = FirstStep(op),
                            !.quiet = builddir \/ op = "trigger",
                            !.expect = IF n = "build" THEN "unknown" ELSE last[n]], {})
  BY <1>1
<1> DEFINE now == [req[r] EXCEPT
                      !.op = op, !.target = n, !.pc = FirstStep(op),
                      !.quiet = builddir \/ op = "trigger",
                      !.expect = IF n = "build" THEN "unknown" ELSE last[n]]
<1>3. req \in [Request -> ReqType] /\ req[r] \in ReqType /\ At(r, "idle")
      /\ UNCHANGED Storage /\ errors' = errors
  BY DEF Receive, Shape
<1>4. n = "build" <=> op = "delete_build"
  BY Constants, Kinds DEF TargetOf, Artifact
<1>5. n \in Name \cup {"build"}
  BY Constants DEF TargetOf, Name, Artifact, TopFile
<1>6. FirstStep(op) \in {"artdir", "mkbuild", "check"}  BY DEF FirstStep
<1>7. (IF n = "build" THEN "unknown" ELSE last[n]) \in Origin \cup {"absent", "unknown"}
  BY <1>5 DEF Shape
<1>8. (builddir \/ op = "trigger") \in BOOLEAN  OBVIOUS
<1>9. /\ now \in ReqType
      /\ now.op = op /\ now.target = n /\ now.pc = FirstStep(op)
      /\ now.quiet = (builddir \/ op = "trigger")
      /\ now.expect = IF n = "build" THEN "unknown" ELSE last[n]
      /\ now.inode = req[r].inode /\ now.pos = req[r].pos
      /\ now.size = req[r].size /\ now.seen = req[r].seen
      /\ now.todo = req[r].todo /\ now.failed = req[r].failed /\ now.cut = req[r].cut
  <2>1. PICK calm : calm = (builddir \/ op = "trigger")  OBVIOUS
  <2>2. PICK body : body = IF n = "build" THEN "unknown" ELSE last[n]  OBVIOUS
  <2>3. PICK step : step = FirstStep(op)  OBVIOUS
  <2>4. now = [req[r] EXCEPT !.op = op, !.target = n, !.pc = step,
                             !.quiet = calm, !.expect = body]
    BY <2>1, <2>2, <2>3
  <2>5. calm \in BOOLEAN  BY <1>8, <2>1
  <2>6. step \in {"artdir", "mkbuild", "check"}  BY <1>6, <2>3
  <2>7. body \in Origin \cup {"absent", "unknown"}  BY <1>7, <2>2
  <2> HIDE DEF now
  <2> DEFINE r1 == [req[r] EXCEPT !.op = op, !.target = n]
             r2 == [r1 EXCEPT !.pc = step]
             r3 == [r2 EXCEPT !.quiet = calm]
  <2>8. /\ r1 \in ReqType /\ r1.op = op /\ r1.target = n
        /\ r1.inode = req[r].inode /\ r1.pos = req[r].pos /\ r1.size = req[r].size
        /\ r1.seen = req[r].seen /\ r1.todo = req[r].todo /\ r1.failed = req[r].failed
        /\ r1.cut = req[r].cut
    BY <1>3, <1>5 DEF ReqType
  <2>9. now = [r3 EXCEPT !.expect = body]  BY <1>3, <2>4 DEF ReqType
  <2> HIDE DEF r1
  <2>10. /\ r2 \in ReqType /\ r2.op = op /\ r2.target = n /\ r2.pc = step
         /\ r2.inode = req[r].inode /\ r2.pos = req[r].pos /\ r2.size = req[r].size
         /\ r2.seen = req[r].seen /\ r2.todo = req[r].todo /\ r2.failed = req[r].failed
         /\ r2.cut = req[r].cut
    BY <2>6, <2>8 DEF ReqType
  <2> HIDE DEF r2
  <2>11. /\ r3 \in ReqType /\ r3.op = op /\ r3.target = n /\ r3.pc = step
         /\ r3.quiet = calm
         /\ r3.inode = req[r].inode /\ r3.pos = req[r].pos /\ r3.size = req[r].size
         /\ r3.seen = req[r].seen /\ r3.todo = req[r].todo /\ r3.failed = req[r].failed
         /\ r3.cut = req[r].cut
    BY <2>5, <2>10 DEF ReqType
  <2> HIDE DEF r3
  <2>12. /\ now \in ReqType
         /\ now.op = op /\ now.target = n /\ now.pc = step
         /\ now.quiet = calm /\ now.expect = body
         /\ now.inode = req[r].inode /\ now.pos = req[r].pos
         /\ now.size = req[r].size /\ now.seen = req[r].seen
         /\ now.todo = req[r].todo /\ now.failed = req[r].failed
         /\ now.cut = req[r].cut
    BY <2>7, <2>9, <2>11 DEF ReqType
  <2>13. QED  BY <2>1, <2>2, <2>3, <2>12
<1>10. Becomes(r, now, {})  BY <1>2
<1> HIDE DEF now
<1>11. req'[r] = now  BY <1>10, Own
<1>12. OpFits(r)  OBVIOUS
<1>13. /\ req[r].op = "none" /\ req[r].pos = 0 /\ req[r].seen = <<>>
       /\ req[r].inode = NoFile /\ req[r].size = Longest
       /\ ~req[r].failed /\ ~req[r].cut
  BY <1>3, <1>12 DEF OpFits, At, Reads
<1>14. OpFits(r)'
  <2>1. Target(r)' \in TargetOf(r, op)  BY <1>9, <1>11 DEF Target
  <2>2. /\ FirstStep(op) = "check" => op \notin {"trigger", "post_artifact"}
        /\ FirstStep(op) = "mkbuild" => op = "trigger"
        /\ FirstStep(op) = "artdir" => op = "post_artifact"
    BY DEF FirstStep
  <2>3. TargetOf(r, op)' = TargetOf(r, op)  BY DEF TargetOf
  <2>4. QED  BY <1>6, <1>9, <1>11, <1>13, <2>1, <2>2, <2>3 DEF OpFits, At
<1>15. LogFits(r)'
  <2>1. \A o \in Origin : ~Logs(r, o) /\ ~Logs(r, o)'
    BY <1>9, <1>11, <1>13, Constants DEF Logs
  <2>2. data' = data  BY <1>3 DEF Storage
  <2>3. QED  BY <2>1, <2>2, LogStill
<1>16. QuietFits(r)'
  <2>1. SUFFICES ASSUME now.quiet
                 PROVE  IF Target(r)' = "build" THEN QuietOnBuild(r)' ELSE QuietOnFile(r)'
    BY <1>11 DEF QuietFits
  <2>2. builddir \/ op = "trigger"  BY <1>9, <2>1
  <2>3. UNCHANGED <<builddir, artdir, file, data, last>>  BY <1>3 DEF Storage
  <2>4. FirstStep(op) = "mkbuild" <=> op = "trigger"  BY DEF FirstStep
  <2>5. CASE n = "build"
    <3>1. builddir'  BY <1>4, <2>2, <2>3, <2>5
    <3>2. QuietOnBuild(r)'  BY <1>6, <1>9, <1>11, <3>1 DEF QuietOnBuild, At
    <3>3. QED  BY <1>9, <1>11, <2>5, <3>2 DEF Target
  <2>6. CASE n # "build"
    <3>1. builddir' <=> ~At(r, "mkbuild")'
      BY <1>2, <1>9, <1>11, <2>2, <2>3, <2>4 DEF At
    <3>2. Target(r)' = n /\ req'[r].expect = last[n]
      BY <1>9, <1>11, <2>6 DEF Target
    <3>3. FirstStep(op) # "check" => ~NeedsFile(op)  BY Kinds DEF FirstStep
    <3>4. QuietOnFile(r)'
      BY <1>6, <1>9, <1>11, <2>3, <3>1, <3>2, <3>3 DEF QuietOnFile, At
    <3>5. QED  BY <2>6, <3>2, <3>4
  <2>7. QED  BY <2>5, <2>6
<1>17. AloneFits(r)'  BY <1>6, <1>9, <1>11 DEF AloneFits, At
<1>18. errors' \in 0 .. MaxErrors  BY <1>3 DEF Shape
<1>19. QED
  BY <1>3, <1>9, <1>10, <1>13, <1>14, <1>15, <1>16, <1>17, <1>18, Untouched

\* A request that passes its check goes on with what it found.
LEMMA CheckStep ==
    ASSUME IndInv, NEW r \in Request, Check(r)
    PROVE  IndInv'
<1> USE DEF IndInv
<1> DEFINE op == req[r].op
           next == CASE op = "put_artifact" -> "artdir"
                     [] op \in Deletes -> "unlink"
                     [] op = "delete_build" -> "list"
                     [] OTHER -> "open"
           found == IF NeedsFile(op) THEN Linked(Target(r)) ELSE builddir
<1>1. req \in [Request -> ReqType] /\ At(r, "check") /\ UNCHANGED Storage
      /\ UNCHANGED errors /\ errors' \in 0 .. MaxErrors
  BY DEF Check, Shape
<1>2. (found /\ GoTo(r, next)) \/ (~found /\ Answer(r, "not_found"))  BY DEF Check
<1>3. OpFits(r)  OBVIOUS
<1>4. /\ op \notin {"trigger", "post_artifact"}
      /\ req[r].pos = 0 /\ req[r].seen = <<>>
      /\ req[r].op \notin Reads => req[r].inode = NoFile
      /\ ~req[r].failed /\ ~req[r].cut /\ ~At(r, "idle")
      /\ op \notin {"get_workspace", "get_artifact"} => req[r].size = Longest
  BY <1>1, <1>3 DEF OpFits, At
<1>5. CASE ~found /\ Answer(r, "not_found")
  BY <1>1, <1>5, AnswerStep DEF At
<1>6. CASE found /\ GoTo(r, next)
  <2>1. /\ next = "artdir" <=> op = "put_artifact"
        /\ next = "unlink" <=> op \in Deletes
        /\ next = "list" <=> op = "delete_build"
        /\ next \in {"artdir", "unlink", "list", "open"}
    BY Kinds
  <2> DEFINE now == [req[r] EXCEPT !.pc = next]
  <2>2. Becomes(r, now, {})  BY <1>6 DEF GoTo
  <2>3. next \in {"open", "mkdir", "artdir", "unlink", "list", "clear"}  BY <2>1
  <2> HIDE DEF next
  <2>4. /\ now \in ReqType /\ now.op = req[r].op
        /\ req'[r].pc = next
        /\ req'[r].op = req[r].op /\ req'[r].target = req[r].target
        /\ req'[r].inode = req[r].inode /\ req'[r].pos = req[r].pos
        /\ req'[r].size = req[r].size /\ req'[r].seen = req[r].seen
        /\ req'[r].todo = req[r].todo
        /\ req'[r].quiet = req[r].quiet /\ req'[r].failed = req[r].failed
        /\ req'[r].cut = req[r].cut
        /\ req'[r].expect = req[r].expect
    BY <1>1, <2>2, <2>3, Goes
  <2> HIDE DEF now
  <2>5. OpFits(r)'
    <3>1. op \in Reads \cup Writes \cup Deletes \cup {"delete_build"}
      BY <1>4, Targets
    <3>2. next = "open" => op \in Reads \cup Writes  BY <2>1, <3>1
    <3>3. (Target(r) \in TargetOf(r, op))' <=> Target(r) \in TargetOf(r, op)
      BY <2>4 DEF Target, TargetOf
    <3>4. req[r].op \in Operation /\ Target(r) \in TargetOf(r, op)
      BY <1>3, <1>4 DEF OpFits
    <3>5. QED  BY <1>4, <2>1, <2>4, <3>2, <3>3, <3>4 DEF OpFits, At
  <2>6. LogFits(r)'
    <3>1. \A o \in Origin : ~Logs(r, o)  BY <1>1, NoLog DEF At
    <3>2. \A o \in Origin : ~Logs(r, o)'  BY <2>4, <3>1 DEF Logs
    <3>3. data' = data  BY <1>1 DEF Storage
    <3>4. QED  BY <3>1, <3>2, <3>3, LogStill
  <2>7. QuietFits(r)'
    <3>1. SUFFICES ASSUME req[r].quiet
                   PROVE  IF Target(r)' = "build" THEN QuietOnBuild(r)' ELSE QuietOnFile(r)'
      BY <2>4 DEF QuietFits
    <3>2. r \in Active  BY <1>1 DEF Active, At
    <3>3. UNCHANGED <<builddir, artdir, file, data, last>>  BY <1>1 DEF Storage
    <3>4. Target(r)' = Target(r)  BY <2>4 DEF Target
    <3>5. CASE Target(r) = "build"
      <4>1. QuietOnBuild(r)  BY <3>1, <3>2, <3>5 DEF QuietFits
      <4>2. QuietOnBuild(r)'  BY <2>1, <2>4, <3>3, <4>1 DEF QuietOnBuild, At
      <4>3. QED  BY <3>4, <3>5, <4>2
    <3>6. CASE Target(r) # "build"
      <4>1. QuietOnFile(r)  BY <3>1, <3>2, <3>6 DEF QuietFits
      <4>2. PICK n \in Name : n = Target(r)  BY <1>4, <3>6, Targets
      <4>3. builddir /\ req[r].expect = last[n]
        BY <1>1, <4>1, <4>2 DEF QuietOnFile, At
      <4>4. NeedsFile(op) => Linked(n) /\ req[r].expect # "absent"
        BY <1>6, <4>2, <4>3 DEF FileFits
      <4>5. next = "open" /\ op \in Writes => n \notin Artifact
        <5>1. next = "open" /\ op \in Writes =>
                  op \in {"put_state", "append_console", "put_workspace"}
          BY <1>4, <2>1, Kinds
        <5>2. QED  BY <1>4, <4>2, <5>1, Targets, Constants DEF Artifact
      <4>6. QuietOnFile(r)'
        BY <2>1, <2>4, <3>3, <3>4, <4>2, <4>3, <4>4, <4>5
        DEF QuietOnFile, At, Linked
      <4>7. QED  BY <3>4, <3>6, <4>6
    <3>7. QED  BY <3>5, <3>6
  <2>8. AloneFits(r)'  BY <2>1, <2>4 DEF AloneFits, At
  <2>9. QED  BY <1>1, <2>2, <2>4, <2>5, <2>6, <2>7, <2>8, Untouched
<1>7. QED  BY <1>2, <1>5, <1>6

\* The artifacts directory is there, or has to be made.
LEMMA CheckArtifactDirStep ==
    ASSUME IndInv, NEW r \in Request, CheckArtifactDir(r)
    PROVE  IndInv'
<1> USE DEF IndInv
<1> DEFINE next == IF artdir THEN "open" ELSE "mkdir"
           now == [req[r] EXCEPT !.pc = next]
<1>1. /\ req \in [Request -> ReqType] /\ At(r, "artdir") /\ UNCHANGED Storage
      /\ errors' \in 0 .. MaxErrors
      /\ Becomes(r, now, {})
  BY DEF CheckArtifactDir, Shape, GoTo
<1>2. next \in {"open", "mkdir", "artdir", "unlink", "list", "clear"}
      /\ next \in {"open", "mkdir"} /\ (next = "open" => artdir)
  OBVIOUS
<1> HIDE DEF next
<1>3. /\ now \in ReqType /\ now.op = req[r].op
      /\ req'[r].pc = next
      /\ req'[r].op = req[r].op /\ req'[r].target = req[r].target
      /\ req'[r].inode = req[r].inode /\ req'[r].pos = req[r].pos
      /\ req'[r].size = req[r].size /\ req'[r].seen = req[r].seen
      /\ req'[r].todo = req[r].todo
      /\ req'[r].quiet = req[r].quiet /\ req'[r].failed = req[r].failed
      /\ req'[r].expect = req[r].expect
  BY <1>1, <1>2, Goes
<1> HIDE DEF now
<1>4. OpFits(r)  OBVIOUS
<1>5. req[r].op \in {"post_artifact", "put_artifact"}  BY <1>1, <1>4 DEF OpFits, At
<1>6. req[r].op \in Writes /\ req[r].op # "append_console" /\ req[r].op # "delete_build"
  BY <1>5, Kinds
<1>7. OpFits(r)'
  BY <1>1, <1>2, <1>3, <1>4, <1>5, <1>6 DEF OpFits, At, Target, TargetOf
<1>8. LogFits(r)'
  <2>1. \A o \in Origin : ~Logs(r, o) /\ ~Logs(r, o)'  BY <1>3, <1>6 DEF Logs
  <2>2. data' = data  BY <1>1 DEF Storage
  <2>3. QED  BY <2>1, <2>2, LogStill
<1>9. QuietFits(r)'
  <2>1. Target(r) # "build" /\ Target(r)' = Target(r)
    BY <1>1, <1>3, <1>6, Targets DEF Target, At
  <2>2. UNCHANGED <<builddir, artdir, file, data, last>>  BY <1>1 DEF Storage
  <2>3. SUFFICES ASSUME req[r].quiet PROVE QuietOnFile(r)'
    BY <1>3, <2>1 DEF QuietFits
  <2>4. QuietOnFile(r)  BY <1>1, <2>1, <2>3 DEF QuietFits, Active, At
  <2>5. QED  BY <1>1, <1>2, <1>3, <2>1, <2>2, <2>4 DEF QuietOnFile, At, Linked
<1>10. AloneFits(r)'  BY <1>3, <1>6 DEF AloneFits
<1>11. QED  BY <1>1, <1>3, <1>7, <1>8, <1>9, <1>10, Untouched

\* A read of the state begins again.
LEMMA TryAgainStep ==
    ASSUME IndInv, NEW r \in Request, req[r].pc \in {"open", "read"},
           req[r].op = "get_state",
           TryAgain(r), UNCHANGED <<Storage, errors>>
    PROVE  IndInv'
<1> USE DEF IndInv
<1> DEFINE now == [req[r] EXCEPT !.pc = "open", !.pos = 0, !.seen = <<>>]
<1>1. req \in [Request -> ReqType] /\ req[r] \in ReqType
      /\ errors' \in 0 .. MaxErrors
  BY DEF Shape
<1>2. CASE Answer(r, "conflict")  BY <1>2, AnswerStep
<1>3. CASE Becomes(r, now, {})
  <2>1. 0 \in 0 .. Longest /\ <<>> \in Seq(Chunk)  BY Constants
  <2>2. /\ now \in ReqType /\ now.op = req[r].op /\ now.target = req[r].target
        /\ now.pc = "open" /\ now.pos = 0 /\ now.seen = <<>>
        /\ now.size = req[r].size /\ now.quiet = req[r].quiet
        /\ now.failed = req[r].failed /\ now.expect = req[r].expect
    BY <1>1, <2>1 DEF ReqType
  <2> HIDE DEF now
  <2>3. req'[r] = now  BY <1>3, Own
  <2>4. OpFits(r)  OBVIOUS
  <2>5. "get_state" \in Reads  BY DEF Reads
  <2>6. OpFits(r)'
    BY <2>2, <2>3, <2>4, <2>5 DEF OpFits, At, Target, TargetOf
  <2>7. LogFits(r)'
    <3>1. \A o \in Origin : ~Logs(r, o) /\ ~Logs(r, o)'  BY <2>2, <2>3 DEF Logs
    <3>2. data' = data  BY DEF Storage
    <3>3. QED  BY <3>1, <3>2, LogStill
  <2>8. QuietFits(r)'
    <3>1. Target(r) # "build" /\ Target(r)' = Target(r)
      BY <2>2, <2>3, Targets DEF Target, At
    <3>2. UNCHANGED <<builddir, artdir, file, data, last>>  BY DEF Storage
    <3>3. SUFFICES ASSUME req[r].quiet PROVE QuietOnFile(r)'
      BY <2>2, <2>3, <3>1 DEF QuietFits
    <3>4. QuietOnFile(r)  BY <3>1, <3>3 DEF QuietFits, Active
    <3>5. "get_state" \notin Writes /\ ~NeedsFile("get_state")
      BY Kinds
    <3>6. QED  BY <2>2, <2>3, <3>1, <3>2, <3>4, <3>5 DEF QuietOnFile, At
  <2>9. AloneFits(r)'  BY <2>2, <2>3 DEF AloneFits
  <2>10. QED  BY <1>1, <1>3, <2>2, <2>6, <2>7, <2>8, <2>9, Untouched
<1>4. QED  BY <1>2, <1>3 DEF TryAgain

\* An open file is the one the name stood for.
LEMMA OpenToReadStep ==
    ASSUME IndInv, NEW r \in Request, OpenToRead(r)
    PROVE  IndInv'
<1> USE DEF IndInv
<1> DEFINE n == Target(r)
           next == IF NeedsFile(req[r].op) THEN "size" ELSE "read"
           now == [req[r] EXCEPT !.inode = file[n], !.pc = next]
<1>1. /\ req \in [Request -> ReqType] /\ req[r] \in ReqType
      /\ At(r, "open") /\ req[r].op \in Reads /\ UNCHANGED <<Storage, errors>>
      /\ errors' \in 0 .. MaxErrors
  BY DEF OpenToRead, Shape
<1>2. CASE ~Linked(n)
  <2>1. \/ req[r].op = "get_state" /\ TryAgain(r)
        \/ Answer(r, "ok")
        \/ Answer(r, "error")
    BY <1>2 DEF OpenToRead
  <2>2. QED  BY <1>1, <2>1, TryAgainStep, AnswerStep DEF At
<1>3. CASE Linked(n)
  <2>1. Becomes(r, now, {})  BY <1>3 DEF OpenToRead
  <2>2. n \in Name /\ n # "build" /\ req[r].op # "append_console" /\ req[r].op # "delete_build"
    BY <1>1, Kinds, Targets DEF At
  <2>3. file[n] \in Origin  BY <1>3, <2>2 DEF Shape, Linked
  <2>4. /\ next \in {"size", "read"}
        /\ next = "size" => req[r].op \in {"get_workspace", "get_artifact"}
    BY <1>1, Kinds
  <2> HIDE DEF next
  <2>5. /\ now \in ReqType /\ now.op = req[r].op /\ now.target = req[r].target
        /\ now.pc = next /\ now.pos = req[r].pos /\ now.seen = req[r].seen
        /\ now.inode = file[n]
        /\ now.size = req[r].size /\ now.quiet = req[r].quiet
        /\ now.failed = req[r].failed /\ now.expect = req[r].expect
    <3>1. PICK q, x : q = req[r] /\ x = file[n]  OBVIOUS
    <3>2. now = Opened(q, x, next)  BY <3>1 DEF Opened
    <3> HIDE DEF now, n
    <3>3. q \in ReqType /\ x \in Origin  BY <1>1, <2>3, <3>1
    <3>4. next \in {"size", "read", "write"}  BY <2>4
    <3>5. /\ now \in ReqType /\ now.op = q.op /\ now.target = q.target
          /\ now.pc = next /\ now.pos = q.pos /\ now.seen = q.seen
          /\ now.inode = x /\ now.size = q.size /\ now.quiet = q.quiet
          /\ now.failed = q.failed /\ now.expect = q.expect
      BY <3>2, <3>3, <3>4, OpenedIs
    <3>6. QED  BY <3>1, <3>5
  <2> HIDE DEF now
  <2>6. req'[r] = now  BY <2>1, Own
  <2>7. OpFits(r)  OBVIOUS
  <2>8. req[r].pos = 0 /\ req[r].seen = <<>> /\ ~req[r].failed
    BY <1>1, <2>7 DEF OpFits, At
  <2>9. OpFits(r)'
    BY <1>1, <2>3, <2>4, <2>5, <2>6, <2>7, <2>8 DEF OpFits, At, Target, TargetOf
  <2>10. LogFits(r)'
    <3>1. \A o \in Origin : ~Logs(r, o) /\ ~Logs(r, o)'
      BY <2>2, <2>5, <2>6 DEF Logs
    <3>2. data' = data  BY <1>1 DEF Storage
    <3>3. QED  BY <3>1, <3>2, LogStill
  <2>11. QuietFits(r)'
    <3>1. Target(r)' = n  BY <2>5, <2>6 DEF Target
    <3>2. UNCHANGED <<builddir, artdir, file, data, last>>  BY <1>1 DEF Storage
    <3>3. SUFFICES ASSUME req[r].quiet PROVE QuietOnFile(r)'
      BY <2>2, <2>5, <2>6, <3>1 DEF QuietFits
    <3>4. QuietOnFile(r)  BY <1>1, <2>2, <3>3 DEF QuietFits, Active, At
    <3>5. next = "read" => req[r].size = Longest
      BY <1>1, <2>7, Kinds DEF OpFits, next
    <3>6. next = "read" => SeenFits(r)'
      BY <2>5, <2>6, <2>8, <3>5, Constants DEF SeenFits
    <3>7. QED
      BY <1>1, <2>4, <2>5, <2>6, <3>1, <3>2, <3>4, <3>6
      DEF QuietOnFile, At, Linked
  <2>12. AloneFits(r)'  BY <2>2, <2>5, <2>6 DEF AloneFits
  <2>13. QED  BY <1>1, <2>1, <2>5, <2>9, <2>10, <2>11, <2>12, Untouched
<1>4. QED  BY <1>2, <1>3

\* The size is that of the file the name stands for now.
LEMMA GetSizeStep ==
    ASSUME IndInv, NEW r \in Request, GetSize(r)
    PROVE  IndInv'
<1> USE DEF IndInv
<1> DEFINE n == Target(r)
           len == Len(data[n][file[n]])
           now == [req[r] EXCEPT !.pc = "read", !.size = len]
<1>1. /\ req \in [Request -> ReqType] /\ req[r] \in ReqType
      /\ At(r, "size") /\ UNCHANGED <<Storage, errors>>
      /\ errors' \in 0 .. MaxErrors
  BY DEF GetSize, Shape
<1>2. CASE ~Linked(n)
  BY <1>1, <1>2, AnswerStep DEF GetSize, At
<1>3. CASE Linked(n)
  <2>1. Becomes(r, now, {})  BY <1>3 DEF GetSize
  <2>2. OpFits(r)  OBVIOUS
  <2>3. /\ req[r].op \in {"get_workspace", "get_artifact"} /\ req[r].inode \in Origin
        /\ req[r].pos = 0 /\ req[r].seen = <<>> /\ ~req[r].failed
    BY <1>1, <2>2 DEF OpFits, At
  <2>4. n \in Name /\ n # "build" /\ n # "console" /\ req[r].op \in Reads
    BY <1>1, <2>3, Targets, Kinds DEF At
  <2>5. file[n] \in Origin  BY <1>3, <2>4 DEF Shape, Linked
  <2>6. len \in 0 .. Longest  BY <2>4, <2>5, Lengths, Constants
  <2> HIDE DEF len
  <2>7. /\ now \in ReqType /\ now.op = req[r].op /\ now.target = req[r].target
        /\ now.pc = "read" /\ now.pos = req[r].pos /\ now.seen = req[r].seen
        /\ now.inode = req[r].inode
        /\ now.size = len /\ now.quiet = req[r].quiet
        /\ now.failed = req[r].failed /\ now.expect = req[r].expect
    BY <1>1, <2>6 DEF ReqType
  <2> HIDE DEF now
  <2>8. req'[r] = now  BY <2>1, Own
  <2>9. OpFits(r)'
    BY <2>2, <2>3, <2>4, <2>7, <2>8 DEF OpFits, At, Target, TargetOf
  <2>10. LogFits(r)'
    <3>1. \A o \in Origin : ~Logs(r, o) /\ ~Logs(r, o)'
      BY <2>3, <2>7, <2>8 DEF Logs
    <3>2. data' = data  BY <1>1 DEF Storage
    <3>3. QED  BY <3>1, <3>2, LogStill
  <2>11. QuietFits(r)'
    <3>1. Target(r)' = n  BY <2>7, <2>8 DEF Target
    <3>2. UNCHANGED <<builddir, artdir, file, data, last>>  BY <1>1 DEF Storage
    <3>3. SUFFICES ASSUME req[r].quiet PROVE QuietOnFile(r)'
      BY <2>4, <2>7, <2>8, <3>1 DEF QuietFits
    <3>4. QuietOnFile(r)  BY <1>1, <2>4, <3>3 DEF QuietFits, Active, At
    <3>5. req[r].expect \in Origin => len = 2
      <4>1. req[r].expect = last[n]  BY <1>1, <3>4 DEF QuietOnFile, At
      <4>2. FileFits(n)  BY <2>4
      <4>3. req[r].expect \in Origin => data[n][file[n]] = Body(req[r].expect)
        BY <2>4, <4>1, <4>2 DEF FileFits
      <4>4. QED  BY <4>3 DEF Body, len
    <3>6. req[r].expect \in Origin => SeenFits(r)'
      BY <2>3, <2>7, <2>8, <3>5 DEF SeenFits
    <3>7. QED
      BY <1>1, <2>7, <2>8, <3>1, <3>2, <3>4, <3>6 DEF QuietOnFile, At, Linked
  <2>12. AloneFits(r)'  BY <2>3, <2>7, <2>8 DEF AloneFits
  <2>13. QED  BY <1>1, <2>1, <2>7, <2>9, <2>10, <2>11, <2>12, Untouched
<1>4. QED  BY <1>2, <1>3

\* A quiet reader sees the next chunk of the body it expects.
LEMMA ReadChunkStep ==
    ASSUME IndInv, NEW r \in Request, ReadChunk(r)
    PROVE  IndInv'
<1> USE DEF IndInv
<1> DEFINE n == Target(r)
           contents == data[n][req[r].inode]
           pos == req[r].pos
           now == [req[r] EXCEPT !.pos = pos + 1, !.seen = Append(@, contents[pos + 1])]
<1>1. /\ req \in [Request -> ReqType] /\ req[r] \in ReqType
      /\ At(r, "read") /\ UNCHANGED <<Storage, errors>>
      /\ errors' \in 0 .. MaxErrors
  BY DEF ReadChunk, Shape
<1>2. CASE ~(pos < req[r].size /\ pos < Len(contents))
  <2>1. \/ Answer(r, "ok")
        \/ req[r].op = "get_state" /\ TryAgain(r)
    BY <1>2 DEF ReadChunk, EndOfState
  <2>2. QED  BY <1>1, <2>1, AnswerStep, TryAgainStep DEF At
<1>3. CASE pos < req[r].size /\ pos < Len(contents)
  <2>1. Becomes(r, now, {})  BY <1>3 DEF ReadChunk
  <2>2. OpFits(r)  OBVIOUS
  <2>3. req[r].op \in Reads /\ req[r].inode \in Origin /\ ~req[r].failed
    BY <1>1, <2>2 DEF OpFits, At
  <2>4. n \in Name /\ n # "build" /\ req[r].op # "append_console" /\ req[r].op # "delete_build"
        /\ (req[r].op # "get_console" => n # "console")
    BY <1>1, <2>3, Targets, Kinds DEF At
  <2>5. contents \in Seq(Chunk)  BY <2>3, <2>4 DEF Shape
  <2>6. pos + 1 \in 0 .. Longest /\ pos \in Nat /\ pos + 1 <= Len(contents) /\ Len(contents) \in Nat
    BY <1>1, <1>3, <2>5, Fields, Constants
  <2>7. contents[pos + 1] \in Chunk  BY <2>5, <2>6
  <2>8. Append(req[r].seen, contents[pos + 1]) \in Seq(Chunk)
    <3>1. req[r].seen \in Seq(Chunk)  BY <1>1, Fields
    <3>2. QED  BY <2>7, <3>1
  <2> DEFINE seen == Append(req[r].seen, contents[pos + 1])
  <2>9. now = [req[r] EXCEPT !.pos = pos + 1, !.seen = seen]  BY <1>1, SMTT(30) DEF ReqType
  <2> HIDE DEF now, seen
  <2>10. /\ now \in ReqType /\ now.op = req[r].op /\ now.target = req[r].target
         /\ now.pc = req[r].pc /\ now.pos = pos + 1 /\ now.seen = seen
         /\ now.inode = req[r].inode
         /\ now.size = req[r].size /\ now.quiet = req[r].quiet
         /\ now.failed = req[r].failed /\ now.expect = req[r].expect
    BY <1>1, <2>6, <2>8, <2>9 DEF ReqType, seen
  <2>11. req'[r] = now  BY <2>1, Own
  <2>12. OpFits(r)'
    BY <1>1, <2>2, <2>3, <2>10, <2>11 DEF OpFits, At, Target, TargetOf
  <2>13. LogFits(r)'
    <3>1. \A o \in Origin : ~Logs(r, o) /\ ~Logs(r, o)'
      BY <2>4, <2>10, <2>11 DEF Logs
    <3>2. data' = data  BY <1>1 DEF Storage
    <3>3. QED  BY <3>1, <3>2, LogStill
  <2>14. QuietFits(r)'
    <3>1. Target(r)' = n  BY <2>10, <2>11 DEF Target
    <3>2. UNCHANGED <<builddir, artdir, file, data, last>>  BY <1>1 DEF Storage
    <3>3. SUFFICES ASSUME req[r].quiet PROVE QuietOnFile(r)'
      BY <2>4, <2>10, <2>11, <3>1 DEF QuietFits
    <3>4. QuietOnFile(r)  BY <1>1, <2>4, <3>3 DEF QuietFits, Active, At
    <3>5. ASSUME req[r].op # "get_console", req[r].expect \in Origin
          PROVE  SeenFits(r)'
      <4>1. req[r].expect = last[n] /\ file[n] = req[r].inode /\ SeenFits(r)
        BY <1>1, <3>4, <3>5 DEF QuietOnFile, At
      <4>2. FileFits(n)  BY <2>4
      <4>3. contents = Body(req[r].expect)
        BY <2>4, <3>5, <4>1, <4>2 DEF FileFits
      <4>4. Len(contents) = 2 /\ contents[1] = <<req[r].expect, 1>>
            /\ contents[2] = <<req[r].expect, 2>>
        BY <4>3 DEF Body
      <4>5. \/ pos = 0 /\ seen = <<<<req[r].expect, 1>>>>
            \/ pos = 1 /\ seen = Body(req[r].expect)
        <5>1. SeenFits(r) /\ pos + 1 <= 2 /\ pos \in Nat  BY <2>6, <4>1, <4>4
        <5>2. CASE pos = 0
          <6>1. req[r].seen = <<>>  BY <5>1, <5>2 DEF SeenFits
          <6>2. contents[pos + 1] = <<req[r].expect, 1>>  BY <4>4, <5>2
          <6>3. QED  BY <5>2, <6>1, <6>2 DEF seen
        <5>3. CASE pos = 1
          <6>1. req[r].seen = <<<<req[r].expect, 1>>>>  BY <5>1, <5>3 DEF SeenFits
          <6>2. contents[pos + 1] = <<req[r].expect, 2>>  BY <4>4, <5>3
          <6>3. seen = Append(<<<<req[r].expect, 1>>>>, <<req[r].expect, 2>>)
            BY <6>1, <6>2 DEF seen
          <6>4. seen = <<<<req[r].expect, 1>>, <<req[r].expect, 2>>>>
            BY <6>3, TwoChunks
          <6>5. QED  BY <5>3, <6>4 DEF Body
        <5>4. QED  BY <5>1, <5>2, <5>3
      <4>6. QED  BY <2>10, <2>11, <4>1, <4>5 DEF SeenFits
    <3>6. QED
      BY <1>1, <2>10, <2>11, <3>1, <3>2, <3>4, <3>5 DEF QuietOnFile, At, Linked
  <2>15. AloneFits(r)'  BY <2>4, <2>10, <2>11 DEF AloneFits
  <2>16. QED  BY <1>1, <2>1, <2>10, <2>12, <2>13, <2>14, <2>15, Untouched
<1>4. QED  BY <1>2, <1>3

\* A failed call, or the death of its process, leaves everything as it is.
LEMMA FailStep ==
    ASSUME IndInv, NEW r \in Request, Fail(r)
    PROVE  IndInv'
<1> USE DEF IndInv
<1>1. /\ req \in [Request -> ReqType] /\ req[r] \in ReqType
      /\ req[r].pc \in {"mkbuild", "artdir", "mkdir", "open", "write", "unlink",
                        "clear", "clear_art"}
      /\ UNCHANGED Storage
  BY DEF Fail, Shape
<1>2. errors' \in 0 .. MaxErrors  BY Constants DEF Fail, Shape
<1>3. ErrorCode(r) \in {"ok", "not_found", "error"}  BY DEF ErrorCode
<1>4. PICK now :
          /\ Becomes(r, now, {})
          /\ \/ now = [Answered(r, ErrorCode(r)) EXCEPT !.failed = TRUE]
             \/ now = [req[r] EXCEPT !.pc = "dead"]
  BY DEF Fail
<1>5. /\ now \in ReqType /\ now.op = req[r].op /\ now.target = req[r].target
      /\ now.inode = req[r].inode /\ now.pos = req[r].pos /\ now.size = req[r].size
      /\ (now.pc = "done" /\ now.failed) \/ (now.pc = "dead" /\ now.failed = req[r].failed)
  <2>1. CASE now = [req[r] EXCEPT !.pc = "dead"]  BY <1>1, <2>1 DEF ReqType
  <2>2. CASE now = [Answered(r, ErrorCode(r)) EXCEPT !.failed = TRUE]
    <3> DEFINE answer == Answered(r, ErrorCode(r))
    <3>1. /\ answer \in ReqType /\ answer.op = req[r].op /\ answer.target = req[r].target
          /\ answer.pc = "done" /\ answer.inode = req[r].inode
          /\ answer.pos = req[r].pos /\ answer.size = req[r].size
      BY <1>1, <1>3, AnsweredIs
    <3> HIDE DEF answer
    <3>2. now = [answer EXCEPT !.failed = TRUE]  BY <2>2 DEF answer
    <3>3. QED  BY <3>1, <3>2 DEF ReqType
  <2>3. QED  BY <1>4, <2>1, <2>2
<1>6. req'[r] = now  BY <1>4, Own
<1>7. OpFits(r)  OBVIOUS
<1>8. OpFits(r)'
  BY <1>1, <1>5, <1>6, <1>7 DEF OpFits, At, Target, TargetOf
<1>9. LogFits(r)'
  <2>1. \A o \in Origin : Logs(r, o)' <=> Logs(r, o)  BY <1>5, <1>6 DEF Logs
  <2>2. data' = data  BY <1>1 DEF Storage
  <2>3. CASE At(r, "write")
    <3>1. LogFits(r)  OBVIOUS
    <3>2. ASSUME NEW o \in Origin
          PROVE  /\ NoneOf(r, o)' <=> NoneOf(r, o)
                 /\ OneOf(r, o)' <=> OneOf(r, o)
      <4>1. Mine(r, o)' = Mine(r, o)  BY <2>2 DEF Mine
      <4>2. QED  BY <2>2, <4>1 DEF NoneOf, OneOf
    <3>3. ASSUME NEW o \in Origin, Logs(r, o)
          PROVE  NoneOf(r, o) \/ OneOf(r, o)
      BY <2>3, <3>1, <3>3 DEF LogFits, At
    <3>4. At(r, "dead")' \/ (At(r, "done")' /\ req'[r].failed)  BY <1>5, <1>6 DEF At
    <3>5. ASSUME NEW o \in Origin, ~Logs(r, o)
          PROVE  NoneOf(r, o)
      BY <3>1, <3>5 DEF LogFits
    <3>6. QED  BY <2>1, <3>2, <3>3, <3>4, <3>5 DEF LogFits
  <2>4. CASE ~At(r, "write")
    <3>1. \A o \in Origin : ~Logs(r, o)
      <4>1. CASE req[r].op # "append_console"  BY <4>1, NoLog
      <4>2. CASE req[r].op = "append_console"
        <5>1. req[r].pc \in {"check", "open"}
          BY <1>1, <1>7, <2>4, <4>2, Kinds DEF OpFits, At
        <5>2. QED  BY <5>1, NoLog
      <4>3. QED  BY <4>1, <4>2
    <3>2. QED  BY <2>1, <2>2, <3>1, LogStill
  <2>5. QED  BY <2>3, <2>4
<1>10. QuietFits(r)'  BY <1>5, <1>6 DEF QuietFits, Active
<1>11. AloneFits(r)'  BY <1>5, <1>6 DEF AloneFits, At
<1>12. QED  BY <1>1, <1>2, <1>4, <1>5, <1>8, <1>9, <1>10, <1>11, Untouched

\* A listing of the build names everything that is in it.
LEMMA ListBuildStep ==
    ASSUME IndInv, NEW r \in Request, ListBuild(r)
    PROVE  IndInv'
<1> USE DEF IndInv
<1> DEFINE names == {n \in TopFile : Linked(n)} \cup (IF artdir THEN {"artifacts"} ELSE {})
           now == [req[r] EXCEPT !.pc = "clear", !.todo = names]
<1>1. /\ req \in [Request -> ReqType] /\ req[r] \in ReqType
      /\ At(r, "list") /\ UNCHANGED <<Storage, errors>>
      /\ errors' \in 0 .. MaxErrors
  BY DEF ListBuild, Shape
<1>2. CASE ~builddir
  BY <1>1, <1>2, AnswerStep DEF ListBuild, At
<1>3. CASE builddir
  <2>1. Becomes(r, now, {})  BY <1>3 DEF ListBuild
  <2>2. OpFits(r)  OBVIOUS
  <2>3. req[r].op = "delete_build" /\ ~req[r].failed /\ ~req[r].cut
    BY <1>1, <2>2 DEF OpFits, At
  <2>4. /\ names \subseteq TopFile \cup {"artifacts"}
        /\ \A n \in TopFile : n \in names <=> Linked(n)
        /\ "artifacts" \in names <=> artdir
        /\ \A n \in names \ {"artifacts"} : Linked(n)
    BY DEF TopFile
  <2> HIDE DEF names
  <2>5. /\ now \in ReqType /\ now.op = req[r].op /\ now.target = req[r].target
        /\ now.pc = "clear" /\ now.todo = names
        /\ now.size = req[r].size /\ now.quiet = req[r].quiet
        /\ now.failed = req[r].failed /\ now.expect = req[r].expect
        /\ now.cut = req[r].cut
    BY <1>1, <2>4 DEF ReqType
  <2> HIDE DEF now
  <2>6. req'[r] = now  BY <2>1, Own
  <2>7. UNCHANGED <<builddir, artdir, file, data, last>>  BY <1>1 DEF Storage
  <2>8. OpFits(r)'
    BY <1>1, <2>2, <2>3, <2>5, <2>6 DEF OpFits, At, Target, TargetOf
  <2>9. LogFits(r)'
    <3>1. \A o \in Origin : ~Logs(r, o) /\ ~Logs(r, o)'
      BY <2>3, <2>5, <2>6 DEF Logs
    <3>2. QED  BY <2>7, <3>1, LogStill
  <2>10. QuietFits(r)'
    <3>1. Target(r)' = "build"  BY <1>1, <2>3, <2>5, <2>6, Targets DEF Target, At
    <3>2. QuietOnBuild(r)'
      BY <1>3, <2>3, <2>4, <2>5, <2>6, <2>7 DEF QuietOnBuild, At, Linked
    <3>3. QED  BY <3>1, <3>2 DEF QuietFits
  <2>11. AloneFits(r)'
    BY <2>4, <2>5, <2>6, <2>7 DEF AloneFits, At, Linked
  <2>12. QED  BY <1>1, <2>1, <2>5, <2>8, <2>9, <2>10, <2>11, Untouched
<1>4. QED  BY <1>2, <1>3

-----------------------------------------------------------------------------
(* Steps that touch the build's directories *)

\* What a step that links no name, unlinks none and writes nothing keeps of
\* everybody else, if it disturbs whoever relies on the directory it changes.
LEMMA OnlyDirectories ==
    ASSUME IndInv, NEW r \in Request, NEW now \in ReqType, NEW touched,
           Becomes(r, now, touched), touched # {},
           UNCHANGED <<file, data, last, errors>>,
           now.op = req[r].op,
           builddir' \in BOOLEAN, artdir' \in BOOLEAN,
           ~builddir' => ~artdir' /\ \A n \in TopFile : file[n] = NoFile,
           ~artdir' => \A n \in Artifact : file[n] = NoFile,
           builddir' # builddir => Name \subseteq touched,
           artdir /\ ~artdir' => /\ Artifact \subseteq touched
                                 /\ req[r].op = "delete_build",
           OpFits(r)', QuietFits(r)', AloneFits(r)', LogFits(r)'
    PROVE  IndInv'
<1> USE DEF IndInv
<1>1. req \in [Request -> ReqType]  BY DEF Shape
<1>2. req' \in [Request -> ReqType]  BY <1>1, BecomesTyped
<1>3. Shape'  BY <1>2 DEF Shape
<1>4. ChunksFit'  BY DEF ChunksFit
<1>5. \A n \in Name : FileFits(n)'  BY FileKept
<1>6. ASSUME NEW q \in Request \ {r}
      PROVE  OpFits(q)' /\ LogFits(q)' /\ QuietFits(q)' /\ AloneFits(q)'
  <2>1. /\ Bystander(q)
        /\ req[q].target \in touched \cup {"build"} => ~req'[q].quiet
    BY <1>1, Others
  <2>2. OpFits(q)' /\ LogFits(q)'  BY <2>1, OpKept, LogKept
  <2>3. QuietFits(q)'
    <3>1. Target(q) \in Name \cup {"build"}  BY <1>1, Fields DEF Target
    <3>2. req'[q].quiet => /\ Target(q) # "build" /\ Target(q) \notin touched
                           /\ Target(q) \in Name
      BY <2>1, <3>1 DEF Target
    <3>3. req'[q].quiet => builddir' = builddir /\ (Target(q) \in Artifact /\ artdir => artdir')
      BY <3>2
    <3>4. QED  BY <2>1, <3>2, <3>3, QuietKept
  <2>4. AloneFits(q)'
    <3>1. /\ Alone(q)' => Alone(q)
          /\ Alone(q)' => req[r].op \notin Deletes \cup {"delete_build"}
      BY <1>1, AloneBefore
    <3>2. \A n \in TopFile \cup Artifact : Linked(n) => Linked(n)'
      BY DEF Linked
    <3>3. Alone(q)' => (artdir => artdir')  BY <3>1
    <3>4. QED  BY <1>1, <2>1, <3>1, <3>2, <3>3, Fields, AloneKept
  <2>5. QED  BY <2>2, <2>3, <2>4
<1>7. QED  BY <1>3, <1>4, <1>5, <1>6

\* A new build's directory is made once, and its trigger goes on to its state.
LEMMA MakeBuildDirStep ==
    ASSUME IndInv, NEW r \in Request, MakeBuildDir(r)
    PROVE  IndInv'
<1> USE DEF IndInv
<1> DEFINE now == [req[r] EXCEPT !.pc = "open"]
<1>1. /\ req \in [Request -> ReqType] /\ At(r, "mkbuild")
      /\ UNCHANGED <<artdir, file, data, last, errors>>
  BY DEF MakeBuildDir, Shape
<1>2. CASE builddir
  <2>1. Answer(r, "error") /\ UNCHANGED <<Storage, errors>>
    BY <1>2 DEF MakeBuildDir, Storage
  <2>2. QED  BY <1>1, <2>1, AnswerStep DEF At
<1>3. CASE ~builddir
  <2>1. builddir' = TRUE /\ Becomes(r, now, Name)  BY <1>3 DEF MakeBuildDir
  <2>2. /\ now \in ReqType /\ now.op = req[r].op
        /\ req'[r].pc = "open"
        /\ req'[r].op = req[r].op /\ req'[r].target = req[r].target
        /\ req'[r].inode = req[r].inode /\ req'[r].pos = req[r].pos
        /\ req'[r].size = req[r].size /\ req'[r].seen = req[r].seen
        /\ req'[r].todo = req[r].todo
        /\ req'[r].quiet = req[r].quiet /\ req'[r].failed = req[r].failed
        /\ req'[r].expect = req[r].expect
    BY <1>1, <2>1, Goes
  <2> HIDE DEF now
  <2>3. OpFits(r)  OBVIOUS
  <2>4. req[r].op = "trigger" /\ Target(r) = "state"
    BY <1>1, <2>3, Targets DEF OpFits, At
  <2>5. req[r].op \in Writes /\ req[r].op \notin Reads /\ ~NeedsFile(req[r].op)
    BY <2>4, Kinds
  <2>6. OpFits(r)'
    BY <1>1, <2>2, <2>3, <2>5 DEF OpFits, At, Target, TargetOf
  <2>7. LogFits(r)'
    <3>1. \A o \in Origin : ~Logs(r, o) /\ ~Logs(r, o)'  BY <2>2, <2>4 DEF Logs
    <3>2. QED  BY <1>1, <3>1, LogStill
  <2>8. QuietFits(r)'
    <3>1. Target(r)' = "state" /\ "state" \notin Artifact
      BY <2>2, <2>4, Constants DEF Target, Artifact
    <3>2. SUFFICES ASSUME req[r].quiet PROVE QuietOnFile(r)'
      BY <2>2, <3>1 DEF QuietFits
    <3>3. QuietOnFile(r)  BY <1>1, <2>4, <3>2 DEF QuietFits, Active, At
    <3>4. QED
      BY <1>1, <2>1, <2>2, <2>4, <2>5, <3>1, <3>3 DEF QuietOnFile, At
  <2>9. AloneFits(r)'  BY <2>2, <2>4 DEF AloneFits
  <2>10. Name # {} /\ builddir' \in BOOLEAN /\ artdir' = artdir
    BY <1>1, <2>1 DEF Name, TopFile
  <2>11. /\ artdir' \in BOOLEAN
         /\ ~artdir' => \A n \in Artifact : file[n] = NoFile
    BY <2>10 DEF Shape
  <2>12. builddir'  BY <2>1
  <2>13. ~(artdir /\ ~artdir')  BY <2>10
  <2>14. UNCHANGED <<file, data, last, errors>>  BY <1>1
  <2>15. Becomes(r, now, Name)  BY <2>1
  <2>16. QED
    BY <2>2, <2>6, <2>7, <2>8, <2>9, <2>10, <2>11, <2>12, <2>13, <2>14, <2>15,
       OnlyDirectories
<1>4. QED  BY <1>2, <1>3

\* The artifacts directory is made, or somebody else was faster.
LEMMA MakeArtifactDirStep ==
    ASSUME IndInv, NEW r \in Request, MakeArtifactDir(r)
    PROVE  IndInv'
<1> USE DEF IndInv
<1> DEFINE now == [req[r] EXCEPT !.pc = "open"]
<1>1. /\ req \in [Request -> ReqType] /\ At(r, "mkdir")
      /\ UNCHANGED <<builddir, file, data, last, errors>>
      /\ errors' \in 0 .. MaxErrors
  BY DEF MakeArtifactDir, Shape
<1>2. CASE Answer(r, "error") /\ UNCHANGED artdir
  <2>1. UNCHANGED <<Storage, errors>>  BY <1>1, <1>2 DEF Storage
  <2>2. QED  BY <1>1, <1>2, <2>1, AnswerStep DEF At
<1>3. CASE /\ \/ artdir /\ UNCHANGED artdir /\ Becomes(r, now, {})
              \/ builddir /\ artdir' = TRUE /\ Becomes(r, now, {"build"})
  <2>1. PICK touched : Becomes(r, now, touched)  BY <1>3
  <2>2. artdir' = TRUE  BY <1>3 DEF Shape
  <2>3. /\ now \in ReqType /\ now.op = req[r].op
        /\ req'[r].pc = "open"
        /\ req'[r].op = req[r].op /\ req'[r].target = req[r].target
        /\ req'[r].inode = req[r].inode /\ req'[r].pos = req[r].pos
        /\ req'[r].size = req[r].size /\ req'[r].seen = req[r].seen
        /\ req'[r].todo = req[r].todo
        /\ req'[r].quiet = req[r].quiet /\ req'[r].failed = req[r].failed
        /\ req'[r].expect = req[r].expect
    BY <1>1, <2>1, Goes
  <2> HIDE DEF now
  <2>4. OpFits(r)  OBVIOUS
  <2>5. req[r].op \in {"post_artifact", "put_artifact"}  BY <1>1, <2>4 DEF OpFits, At
  <2>6. req[r].op \in Writes /\ req[r].op \notin Reads /\ req[r].op # "append_console"
        /\ req[r].op # "delete_build"
    BY <2>5, Kinds
  <2>7. OpFits(r)'
    BY <1>1, <2>3, <2>4, <2>6 DEF OpFits, At, Target, TargetOf
  <2>8. LogFits(r)'
    <3>1. \A o \in Origin : ~Logs(r, o) /\ ~Logs(r, o)'  BY <2>3, <2>6 DEF Logs
    <3>2. QED  BY <1>1, <3>1, LogStill
  <2>9. QuietFits(r)'
    <3>1. Target(r) # "build" /\ Target(r)' = Target(r)
      BY <1>1, <2>3, <2>6, Targets DEF Target, At
    <3>2. SUFFICES ASSUME req[r].quiet PROVE QuietOnFile(r)'
      BY <2>3, <3>1 DEF QuietFits
    <3>3. QuietOnFile(r)  BY <1>1, <3>1, <3>2 DEF QuietFits, Active, At
    <3>4. QED
      BY <1>1, <2>2, <2>3, <3>1, <3>3 DEF QuietOnFile, At, Linked
  <2>10. AloneFits(r)'  BY <2>3, <2>6 DEF AloneFits
  <2>11. CASE artdir /\ UNCHANGED artdir /\ Becomes(r, now, {})
    <3>1. UNCHANGED Storage  BY <1>1, <2>11 DEF Storage
    <3>2. QED  BY <1>1, <2>3, <2>7, <2>8, <2>9, <2>10, <2>11, <3>1, Untouched
  <2>12. CASE builddir /\ Becomes(r, now, {"build"})
    <3>1. builddir' = TRUE /\ artdir' \in BOOLEAN  BY <1>1, <2>2, <2>12 DEF Shape
    <3>2. QED
      BY <1>1, <2>2, <2>3, <2>7, <2>8, <2>9, <2>10, <2>12, <3>1, OnlyDirectories
  <2>13. QED  BY <1>3, <2>11, <2>12 DEF now
<1>4. QED  BY <1>2, <1>3 DEF MakeArtifactDir, AlreadyMade, GoTo

-----------------------------------------------------------------------------
(* Steps that touch one file *)

\* What a step on file m keeps of everybody else.
LEMMA OnlyFile ==
    ASSUME IndInv, NEW r \in Request, NEW now \in ReqType, NEW m \in Name,
           Becomes(r, now, {m}), now.op = req[r].op,
           UNCHANGED <<builddir, artdir, errors>>,
           file' \in [Name -> Origin \cup {NoFile}],
           data' \in [Name -> [Origin -> Seq(Chunk)]],
           last' \in [Name -> Origin \cup {"absent", "unknown"}],
           \A n \in Name \ {m} :
               file'[n] = file[n] /\ data'[n] = data[n] /\ last'[n] = last[n],
           Linked(m)' => Parent(m),
           Linked(m) /\ ~Linked(m)' => req[r].op \in Deletes \cup {"delete_build"},
           ChunksFit', FileFits(m)',
           OpFits(r)', QuietFits(r)', AloneFits(r)',
           \A q \in Request : LogFits(q)'
    PROVE  IndInv'
<1> USE DEF IndInv
<1>1. req \in [Request -> ReqType]  BY DEF Shape
<1>2. req' \in [Request -> ReqType]  BY <1>1, BecomesTyped
<1>3. Shape'
  <2>1. m \in TopFile /\ ~builddir => file'[m] = NoFile
    BY Constants DEF Parent, Linked, TopFile, Artifact
  <2>2. m \in Artifact /\ ~artdir => file'[m] = NoFile  BY DEF Parent, Linked
  <2>3. \A n \in TopFile \cup Artifact : n \in Name  BY DEF Name
  <2>4. ~builddir => ~artdir /\ \A n \in TopFile : file'[n] = NoFile
    BY <2>1, <2>3 DEF Shape
  <2>5. ~artdir => \A n \in Artifact : file'[n] = NoFile
    BY <2>2, <2>3 DEF Shape
  <2>6. QED  BY <1>2, <2>4, <2>5 DEF Shape
<1>4. \A n \in Name : FileFits(n)'  BY FileKept
<1>5. ASSUME NEW q \in Request \ {r}
      PROVE  OpFits(q)' /\ QuietFits(q)' /\ AloneFits(q)'
  <2>1. /\ Bystander(q)
        /\ req[q].target \in {m, "build"} => ~req'[q].quiet
    <3>1. {m} # {} /\ {m} \cup {"build"} = {m, "build"}  OBVIOUS
    <3>2. QED  BY <1>1, <3>1, Others
  <2>2. OpFits(q)'  BY <2>1, OpKept
  <2>3. QuietFits(q)'
    <3>1. Target(q) \in Name \cup {"build"}  BY <1>1, Fields DEF Target
    <3>2. req'[q].quiet => Target(q) # "build" /\ Target(q) \in Name \ {m}
      BY <2>1, <3>1 DEF Target
    <3>3. QED  BY <2>1, <3>2, QuietKept
  <2>4. AloneFits(q)'
    <3>1. /\ Alone(q)' => Alone(q)
          /\ Alone(q)' => req[r].op \notin Deletes \cup {"delete_build"}
      BY <1>1, AloneBefore
    <3>2. Alone(q)' => \A n \in TopFile \cup Artifact : Linked(n) => Linked(n)'
      BY <3>1 DEF Linked, Name
    <3>3. QED  BY <1>1, <2>1, <3>1, <3>2, Fields, AloneKept
  <2>5. QED  BY <2>2, <2>3, <2>4
<1>6. QED  BY <1>3, <1>4, <1>5

\* A file that is opened for writing belongs to the one who created it; it is
\* cut, or kept by those who append.
LEMMA OpenToWriteStep ==
    ASSUME IndInv, NEW r \in Request, OpenToWrite(r)
    PROVE  IndInv'
<1> USE DEF IndInv
<1> PICK n : n = Target(r)  OBVIOUS
<1> PICK o : o = IF Linked(n) THEN file[n] ELSE r  OBVIOUS
<1> DEFINE now == [req[r] EXCEPT !.inode = o, !.pc = "write"]
<1>1. /\ req \in [Request -> ReqType] /\ req[r] \in ReqType
      /\ At(r, "open") /\ req[r].op \in Writes /\ UNCHANGED <<builddir, artdir, errors>>
  BY DEF OpenToWrite, Shape
<1>2. CASE ~Parent(n) /\ Answer(r, ErrorCode(r)) /\ UNCHANGED <<file, data, last>>
  <2>1. UNCHANGED <<Storage, errors>>  BY <1>1, <1>2 DEF Storage
  <2>2. ErrorCode(r) \in {"ok", "not_found", "conflict", "error"}  BY DEF ErrorCode
  <2>3. QED  BY <1>1, <1>2, <2>1, <2>2, AnswerStep DEF At
<1>3. CASE /\ Parent(n)
           /\ file' = [file EXCEPT ![n] = o]
           /\ data' = [data EXCEPT ![n][o] = IF Appends(req[r].op) THEN @ ELSE <<>>]
           /\ last' = [last EXCEPT ![n] = "unknown"]
           /\ Becomes(r, now, {n})
  <2>1. OpFits(r)  OBVIOUS
  <2>2. req[r].pos = 0 /\ ~req[r].failed /\ req[r].op \notin Reads
    BY <1>1, <2>1, Kinds DEF OpFits, At
  <2>3. /\ n \in Name /\ n # "build" /\ req[r].op # "delete_build"
        /\ n = "console" <=> req[r].op = "append_console"
    BY <1>1, Targets, Kinds DEF At
  <2>4. o \in Origin  BY <2>3, Constants DEF Shape, Linked
  <2>5. /\ now \in ReqType /\ now.op = req[r].op /\ now.target = req[r].target
        /\ now.pc = "write" /\ now.inode = o
        /\ now.pos = 0 /\ now.size = req[r].size
        /\ now.quiet = req[r].quiet /\ now.failed = req[r].failed
        /\ now.expect = req[r].expect
    <3>1. PICK q : q = req[r]  OBVIOUS
    <3>2. now = Opened(q, o, "write")  BY <3>1 DEF Opened
    <3> HIDE DEF now
    <3>3. q \in ReqType  BY <1>1, <3>1
    <3>4. /\ now \in ReqType /\ now.op = q.op /\ now.target = q.target
          /\ now.pc = "write" /\ now.pos = q.pos /\ now.seen = q.seen
          /\ now.inode = o /\ now.size = q.size /\ now.quiet = q.quiet
          /\ now.failed = q.failed /\ now.expect = q.expect
      BY <2>4, <3>2, <3>3, OpenedIs
    <3>5. QED  BY <2>2, <3>1, <3>4
  <2> HIDE DEF now
  <2>6. req'[r] = now  BY <1>3, Own
  <2>7. /\ file' \in [Name -> Origin \cup {NoFile}] /\ file'[n] = o
        /\ last' \in [Name -> Origin \cup {"absent", "unknown"}] /\ last'[n] = "unknown"
        /\ \A x \in Name \ {n} : file'[x] = file[x] /\ last'[x] = last[x]
    BY <1>3, <2>3, <2>4 DEF Shape
  <2> DEFINE new == IF Appends(req[r].op) THEN data[n][o] ELSE <<>>
  <2>8. data[n] \in [Origin -> Seq(Chunk)] /\ data[n][o] \in Seq(Chunk)
    BY <2>3, <2>4 DEF Shape
  <2>9. new \in Seq(Chunk)  BY <2>8
  <2>10. /\ data' \in [Name -> [Origin -> Seq(Chunk)]]
         /\ data'[n] = [data[n] EXCEPT ![o] = new]
         /\ \A x \in Name \ {n} : data'[x] = data[x]
    <3>1. data' = [data EXCEPT ![n] = [data[n] EXCEPT ![o] = new]]  BY <1>3
    <3>2. [data[n] EXCEPT ![o] = new] \in [Origin -> Seq(Chunk)]  BY <2>8, <2>9
    <3> HIDE DEF new
    <3>3. data \in [Name -> [Origin -> Seq(Chunk)]]  BY DEF Shape
    <3>4. QED  BY <2>3, <3>1, <3>2, <3>3
  <2>11. "console" \in Name  BY DEF Name, TopFile
  <2>12. data'["console"] = data["console"]
    <3>1. CASE n = "console"
      <4>1. new = data[n][o]  BY <2>3, <3>1, Kinds
      <4>2. [data[n] EXCEPT ![o] = data[n][o]] = data[n]  BY <2>4, <2>8
      <4>3. data'[n] = data[n]  BY <2>10, <4>1, <4>2
      <4>4. QED  BY <3>1, <4>3
    <3>2. QED  BY <2>10, <2>11, <3>1
  <2>13. \A x \in Origin : Len(data'[n][x]) = Len(data[n][x]) \/ data'[n][x] = <<>>
    BY <2>4, <2>8, <2>10
  <2>14. FileFits(n)'
    <3>1. FileFits(n)  BY <2>3
    <3>2. n # "console" => \A x \in Origin : Len(data'[n][x]) <= 2
      BY <2>13, <3>1 DEF FileFits
    <3>3. "unknown" # "absent" /\ "unknown" \notin Origin  BY Constants
    <3>4. QED  BY <2>7, <3>2, <3>3 DEF FileFits
  <2>15. ChunksFit'  BY <2>12 DEF ChunksFit
  <2>16. OpFits(r)'
    <3>1. req[r].op \in Operation /\ Target(r)' = Target(r)
          /\ Target(r) \in TargetOf(r, req[r].op)
      BY <1>1, <2>1, <2>5, <2>6 DEF OpFits, At, Target
    <3>2. (Target(r) \in TargetOf(r, req[r].op))'
      BY <2>5, <2>6, <3>1 DEF TargetOf
    <3>3. req'[r].size = Longest \/ req'[r].op \in {"get_workspace", "get_artifact"}
      BY <2>1, <2>5, <2>6 DEF OpFits
    <3>4. QED
      BY <1>1, <2>2, <2>4, <2>5, <2>6, <3>1, <3>2, <3>3 DEF OpFits, At
  <2>17. ASSUME NEW q \in Request PROVE LogFits(q)'
    <3>1. CASE q # r
      <4>1. Bystander(q)  BY <1>1, <1>3, <3>1, Others
      <4>2. QED  BY <2>12, <4>1, LogKept
    <3>2. CASE q = r
      <4>1. LogFits(r) /\ \A x \in Origin : ~Logs(r, x)
        BY <1>1, NoLog DEF At
      <4>2. \A x \in Origin : NoneOf(r, x)'
        BY <2>12, <4>1 DEF LogFits, NoneOf, Mine
      <4>3. At(r, "write")' /\ req'[r].pos = 0  BY <2>5, <2>6 DEF At
      <4>4. QED  BY <3>2, <4>2, <4>3 DEF LogFits
    <3>3. QED  BY <3>1, <3>2
  <2>18. QuietFits(r)'
    <3>1. Target(r)' = n /\ Target(r) = n  BY <2>5, <2>6 DEF Target
    <3>2. SUFFICES ASSUME req[r].quiet PROVE QuietOnFile(r)'
      BY <2>3, <2>5, <2>6, <3>1 DEF QuietFits
    <3>3. QuietOnFile(r)  BY <1>1, <2>3, <3>1, <3>2 DEF QuietFits, Active, At
    <3>4. builddir /\ (NeedsFile(req[r].op) => req[r].expect # "absent")
      BY <1>1, <3>1, <3>3 DEF QuietOnFile, At
    <3>5. Linked(n)' /\ file'[n] = o  BY <2>4, <2>7, Constants DEF Linked
    <3>6. ~Appends(req[r].op) => data'[n][o] = <<>>  BY <2>4, <2>8, <2>10
    <3>7. QED
      BY <1>1, <2>5, <2>6, <3>1, <3>4, <3>5, <3>6 DEF QuietOnFile, At, Linked
  <2>19. AloneFits(r)'  BY <2>3, <2>5, <2>6 DEF AloneFits
  <2>20. Linked(n)'  BY <2>4, <2>7, Constants DEF Linked
  <2>21. QED
    BY <1>1, <1>3, <2>3, <2>5, <2>7, <2>10, <2>14, <2>15, <2>16, <2>17, <2>18, <2>19,
       <2>20, OnlyFile
<1>4. QED  BY <1>2, <1>3 DEF OpenToWrite

\* A chunk written at its place, of a file of two chunks at most.
LEMMA OverwrittenFits ==
    ASSUME NEW old \in Seq(Chunk), Len(old) <= 2, NEW pos \in {0, 1}, NEW chunk \in Chunk
    PROVE  /\ Overwritten(old, pos, chunk) \in Seq(Chunk)
           /\ Len(Overwritten(old, pos, chunk)) <= 2
<1> DEFINE len == IF Len(old) > pos THEN Len(old) ELSE pos + 1
           at(i) == IF i = pos + 1 THEN chunk ELSE IF i \in DOMAIN old THEN old[i] ELSE Hole
<1>1. len \in Nat /\ len <= 2  OBVIOUS
<1>2. \A i \in 1 .. len : at(i) \in Chunk  BY DEF Chunk
<1>3. Overwritten(old, pos, chunk) = [i \in 1 .. len |-> at(i)]  BY DEF Overwritten
<1> HIDE DEF len, at
<1>4. [i \in 1 .. len |-> at(i)] \in Seq(Chunk) /\ Len([i \in 1 .. len |-> at(i)]) = len
  BY <1>1, <1>2
<1>5. QED  BY <1>1, <1>3, <1>4

\* The first chunk of a body in an empty file, and the second one after it.
LEMMA OverwrittenBody ==
    ASSUME NEW a, NEW b
    PROVE  /\ Overwritten(<<>>, 0, a) = <<a>>
           /\ Overwritten(<<a>>, 1, b) = <<a, b>>
<1>1. Overwritten(<<>>, 0, a) = [i \in 1 .. 1 |-> a]
  <2>1. Overwritten(<<>>, 0, a) =
            [i \in 1 .. 1 |-> IF i = 0 + 1 THEN a
                              ELSE IF i \in DOMAIN <<>> THEN (<<>>)[i] ELSE Hole]
    BY DEF Overwritten
  <2>2. \A i \in 1 .. 1 : i = 0 + 1  OBVIOUS
  <2>3. QED  BY <2>1, <2>2
<1>2. <<a>> = [i \in 1 .. 1 |-> a]  OBVIOUS
<1> DEFINE t == <<a, b>>
           s == Overwritten(<<a>>, 1, b)
<1>3. s = [i \in 1 .. 2 |-> IF i = 1 + 1 THEN b
                            ELSE IF i \in DOMAIN <<a>> THEN (<<a>>)[i] ELSE Hole]
  BY DEF Overwritten
<1>4. s = [i \in 1 .. 2 |-> s[i]] /\ s[1] = a /\ s[2] = b  BY <1>3
<1>5. t \in Seq({a, b}) /\ Len(t) = 2 /\ t[1] = a /\ t[2] = b  OBVIOUS
<1> HIDE DEF s, t
<1>6. t = [i \in 1 .. 2 |-> t[i]]  BY <1>5
<1>7. \A i \in 1 .. 2 : s[i] = t[i]  BY <1>4, <1>5
<1>8. [i \in 1 .. 2 |-> s[i]] = [i \in 1 .. 2 |-> t[i]]  BY <1>7
<1>9. QED  BY <1>1, <1>2, <1>4, <1>6, <1>8 DEF s, t

\* One list is another one with e after it.
OneLonger(old, new, e) ==
    \E len \in Nat :
        /\ DOMAIN old = 1 .. len /\ DOMAIN new = 1 .. (len + 1)
        /\ \A i \in 1 .. len : new[i] = old[i]
        /\ new[len + 1] = e

\* Appending gives such a sequence.
LEMMA AppendIsLonger ==
    ASSUME NEW S, NEW old \in Seq(S), NEW e
    PROVE  OneLonger(old, Append(old, e), e)
<1>1. Len(old) \in Nat /\ DOMAIN old = 1 .. Len(old)  OBVIOUS
<1>2. /\ DOMAIN Append(old, e) = 1 .. (Len(old) + 1)
      /\ \A i \in 1 .. Len(old) : Append(old, e)[i] = old[i]
      /\ Append(old, e)[Len(old) + 1] = e
  <2>1. old \in Seq(S \cup {e})  OBVIOUS
  <2>2. QED  BY <1>1, <2>1
<1>3. QED  BY <1>1, <1>2 DEF OneLonger

\* What one more chunk of r does to the logs: r has one more entry in the log
\* it writes, after all others, and nobody else has.
LEMMA LogGrows ==
    ASSUME IndInv, NEW r \in Request, At(r, "write"), req[r].op = "append_console",
           NEW o \in Origin, o = req[r].inode,
           NEW e, e = IF req[r].pos = 0 THEN <<r, 1>> ELSE <<r, 2>>,
           \A x \in Origin \ {o} : data'["console"][x] = data["console"][x],
           OneLonger(data["console"][o], data'["console"][o], e)
    PROVE  /\ ChunksFit'
           /\ \A q \in Request \ {r}, x \in Origin :
                 /\ NoneOf(q, x)' <=> NoneOf(q, x)
                 /\ OneOf(q, x) => OneOf(q, x)'
                 /\ BothOf(q, x) => BothOf(q, x)'
           /\ \A x \in Origin \ {o} : NoneOf(r, x)'
           /\ req[r].pos = 0 => OneOf(r, o)'
           /\ req[r].pos = 1 => BothOf(r, o)'
<1> USE DEF IndInv
<1>1. PICK log, new : log = data["console"][o] /\ new = data'["console"][o]
  OBVIOUS
<1>2. PICK len \in Nat :
          /\ DOMAIN log = 1 .. len /\ DOMAIN new = 1 .. (len + 1)
          /\ \A i \in 1 .. len : new[i] = log[i]
          /\ new[len + 1] = e
  BY <1>1 DEF OneLonger
<1>3. e \in Request \X {1, 2} /\ e[1] = r  OBVIOUS
<1>4. /\ len + 1 \notin 1 .. len
      /\ \A i : i \in 1 .. (len + 1) <=> i \in 1 .. len \/ i = len + 1
      /\ \A i \in 1 .. len : i < len + 1
  OBVIOUS
<1>5. ChunksFit'
  <2>1. \A i \in 1 .. len : log[i] \in Request \X {1, 2}
    BY <1>1, <1>2 DEF ChunksFit
  <2>2. ASSUME NEW i \in 1 .. (len + 1) PROVE new[i] \in Request \X {1, 2}
    BY <1>2, <1>3, <1>4, <2>1
  <2>3. \A i \in DOMAIN data'["console"][o] : data'["console"][o][i] \in Request \X {1, 2}
    BY <1>1, <1>2, <2>2
  <2>4. ASSUME NEW x \in Origin, x # o
        PROVE  \A i \in DOMAIN data'["console"][x] :
                   data'["console"][x][i] \in Request \X {1, 2}
    BY <2>4 DEF ChunksFit
  <2>5. QED  BY <2>3, <2>4 DEF ChunksFit
<1>6. ASSUME NEW q \in Request, NEW x \in Origin, q # r \/ x # o
      PROVE  /\ Mine(q, x)' = Mine(q, x)
             /\ \A i \in Mine(q, x) :
                   /\ i \in DOMAIN data["console"][x] /\ i \in DOMAIN data'["console"][x]
                   /\ data'["console"][x][i] = data["console"][x][i]
  <2>1. CASE x # o  BY <2>1 DEF Mine
  <2>2. CASE x = o
    <3>1. Mine(q, o)' = {i \in 1 .. (len + 1) : new[i][1] = q}
      BY <1>1, <1>2 DEF Mine
    <3>2. Mine(q, o) = {i \in 1 .. len : log[i][1] = q}  BY <1>1, <1>2 DEF Mine
    <3>3. q # r  BY <1>6, <2>2
    <3>4. Mine(q, o)' = Mine(q, o)  BY <1>2, <1>3, <1>4, <3>1, <3>2, <3>3
    <3>5. \A i \in Mine(q, o) : i \in 1 .. len /\ i \in 1 .. (len + 1)
      BY <1>4, <3>2
    <3>6. QED  BY <1>1, <1>2, <2>2, <3>4, <3>5
  <2>3. QED  BY <2>1, <2>2
<1>7. ASSUME NEW q \in Request \ {r}, NEW x \in Origin
      PROVE  /\ NoneOf(q, x)' <=> NoneOf(q, x)
             /\ OneOf(q, x) => OneOf(q, x)'
             /\ BothOf(q, x) => BothOf(q, x)'
  <2>1. Mine(q, x)' = Mine(q, x)  BY <1>6
  <2>2. \A i \in Mine(q, x) : /\ i \in DOMAIN data'["console"][x]
                              /\ data'["console"][x][i] = data["console"][x][i]
    BY <1>6
  <2>3. NoneOf(q, x)' <=> NoneOf(q, x)  BY <2>1 DEF NoneOf
  <2>4. OneOf(q, x) => OneOf(q, x)'  BY <2>1, <2>2 DEF OneOf
  <2>5. ASSUME BothOf(q, x) PROVE BothOf(q, x)'
    <3>1. PICK i, j \in DOMAIN data["console"][x] :
              /\ i < j /\ Mine(q, x) = {i, j}
              /\ data["console"][x][i] = <<q, 1>> /\ data["console"][x][j] = <<q, 2>>
      BY <2>5 DEF BothOf
    <3>2. i \in Mine(q, x) /\ j \in Mine(q, x)  BY <3>1
    <3>3. QED  BY <2>1, <2>2, <3>1, <3>2 DEF BothOf
  <2>6. QED  BY <2>3, <2>4, <2>5
<1>8. LogFits(r) /\ Logs(r, o)  BY DEF Logs
<1>9. ASSUME NEW x \in Origin \ {o} PROVE NoneOf(r, x)'
  <2>1. ~Logs(r, x)  BY <1>9 DEF Logs
  <2>2. NoneOf(r, x)  BY <1>8, <2>1 DEF LogFits
  <2>3. Mine(r, x)' = Mine(r, x)  BY <1>6
  <2>4. QED  BY <2>2, <2>3 DEF NoneOf
<1>10. Mine(r, o)' = Mine(r, o) \cup {len + 1}
  <2>1. Mine(r, o)' = {i \in 1 .. (len + 1) : new[i][1] = r}  BY <1>1, <1>2 DEF Mine
  <2>2. Mine(r, o) = {i \in 1 .. len : log[i][1] = r}  BY <1>1, <1>2 DEF Mine
  <2>3. QED  BY <1>2, <1>3, <1>4, <2>1, <2>2
<1>11. len + 1 \in DOMAIN new  BY <1>2, <1>4
<1>12. ASSUME req[r].pos = 0 PROVE OneOf(r, o)'
  <2>1. NoneOf(r, o)  BY <1>8, <1>12, SMTT(30) DEF LogFits, At
  <2>2. Mine(r, o)' = {len + 1}  BY <1>10, <2>1 DEF NoneOf
  <2>3. new[len + 1] = <<r, 1>>  BY <1>2, <1>12
  <2>4. QED  BY <1>1, <1>11, <2>2, <2>3 DEF OneOf
<1>13. ASSUME req[r].pos = 1 PROVE BothOf(r, o)'
  <2>1. OneOf(r, o)  BY <1>8, <1>13, SMTT(30) DEF LogFits, At
  <2>2. PICK i \in 1 .. len : Mine(r, o) = {i} /\ log[i] = <<r, 1>>
    BY <1>1, <1>2, <2>1 DEF OneOf
  <2>3. Mine(r, o)' = {i, len + 1}  BY <1>10, <2>2
  <2>4. i < len + 1 /\ i \in DOMAIN new  BY <1>2, <1>4, <2>2
  <2>5. new[i] = <<r, 1>> /\ new[len + 1] = <<r, 2>>
    BY <1>2, <1>13, <2>2
  <2>6. QED  BY <1>1, <1>11, <2>3, <2>4, <2>5 DEF BothOf
<1>14. QED  BY <1>5, <1>7, <1>9, <1>12, <1>13
\* What r's request is after it has written a chunk, of a log or another file.
LEMMA Wrote ==
    ASSUME IndInv, NEW r \in Request, At(r, "write"), NEW touched,
           Becomes(r, IF req[r].pos + 1 = 2 THEN Answered(r, "ok")
                      ELSE [req[r] EXCEPT !.pos = req[r].pos + 1], touched),
           NEW now, now = req'[r]
    PROVE  /\ Becomes(r, now, touched)
           /\ now \in ReqType /\ now.op = req[r].op /\ now.target = req[r].target
           /\ now.inode = req[r].inode /\ now.quiet = req[r].quiet
           /\ now.failed = req[r].failed /\ now.expect = req[r].expect
           /\ \/ req[r].pos = 0 /\ now.pc = "write" /\ now.pos = 1
              \/ req[r].pos = 1 /\ now.pc = "done"
           /\ OpFits(r)'
<1> USE DEF IndInv
<1>1. req[r] \in ReqType /\ req \in [Request -> ReqType]  BY DEF Shape
<1>2. OpFits(r)  OBVIOUS
<1>3. /\ req[r].pos \in {0, 1} /\ req[r].op \in Writes /\ req[r].inode \in Origin
      /\ ~req[r].failed
  BY <1>2 DEF OpFits, At
<1>4. now = IF req[r].pos + 1 = 2 THEN Answered(r, "ok")
            ELSE [req[r] EXCEPT !.pos = req[r].pos + 1]
  BY Own
<1>5. Becomes(r, now, touched)  BY <1>4
<1>6. /\ now \in ReqType /\ now.op = req[r].op /\ now.target = req[r].target
      /\ now.inode = req[r].inode /\ now.quiet = req[r].quiet
      /\ now.failed = req[r].failed /\ now.expect = req[r].expect
      /\ now.size = req[r].size
      /\ \/ req[r].pos = 0 /\ now.pc = "write" /\ now.pos = 1
         \/ req[r].pos = 1 /\ now.pc = "done"
  <2>1. CASE req[r].pos = 0
    <3>1. now = [req[r] EXCEPT !.pos = 1]  BY <1>4, <2>1
    <3>2. 1 \in 0 .. Longest  BY Constants
    <3>3. now = [op |-> req[r].op, target |-> req[r].target, pc |-> req[r].pc,
                  code |-> req[r].code, inode |-> req[r].inode, pos |-> 1,
                  size |-> req[r].size, seen |-> req[r].seen, todo |-> req[r].todo,
                  arts |-> req[r].arts, quiet |-> req[r].quiet,
                  failed |-> req[r].failed, cut |-> req[r].cut, expect |-> req[r].expect]
      BY <1>1, <3>1 DEF ReqType
    <3>4. now \in ReqType  BY <1>1, <3>2, <3>3 DEF ReqType
    <3>5. QED  BY <2>1, <3>3, <3>4 DEF At
  <2>2. CASE req[r].pos = 1
    <3>1. now = Answered(r, "ok")  BY <1>4, <2>2
    <3>2. QED  BY <1>1, <2>2, <3>1, AnsweredIs
  <2>3. QED  BY <1>3, <2>1, <2>2
<1>7. OpFits(r)'
  <2>1. req[r].op \in Operation /\ Target(r)' = Target(r)
        /\ Target(r) \in TargetOf(r, req[r].op)
    BY <1>2, <1>6 DEF OpFits, At, Target
  <2>2. (Target(r) \in TargetOf(r, req[r].op))'
    BY <1>6, <2>1 DEF TargetOf
  <2>3. req'[r].size = Longest \/ req'[r].op \in {"get_workspace", "get_artifact"}
    BY <1>2, <1>6 DEF OpFits
  <2>4. QED  BY <1>3, <1>6, <2>1, <2>2, <2>3 DEF OpFits, At
<1>8. QED  BY <1>5, <1>6, <1>7

\* A quiet writer's file holds its own chunks and nothing else; a log holds
\* its writers' chunks in their order.
LEMMA WriteChunkStep ==
    ASSUME IndInv, NEW r \in Request, WriteChunk(r)
    PROVE  IndInv'
<1> USE DEF IndInv
<1>1. PICK n, o, now : n = Target(r) /\ o = req[r].inode /\ now = req'[r]  OBVIOUS
<1> DEFINE pos == req[r].pos
           chunk == <<r, pos + 1>>
           done == pos + 1 = 2
<1>2. /\ req \in [Request -> ReqType] /\ At(r, "write")
      /\ UNCHANGED <<builddir, artdir, file, errors>>
  BY DEF WriteChunk, Shape
<1>3. OpFits(r)  OBVIOUS
<1>4. pos \in {0, 1} /\ req[r].op \in Writes /\ o \in Origin
  BY <1>1, <1>2, <1>3 DEF OpFits, At
<1>5. /\ n \in Name /\ n # "build" /\ req[r].op # "delete_build"
      /\ n = "console" <=> Appends(req[r].op)
      /\ n = "console" <=> req[r].op = "append_console"
  BY <1>1, <1>2, <1>4, Targets, Kinds DEF At
<1>6. /\ now \in ReqType /\ now.op = req[r].op /\ now.target = req[r].target
      /\ now.inode = req[r].inode /\ now.quiet = req[r].quiet
      /\ now.failed = req[r].failed /\ now.expect = req[r].expect
      /\ \/ pos = 0 /\ now.pc = "write" /\ now.pos = 1
         \/ pos = 1 /\ now.pc = "done"
      /\ OpFits(r)' /\ Becomes(r, now, {n}) /\ req'[r] = now
  <2>1. Becomes(r, IF pos + 1 = 2 THEN Answered(r, "ok")
                   ELSE [req[r] EXCEPT !.pos = pos + 1], {n})
    BY <1>1 DEF WriteChunk
  <2>2. QED  BY <1>1, <1>2, <2>1, Wrote
<1> DEFINE new == IF Appends(req[r].op) THEN Append(data[n][o], chunk)
                  ELSE Overwritten(data[n][o], pos, chunk)
<1>7. data[n] \in [Origin -> Seq(Chunk)] /\ data[n][o] \in Seq(Chunk)
  BY <1>4, <1>5 DEF Shape
<1>8. chunk \in Chunk /\ pos + 1 \in {1, 2}  BY <1>4, Constants DEF Chunk
<1>9. FileFits(n)  BY <1>5
<1>10. n # "console" => Len(data[n][o]) <= 2  BY <1>4, <1>9 DEF FileFits
<1>11. new \in Seq(Chunk) /\ (n # "console" => Len(new) <= 2)
  <2>1. CASE n = "console"  BY <1>5, <1>7, <1>8, <2>1
  <2>2. CASE n # "console"
    BY <1>4, <1>5, <1>7, <1>8, <1>10, <2>2, OverwrittenFits
  <2>3. QED  BY <2>1, <2>2
<1>12. /\ data' \in [Name -> [Origin -> Seq(Chunk)]]
       /\ data'[n] = [data[n] EXCEPT ![o] = new]
       /\ \A x \in Name \ {n} : data'[x] = data[x]
  <2>1. data' = [data EXCEPT ![n] = [data[n] EXCEPT ![o] = new]]
    BY <1>1 DEF WriteChunk
  <2>2. [data[n] EXCEPT ![o] = new] \in [Origin -> Seq(Chunk)]  BY <1>7, <1>11
  <2> HIDE DEF new
  <2>3. data \in [Name -> [Origin -> Seq(Chunk)]]  BY DEF Shape
  <2>4. QED  BY <1>5, <2>1, <2>2, <2>3
<1>13. /\ data'[n][o] = new
       /\ \A x \in Origin \ {o} : data'[n][x] = data[n][x]
  BY <1>4, <1>7, <1>12
<1>14. PICK body : body = IF done /\ req[r].quiet THEN r ELSE "unknown"  OBVIOUS
<1>15. body \in Origin \cup {"absent", "unknown"} /\ body # "absent"
       /\ (body \in Origin => done /\ req[r].quiet /\ body = r)
  BY <1>14, Constants
<1>16. /\ last' \in [Name -> Origin \cup {"absent", "unknown"}] /\ last'[n] = body
       /\ \A x \in Name \ {n} : last'[x] = last[x]
  <2>1. last' = [last EXCEPT ![n] = body]  BY <1>1, <1>14 DEF WriteChunk
  <2>2. QED  BY <1>5, <1>15, <2>1 DEF Shape
<1>17. ASSUME req[r].quiet
       PROVE  /\ QuietOnFile(r) /\ Linked(n) /\ file[n] = o /\ builddir
              /\ NeedsFile(req[r].op) => req[r].expect # "absent"
              /\ n # "console" =>
                    new = IF pos = 0 THEN <<<<r, 1>>>> ELSE Body(r)
  <2>1. QuietOnFile(r)  BY <1>1, <1>2, <1>5, <1>17 DEF QuietFits, Active, At
  <2>2. /\ Linked(n) /\ file[n] = o /\ builddir
        /\ NeedsFile(req[r].op) => req[r].expect # "absent"
        /\ n # "console" => data[n][o] = IF pos = 0 THEN <<>> ELSE <<<<r, 1>>>>
    BY <1>1, <1>2, <1>5, <2>1 DEF QuietOnFile, At
  <2>3. ASSUME n # "console"
        PROVE  new = IF pos = 0 THEN <<<<r, 1>>>> ELSE Body(r)
    <3>1. new = Overwritten(data[n][o], pos, chunk)  BY <1>5, <2>3
    <3>2. CASE pos = 0
      <4>1. chunk = <<r, 1>> /\ data[n][o] = <<>>  BY <2>2, <2>3, <3>2
      <4> HIDE DEF new, chunk
      <4>2. new = Overwritten(<<>>, 0, <<r, 1>>)  BY <3>1, <3>2, <4>1
      <4>3. new = <<<<r, 1>>>>  BY <4>2, OverwrittenBody
      <4>4. QED  BY <3>2, <4>3
    <3>3. CASE pos = 1
      <4>1. chunk = <<r, 2>> /\ data[n][o] = <<<<r, 1>>>>  BY <2>2, <2>3, <3>3
      <4> HIDE DEF new, chunk
      <4>2. new = Overwritten(<<<<r, 1>>>>, 1, <<r, 2>>)  BY <3>1, <3>3, <4>1
      <4>3. new = Body(r)  BY <4>2, OverwrittenBody DEF Body
      <4>4. QED  BY <3>3, <4>3
    <3>4. QED  BY <1>4, <3>2, <3>3
  <2>4. QED  BY <2>1, <2>2, <2>3
<1> HIDE DEF new
<1>18. FileFits(n)'
  <2>1. body \in Origin => /\ Linked(n)
                           /\ n # "console" => data'[n][file[n]] = Body(body)
    BY <1>4, <1>13, <1>15, <1>17
  <2>2. n # "console" => \A x \in Origin : Len(data'[n][x]) <= 2
    BY <1>9, <1>11, <1>13 DEF FileFits
  <2>3. QED  BY <1>2, <1>15, <1>16, <2>1, <2>2 DEF FileFits, Linked
<1>19. QuietFits(r)'
  <2>1. Target(r)' = n  BY <1>1, <1>6 DEF Target
  <2>2. SUFFICES ASSUME req[r].quiet, now.pc = "write" PROVE QuietOnFile(r)'
    BY <1>5, <1>6, <2>1 DEF QuietFits, Active
  <2>3. pos = 0 /\ now.pos = 1  BY <1>6, <2>2
  <2>4. ~Appends(req[r].op) => data'[n][o] = <<<<r, 1>>>>
    BY <1>5, <1>13, <1>17, <2>2, <2>3
  <2>5. Linked(n)' /\ file'[n] = o /\ builddir'
    BY <1>2, <1>17, <2>2 DEF Linked
  <2>6. QED
    BY <1>1, <1>6, <1>17, <2>1, <2>2, <2>3, <2>4, <2>5 DEF QuietOnFile, At
<1>20. AloneFits(r)'  BY <1>5, <1>6 DEF AloneFits
<1>21. ChunksFit' /\ \A q \in Request : LogFits(q)'
  <2>1. CASE n # "console"
    <3>1. data'["console"] = data["console"]  BY <1>12, <2>1 DEF Name, TopFile
    <3>2. ChunksFit'  BY <3>1 DEF ChunksFit
    <3>3. ASSUME NEW q \in Request \ {r} PROVE LogFits(q)'
      <4>1. Bystander(q)  BY <1>2, <1>6, Others
      <4>2. QED  BY <3>1, <4>1, LogKept
    <3>4. LogFits(r)'
      <4>1. \A x \in Origin : ~Logs(r, x) /\ ~Logs(r, x)'
        BY <1>5, <1>6, <2>1 DEF Logs
      <4>2. QED  BY <3>1, <4>1, LogStill
    <3>5. QED  BY <3>2, <3>3, <3>4
  <2>2. CASE n = "console"
    <3>1. req[r].op = "append_console" /\ data'["console"][o] = Append(data["console"][o], <<r, pos + 1>>)
      BY <1>5, <1>13, <2>2 DEF new
    <3>2. \A x \in Origin \ {o} : data'["console"][x] = data["console"][x]
      BY <1>13, <2>2
    <3>3. /\ ChunksFit'
          /\ \A q \in Request \ {r}, x \in Origin :
                /\ NoneOf(q, x)' <=> NoneOf(q, x)
                /\ OneOf(q, x) => OneOf(q, x)'
                /\ BothOf(q, x) => BothOf(q, x)'
          /\ \A x \in Origin \ {o} : NoneOf(r, x)'
          /\ pos = 0 => OneOf(r, o)'
          /\ pos = 1 => BothOf(r, o)'
      <4>1. PICK e : e = IF pos = 0 THEN <<r, 1>> ELSE <<r, 2>>  OBVIOUS
      <4>2. e = <<r, pos + 1>>  BY <1>4, <4>1
      <4>3. OneLonger(data["console"][o], data'["console"][o], e)
        BY <1>7, <2>2, <3>1, <4>2, AppendIsLonger
      <4>4. e = IF req[r].pos = 0 THEN <<r, 1>> ELSE <<r, 2>>  BY <4>1
      <4>5. o = req[r].inode /\ o \in Origin /\ At(r, "write") /\ req[r].op = "append_console"
        BY <1>1, <1>2, <1>4, <3>1
      <4> HIDE DEF IndInv
      <4>6. QED  BY <3>2, <4>3, <4>4, <4>5, LogGrows, ZenonT(60)
    <3>4. ASSUME NEW q \in Request \ {r} PROVE LogFits(q)'
      <4>1. Bystander(q)  BY <1>2, <1>6, Others
      <4>2. \A x \in Origin : Logs(q, x)' <=> Logs(q, x)  BY <4>1 DEF Logs, Bystander
      <4>3. QED  BY <3>3, <4>1, <4>2, SMTT(30) DEF LogFits, Bystander, At
    <3>5. LogFits(r)'
      <4>1. \A x \in Origin : Logs(r, x)' <=> x = o
        BY <1>1, <1>6, <3>1 DEF Logs
      <4>2. CASE pos = 0
        BY <1>6, <3>3, <4>1, <4>2, ZenonT(30) DEF LogFits, At
      <4>3. CASE pos = 1
        BY <1>6, <3>3, <4>1, <4>3, SMTT(30) DEF LogFits, At
      <4>4. QED  BY <1>4, <4>2, <4>3
    <3>6. QED  BY <3>3, <3>4, <3>5
  <2>3. QED  BY <2>1, <2>2
<1>22. /\ file' \in [Name -> Origin \cup {NoFile}]
       /\ Linked(n)' => Parent(n)
       /\ Linked(n) /\ ~Linked(n)' => req[r].op \in Deletes \cup {"delete_build"}
  BY <1>2, <1>5 DEF Shape, Linked, Parent, Name
<1>23. QED
  BY <1>2, <1>5, <1>6, <1>12, <1>16, <1>18, <1>19, <1>20, <1>21, <1>22, OnlyFile


\* A name that is unlinked, by a request that deletes.
LEMMA UnlinkKeeps ==
    ASSUME IndInv, NEW r \in Request, NEW now \in ReqType, NEW m \in Name,
           UnlinkName(r, m, now), UNCHANGED <<builddir, artdir, data, errors>>,
           now.op = req[r].op, req[r].op \in Deletes \cup {"delete_build"},
           OpFits(r)', QuietFits(r)', AloneFits(r)'
    PROVE  IndInv'
<1> USE DEF IndInv
<1>1. req \in [Request -> ReqType] /\ Becomes(r, now, {m})
  BY DEF Shape, UnlinkName
<1>2. /\ file' \in [Name -> Origin \cup {NoFile}] /\ file'[m] = NoFile
      /\ last' \in [Name -> Origin \cup {"absent", "unknown"}] /\ last'[m] = "absent"
      /\ \A x \in Name \ {m} : file'[x] = file[x] /\ last'[x] = last[x]
  BY DEF Shape, UnlinkName
<1>3. data' = data /\ data' \in [Name -> [Origin -> Seq(Chunk)]]  BY DEF Shape
<1>4. ~Linked(m)'  BY <1>2 DEF Linked
<1>5. ChunksFit'  BY <1>3 DEF ChunksFit
<1>6. FileFits(m)'
  <2>1. FileFits(m) /\ "absent" \notin Origin  BY Constants
  <2>2. QED  BY <1>2, <1>3, <1>4, <2>1 DEF FileFits
<1>7. ASSUME NEW q \in Request PROVE LogFits(q)'
  <2>1. CASE q # r
    <3>1. Bystander(q)  BY <1>1, <2>1, Others
    <3>2. QED  BY <1>3, <3>1, LogKept
  <2>2. CASE q = r
    <3>1. req[r].op # "append_console" /\ req'[r].op # "append_console"
      BY <1>1, Own, Kinds
    <3>2. \A o \in Origin : ~Logs(r, o) /\ ~Logs(r, o)'  BY <3>1 DEF Logs
    <3>3. QED  BY <1>3, <2>2, <3>2, LogStill
  <2>3. QED  BY <2>1, <2>2
<1>8. \A x \in Name \ {m} :
          file'[x] = file[x] /\ data'[x] = data[x] /\ last'[x] = last[x]
  BY <1>2, <1>3
<1>9. QED
  BY <1>1, <1>2, <1>3, <1>4, <1>5, <1>6, <1>7, <1>8, OnlyFile

\* One file is deleted, or somebody else was faster.
LEMMA UnlinkStep ==
    ASSUME IndInv, NEW r \in Request, Unlink(r)
    PROVE  IndInv'
<1> USE DEF IndInv
<1> PICK n : n = Target(r)  OBVIOUS
<1> PICK now : now = Answered(r, "ok")  OBVIOUS
<1>1. /\ req \in [Request -> ReqType] /\ req[r] \in ReqType
      /\ At(r, "unlink") /\ UNCHANGED <<builddir, artdir, data, errors>>
      /\ \/ \E code \in {"not_found", "error"} :
               Answer(r, code) /\ UNCHANGED <<file, last>>
         \/ UnlinkName(r, n, now)
  BY DEF Unlink, Shape
<1>2. ASSUME NEW code \in {"not_found", "error"},
             Answer(r, code), UNCHANGED <<file, last>>
      PROVE  IndInv'
  <2>1. UNCHANGED <<Storage, errors>>  BY <1>1, <1>2 DEF Storage
  <2>2. QED  BY <1>1, <1>2, <2>1, AnswerStep DEF At
<1>3. CASE UnlinkName(r, n, now)
  <2>1. OpFits(r)  OBVIOUS
  <2>2. req[r].op \in Deletes /\ req[r].op # "delete_build"
    BY <1>1, <2>1, Kinds DEF OpFits, At
  <2>3. n \in Name  BY <1>1, <2>2, Targets DEF At
  <2>4. /\ now \in ReqType /\ now.op = req[r].op /\ now.target = req[r].target
        /\ now.pc = "done" /\ now.size = req[r].size
    BY <1>1, AnsweredIs
  <2>5. req'[r] = now  BY <1>3, Own DEF UnlinkName
  <2>6. OpFits(r)'
    BY <1>1, <2>1, <2>4, <2>5 DEF OpFits, At, Target, TargetOf
  <2>7. QuietFits(r)'  BY <2>4, <2>5 DEF QuietFits, Active
  <2>8. AloneFits(r)'  BY <2>2, <2>4, <2>5 DEF AloneFits
  <2>9. QED  BY <1>1, <1>3, <2>2, <2>3, <2>4, <2>6, <2>7, <2>8, UnlinkKeeps
<1>4. QED  BY <1>1, <1>2, <1>3

\* Whoever deletes a build is about the build, and writes no log.
LEMMA DeletesBuild ==
    ASSUME IndInv, NEW r \in Request, req[r].pc \in {"clear", "clear_art"}
    PROVE  /\ req[r].op = "delete_build" /\ Target(r) = "build"
           /\ ~req[r].failed /\ req[r].size = Longest
           /\ QuietFits(r) => (req[r].quiet => QuietOnBuild(r))
           /\ At(r, "clear_art") => "artifacts" \notin req[r].todo
           /\ \A o \in Origin : ~Logs(r, o)
<1>1. OpFits(r)  BY DEF IndInv
<1>2. req[r].op = "delete_build" /\ ~req[r].failed /\ req[r].size = Longest
      /\ (At(r, "clear_art") => "artifacts" \notin req[r].todo)
  BY <1>1 DEF OpFits, At
<1>3. Target(r) = "build"  BY <1>2, Targets DEF At
<1>4. QuietFits(r) => (req[r].quiet => QuietOnBuild(r))
  BY <1>3 DEF QuietFits, Active
<1>5. \A o \in Origin : ~Logs(r, o)  BY <1>2 DEF Logs
<1>6. QED  BY <1>2, <1>3, <1>4, <1>5

\* A deletion that goes on keeps what the invariant says of its request.
LEMMA ClearGoes ==
    ASSUME IndInv, NEW r \in Request, req[r].pc \in {"clear", "clear_art"},
           NEW now \in ReqType, NEW touched, Becomes(r, now, touched),
           now.op = req[r].op, now.target = req[r].target,
           now.failed = req[r].failed, now.size = req[r].size,
           now.pc \in {"clear", "clear_art"},
           now.pc = "clear_art" => "artifacts" \notin now.todo
    PROVE  /\ req'[r] = now
           /\ req'[r].op = "delete_build" /\ req'[r].target = "build"
           /\ OpFits(r)'
           /\ \A o \in Origin : ~Logs(r, o)'
<1>1. req[r].op = "delete_build" /\ req[r].target = "build" /\ ~req[r].failed
      /\ req[r].size = Longest
  BY DeletesBuild DEF Target
<1>2. req'[r] = now  BY Own
<1>3. OpFits(r)  BY DEF IndInv
<1>4. req[r].op \in Operation /\ Target(r) \in TargetOf(r, req[r].op)
  BY <1>3 DEF OpFits, At
<1>5. OpFits(r)'
  BY <1>1, <1>2, <1>4 DEF OpFits, At, Target, TargetOf
<1>6. \A o \in Origin : ~Logs(r, o)'  BY <1>1, <1>2 DEF Logs
<1>7. QED  BY <1>1, <1>2, <1>5, <1>6

\* A file of the build is removed, or its artifacts are listed.
LEMMA ClearBuildStep ==
    ASSUME IndInv, NEW r \in Request, ClearBuild(r)
    PROVE  IndInv'
<1> USE DEF IndInv
<1>1. /\ req \in [Request -> ReqType] /\ req[r] \in ReqType
      /\ At(r, "clear") /\ UNCHANGED <<builddir, artdir, data, errors>>
      /\ errors' \in 0 .. MaxErrors
  BY DEF ClearBuild, Shape
<1>2. /\ req[r].op = "delete_build" /\ Target(r) = "build"
      /\ (req[r].quiet => QuietOnBuild(r))
      /\ \A o \in Origin : ~Logs(r, o)
  BY <1>1, DeletesBuild DEF At
<1>3. /\ req[r].todo \subseteq TopFile \cup {"artifacts"}
      /\ req[r].arts \subseteq Artifact /\ req[r].cut \in BOOLEAN
  BY <1>1, Fields
<1>4. \/ Answer(r, "ok") /\ UNCHANGED <<file, last>>
      \/ \E n \in req[r].todo \ {"artifacts"} :
             Linked(n) /\ UnlinkName(r, n, [req[r] EXCEPT !.todo = @ \ {n}])
      \/ /\ "artifacts" \in req[r].todo /\ artdir
         /\ UNCHANGED <<file, last>>
         /\ \E found \in Listings :
                Becomes(r, [req[r] EXCEPT !.pc = "clear_art", !.todo = @ \ {"artifacts"},
                               !.arts = found,
                               !.cut = \E n \in Artifact \ found : Linked(n)], {})
  BY DEF ClearBuild, GoneCode
<1>5. CASE Answer(r, "ok") /\ UNCHANGED <<file, last>>
  <2>1. UNCHANGED <<Storage, errors>>  BY <1>1, <1>5 DEF Storage
  <2>2. QED  BY <1>1, <1>5, <2>1, AnswerStep DEF At
<1>6. ASSUME NEW n \in req[r].todo \ {"artifacts"}, Linked(n),
             UnlinkName(r, n, [req[r] EXCEPT !.todo = @ \ {n}])
      PROVE  IndInv'
  <2>1. n \in TopFile /\ n \in Name  BY <1>3, <1>6 DEF Name
  <2>2. PICK names, now : /\ names = req[r].todo \ {n}
                          /\ now = [req[r] EXCEPT !.todo = names]
    OBVIOUS
  <2>3. UnlinkName(r, n, now) /\ Becomes(r, now, {n})
    BY <1>6, <2>2 DEF UnlinkName
  <2>4. /\ now \in ReqType /\ now.op = req[r].op /\ now.target = req[r].target
        /\ now.pc = "clear" /\ now.todo = names
        /\ now.failed = req[r].failed /\ now.size = req[r].size
        /\ now.quiet = req[r].quiet /\ now.cut = req[r].cut
    BY <1>1, <1>3, <2>2 DEF ReqType, At
  <2>5. /\ req'[r] = now
        /\ req'[r].op = "delete_build" /\ req'[r].target = "build"
        /\ req'[r].pc = "clear" /\ req'[r].todo = names
        /\ req'[r].quiet = req[r].quiet /\ req'[r].cut = req[r].cut
        /\ OpFits(r)'
    <3>1. req[r].pc \in {"clear", "clear_art"}  BY <1>1 DEF At
    <3> HIDE DEF IndInv
    <3>2. QED  BY <2>3, <2>4, <3>1, ClearGoes
  <2>6. file' = [file EXCEPT ![n] = NoFile]  BY <2>3 DEF UnlinkName
  <2>7. \A x \in TopFile : Linked(x)' <=> Linked(x) /\ x # n
    BY <2>1, <2>6 DEF Linked, Name, Shape
  <2>8. n # "artifacts"  BY <1>6
  <2>9. QuietFits(r)'
    <3>1. SUFFICES ASSUME req[r].quiet PROVE QuietOnBuild(r)'
      BY <2>5 DEF QuietFits, Target
    <3>2. QuietOnBuild(r)  BY <1>2, <3>1
    <3>3. QED
      BY <1>1, <2>2, <2>5, <2>7, <2>8, <3>2 DEF QuietOnBuild, At
  <2>10. AloneFits(r)'
    <3>1. Alone(r)' => Alone(r)  BY <1>1, <2>3, <2>4, <2>5, AloneBefore
    <3>2. AloneFits(r)  OBVIOUS
    <3>3. \A x \in names \ {"artifacts"} : x \in TopFile /\ x # n
                                           /\ x \in req[r].todo \ {"artifacts"}
      BY <1>3, <2>2
    <3>4. "artifacts" \in names => "artifacts" \in req[r].todo  BY <2>2
    <3>5. QED
      BY <1>1, <1>2, <2>5, <2>7, <3>1, <3>2, <3>3, <3>4 DEF AloneFits, At
  <2>11. QED
    BY <1>1, <1>2, <2>1, <2>3, <2>4, <2>5, <2>9, <2>10, UnlinkKeeps
<1>7. ASSUME "artifacts" \in req[r].todo, artdir, UNCHANGED <<file, last>>,
             NEW found \in Listings,
             Becomes(r, [req[r] EXCEPT !.pc = "clear_art", !.todo = @ \ {"artifacts"},
                            !.arts = found,
                            !.cut = \E n \in Artifact \ found : Linked(n)], {})
      PROVE  IndInv'
  <2> PICK cut \in BOOLEAN : cut = \E n \in Artifact \ found : Linked(n)  OBVIOUS
  <2>1. PICK names, now :
            /\ names = req[r].todo \ {"artifacts"}
            /\ now = [req[r] EXCEPT !.pc = "clear_art", !.todo = names,
                                    !.arts = found, !.cut = cut]
    OBVIOUS
  <2>2. Becomes(r, now, {})  BY <1>7, <2>1
  <2>9. found \subseteq Artifact /\ \A n \in found : Linked(n)  BY DEF Listings
  <2>10. /\ now \in ReqType /\ now.op = req[r].op /\ now.target = req[r].target
         /\ now.pc = "clear_art" /\ now.todo = names /\ now.arts = found
         /\ now.failed = req[r].failed /\ now.size = req[r].size
         /\ now.quiet = req[r].quiet /\ now.cut = cut
    <3>1. names \subseteq TopFile \cup {"artifacts"} /\ found \subseteq Artifact
      BY <1>3, <2>1, <2>9
    <3> HIDE DEF IndInv
    <3>2. PICK q : q = req[r]  OBVIOUS
    <3>3. q \in ReqType /\ now = [q EXCEPT !.pc = "clear_art", !.todo = names,
                                          !.arts = found, !.cut = cut]
      BY <1>1, <2>1, <3>2
    <3>4. now = [op |-> q.op, target |-> q.target, pc |-> "clear_art", code |-> q.code,
                  inode |-> q.inode, pos |-> q.pos, size |-> q.size,
                  seen |-> q.seen, todo |-> names, arts |-> found,
                  quiet |-> q.quiet, failed |-> q.failed, cut |-> cut,
                  expect |-> q.expect]
      BY <3>3, ZenonT(60) DEF ReqType
    <3>5. now \in ReqType
      <4>1. q \in ReqType  BY <3>3
      <4>2. cut \in BOOLEAN  OBVIOUS
      <4>3. PICK c \in BOOLEAN : c = cut  BY <4>2
      <4>4. now = [op |-> q.op, target |-> q.target, pc |-> "clear_art", code |-> q.code,
                    inode |-> q.inode, pos |-> q.pos, size |-> q.size,
                    seen |-> q.seen, todo |-> names, arts |-> found,
                    quiet |-> q.quiet, failed |-> q.failed, cut |-> c,
                    expect |-> q.expect]
        BY <3>4, <4>3
      <4>5. QED  BY <3>1, <4>1, <4>4 DEF ReqType
    <3>6. /\ now.op = q.op /\ now.target = q.target
          /\ now.pc = "clear_art" /\ now.todo = names /\ now.arts = found
          /\ now.failed = q.failed /\ now.size = q.size
          /\ now.quiet = q.quiet /\ now.cut = cut
      BY <3>4
    <3>7. QED  BY <3>2, <3>5, <3>6
  <2>3. /\ req'[r] = now
        /\ req'[r].op = "delete_build" /\ req'[r].target = "build"
        /\ req'[r].pc = "clear_art" /\ req'[r].todo = names /\ req'[r].arts = found
        /\ req'[r].quiet = req[r].quiet /\ req'[r].cut = cut
        /\ OpFits(r)'
        /\ \A o \in Origin : ~Logs(r, o)'
    <3>1. req[r].pc \in {"clear", "clear_art"}  BY <1>1 DEF At
    <3>2. "artifacts" \notin now.todo  BY <2>1, <2>10
    <3> HIDE DEF IndInv
    <3>3. QED  BY <2>2, <2>10, <3>1, <3>2, ClearGoes
  <2>4. UNCHANGED Storage /\ UNCHANGED <<builddir, artdir, file, data, last>>
    BY <1>1, <1>7 DEF Storage
  <2>5. LogFits(r)'  BY <1>2, <2>3, <2>4, LogStill
  <2>6. QuietFits(r)'
    <3>1. SUFFICES ASSUME req[r].quiet PROVE QuietOnBuild(r)'
      BY <2>3 DEF QuietFits, Target
    <3>2. QuietOnBuild(r)  BY <1>2, <3>1
    <3>3. "artifacts" \notin TopFile  BY DEF TopFile
    <3>4. QED
      BY <1>1, <1>7, <2>1, <2>3, <2>4, <2>9, <3>2, <3>3 DEF QuietOnBuild, At, Linked
  <2>7. AloneFits(r)'
    <3>1. Alone(r)' => Alone(r)  BY <1>1, <2>2, <2>3, <2>10, AloneBefore
    <3>2. AloneFits(r)  OBVIOUS
    <3>3. QED
      BY <1>1, <1>2, <1>7, <2>1, <2>3, <2>4, <2>9, <3>1, <3>2 DEF AloneFits, At, Linked
  <2>8. QED  BY <1>1, <2>2, <2>3, <2>4, <2>5, <2>6, <2>7, <2>10, Untouched
<1>8. QED  BY <1>4, <1>5, <1>6, <1>7

\* An artifact is removed, or their directory when it is empty.
LEMMA ClearArtifactsStep ==
    ASSUME IndInv, NEW r \in Request, ClearArtifacts(r)
    PROVE  IndInv'
<1> USE DEF IndInv
<1>1. /\ req \in [Request -> ReqType] /\ req[r] \in ReqType
      /\ At(r, "clear_art") /\ UNCHANGED <<builddir, data, errors>>
      /\ errors' \in 0 .. MaxErrors
  BY DEF ClearArtifacts, Shape
<1>2. /\ req[r].op = "delete_build" /\ Target(r) = "build"
      /\ (req[r].quiet => QuietOnBuild(r))
      /\ "artifacts" \notin req[r].todo
      /\ \A o \in Origin : ~Logs(r, o)
  BY <1>1, DeletesBuild DEF At
<1>3. /\ req[r].todo \subseteq TopFile \cup {"artifacts"}
      /\ req[r].arts \subseteq Artifact /\ req[r].cut \in BOOLEAN
  BY <1>1, Fields
<1>4. \/ /\ \E code \in {"ok", "not_found"} : Answer(r, code)
         /\ UNCHANGED <<file, last, artdir>>
      \/ /\ UNCHANGED artdir
         /\ \E n \in req[r].arts :
                Linked(n) /\ UnlinkName(r, n, [req[r] EXCEPT !.arts = @ \ {n}])
      \/ /\ req[r].arts = {} /\ UNCHANGED <<file, last>>
         /\ artdir /\ \A n \in Artifact : ~Linked(n)
         /\ artdir' = FALSE
         /\ Becomes(r, [req[r] EXCEPT !.pc = "clear"], Artifact)
  BY <1>2 DEF ClearArtifacts, GoneCode, NotEmptyCode, ErrorCode
<1>5. ASSUME NEW code \in {"ok", "not_found"}, Answer(r, code),
             UNCHANGED <<file, last, artdir>>
      PROVE  IndInv'
  <2>1. UNCHANGED <<Storage, errors>>  BY <1>1, <1>5 DEF Storage
  <2>2. QED  BY <1>1, <1>5, <2>1, AnswerStep DEF At
<1>6. ASSUME UNCHANGED artdir, NEW n \in req[r].arts, Linked(n),
             UnlinkName(r, n, [req[r] EXCEPT !.arts = @ \ {n}])
      PROVE  IndInv'
  <2>1. n \in Artifact /\ n \in Name /\ n \notin TopFile
    BY <1>3, <1>6, Constants DEF Name, Artifact, TopFile
  <2>2. PICK found, now : /\ found = req[r].arts \ {n}
                          /\ now = [req[r] EXCEPT !.arts = found]
    OBVIOUS
  <2>3. UnlinkName(r, n, now) /\ Becomes(r, now, {n})
    BY <1>6, <2>2 DEF UnlinkName
  <2>4. /\ now \in ReqType /\ now.op = req[r].op /\ now.target = req[r].target
        /\ now.pc = "clear_art" /\ now.todo = req[r].todo /\ now.arts = found
        /\ now.failed = req[r].failed /\ now.size = req[r].size
        /\ now.quiet = req[r].quiet /\ now.cut = req[r].cut
    BY <1>1, <1>3, <2>2 DEF ReqType, At
  <2>5. /\ req'[r] = now
        /\ req'[r].op = "delete_build" /\ req'[r].target = "build"
        /\ req'[r].pc = "clear_art" /\ req'[r].todo = req[r].todo /\ req'[r].arts = found
        /\ req'[r].quiet = req[r].quiet /\ req'[r].cut = req[r].cut
        /\ OpFits(r)'
    <3>1. req[r].pc \in {"clear", "clear_art"} /\ "artifacts" \notin now.todo
      BY <1>1, <1>2, <2>4 DEF At
    <3> HIDE DEF IndInv
    <3>2. QED  BY <2>3, <2>4, <3>1, ClearGoes
  <2>6. file' = [file EXCEPT ![n] = NoFile]  BY <2>3 DEF UnlinkName
  <2>7. \A x \in TopFile \cup Artifact : Linked(x)' <=> Linked(x) /\ x # n
    BY <2>1, <2>6 DEF Linked, Name, Shape
  <2>8. QuietFits(r)'
    <3>1. SUFFICES ASSUME req[r].quiet PROVE QuietOnBuild(r)'
      BY <2>5 DEF QuietFits, Target
    <3>2. QuietOnBuild(r)  BY <1>2, <3>1
    <3>3. \A x \in TopFile : Linked(x)' <=> Linked(x)  BY <2>1, <2>7
    <3>4. /\ \A x \in found : Linked(x)'
          /\ req'[r].cut <=> \E x \in Artifact \ found : Linked(x)'
      BY <1>1, <1>3, <2>2, <2>5, <2>7, <3>2 DEF QuietOnBuild
    <3>5. QED
      BY <1>1, <1>6, <2>5, <3>2, <3>3, <3>4 DEF QuietOnBuild, At
  <2>9. AloneFits(r)'
    <3>1. Alone(r)' => Alone(r)  BY <1>1, <2>3, <2>4, <2>5, AloneBefore
    <3>2. AloneFits(r)  OBVIOUS
    <3>3. \A x \in req[r].todo \ {"artifacts"} : x \in TopFile /\ x # n
      BY <1>3, <2>1
    <3>4. \A x \in found : x \in Artifact /\ x # n /\ x \in req[r].arts
      BY <1>3, <2>2
    <3>5. QED
      BY <1>1, <1>2, <1>6, <2>5, <2>7, <3>1, <3>2, <3>3, <3>4 DEF AloneFits, At
  <2>10. QED
    BY <1>1, <1>2, <1>6, <2>1, <2>3, <2>4, <2>5, <2>8, <2>9, UnlinkKeeps
<1>7. CASE /\ req[r].arts = {} /\ UNCHANGED <<file, last>>
           /\ artdir /\ \A n \in Artifact : ~Linked(n)
           /\ artdir' = FALSE
           /\ Becomes(r, [req[r] EXCEPT !.pc = "clear"], Artifact)
  <2>1. PICK now : now = [req[r] EXCEPT !.pc = "clear"]  OBVIOUS
  <2>2. Becomes(r, now, Artifact)  BY <1>7, <2>1
  <2>3. /\ now \in ReqType /\ now.op = req[r].op /\ now.target = req[r].target
        /\ now.pc = "clear" /\ now.todo = req[r].todo
        /\ now.failed = req[r].failed /\ now.size = req[r].size
        /\ now.quiet = req[r].quiet /\ now.cut = req[r].cut
    BY <1>1, <2>1 DEF ReqType
  <2>4. /\ req'[r] = now
        /\ req'[r].op = "delete_build" /\ req'[r].target = "build"
        /\ req'[r].pc = "clear" /\ req'[r].todo = req[r].todo
        /\ req'[r].quiet = req[r].quiet /\ req'[r].cut = req[r].cut
        /\ OpFits(r)'
        /\ \A o \in Origin : ~Logs(r, o)'
    <3>1. req[r].pc \in {"clear", "clear_art"}  BY <1>1 DEF At
    <3> HIDE DEF IndInv
    <3>2. QED  BY <2>2, <2>3, <3>1, ClearGoes
  <2>5. LogFits(r)'  BY <1>1, <1>2, <2>4, LogStill
  <2>6. QuietFits(r)'
    <3>1. SUFFICES ASSUME req[r].quiet PROVE QuietOnBuild(r)'
      BY <2>4 DEF QuietFits, Target
    <3>2. QuietOnBuild(r)  BY <1>2, <3>1
    <3>3. QED
      BY <1>1, <1>2, <1>7, <2>4, <3>2 DEF QuietOnBuild, At, Linked
  <2>7. AloneFits(r)'
    <3>1. Alone(r)' => Alone(r)  BY <1>1, <2>2, <2>3, <2>4, AloneBefore
    <3>2. AloneFits(r)  OBVIOUS
    <3>3. QED
      BY <1>1, <1>2, <1>7, <2>4, <3>1, <3>2 DEF AloneFits, At, Linked
  <2>8. Artifact # {}  BY Constants DEF Artifact
  <2>9. builddir' = builddir /\ builddir' \in BOOLEAN /\ artdir' = FALSE
        /\ (~builddir => \A n \in TopFile : file[n] = NoFile)
    BY <1>1, <1>7 DEF Shape
  <2>10. \A n \in Artifact : file[n] = NoFile  BY <1>7 DEF Linked
  <2>11. UNCHANGED <<file, data, last, errors>>  BY <1>1, <1>7
  <2>12. QED
    BY <1>2, <2>2, <2>3, <2>4, <2>5, <2>6, <2>7, <2>8, <2>9, <2>10, <2>11,
       OnlyDirectories
<1>8. QED  BY <1>4, <1>5, <1>6, <1>7

\* The build's directory is removed when it is empty.
LEMMA RemoveBuildDirStep ==
    ASSUME IndInv, NEW r \in Request, RemoveBuildDir(r)
    PROVE  IndInv'
<1> USE DEF IndInv
<1>1. /\ req \in [Request -> ReqType] /\ req[r] \in ReqType
      /\ At(r, "clear") /\ UNCHANGED <<artdir, file, data, last, errors>>
  BY DEF RemoveBuildDir, Shape
<1>2. /\ req[r].op = "delete_build"
      /\ \A o \in Origin : ~Logs(r, o)
  BY <1>1, DeletesBuild DEF At
<1>3. \/ /\ \E code \in {"ok", "not_found"} : Answer(r, code)
         /\ UNCHANGED builddir
      \/ /\ ~artdir /\ \A n \in Name : ~Linked(n)
         /\ builddir' = FALSE
         /\ Becomes(r, Answered(r, "ok"), Name)
  BY <1>2 DEF RemoveBuildDir, GoneCode, NotEmptyCode, ErrorCode
<1>4. ASSUME NEW code \in {"ok", "not_found"}, Answer(r, code), UNCHANGED builddir
      PROVE  IndInv'
  <2>1. UNCHANGED <<Storage, errors>>  BY <1>1, <1>4 DEF Storage
  <2>2. QED  BY <1>1, <1>4, <2>1, AnswerStep DEF At
<1>5. CASE /\ ~artdir /\ \A n \in Name : ~Linked(n)
           /\ builddir' = FALSE
           /\ Becomes(r, Answered(r, "ok"), Name)
  <2>1. PICK now : now = Answered(r, "ok")  OBVIOUS
  <2>2. /\ now \in ReqType /\ now.op = req[r].op /\ now.target = req[r].target
        /\ now.pc = "done" /\ now.size = req[r].size
    BY <1>1, <2>1, AnsweredIs
  <2>3. Becomes(r, now, Name) /\ req'[r] = now  BY <1>5, <2>1, Own
  <2>4. OpFits(r)  OBVIOUS
  <2>5. OpFits(r)'
    BY <1>1, <2>2, <2>3, <2>4 DEF OpFits, At, Target, TargetOf
  <2>6. LogFits(r)'
    <3>1. \A o \in Origin : ~Logs(r, o)'  BY <1>2, <2>2, <2>3 DEF Logs
    <3>2. QED  BY <1>1, <1>2, <3>1, LogStill
  <2>7. QuietFits(r)'  BY <2>2, <2>3 DEF QuietFits, Active
  <2>8. AloneFits(r)'  BY <2>2, <2>3 DEF AloneFits, At
  <2>9. \A n \in TopFile \cup Artifact : file[n] = NoFile
    BY <1>5 DEF Linked, Name
  <2>10. Name # {}  BY DEF Name, TopFile
  <2>11. builddir' = FALSE /\ artdir' = FALSE /\ artdir = FALSE
    BY <1>1, <1>5 DEF Shape
  <2>12. UNCHANGED <<file, data, last, errors>>  BY <1>1
  <2>13. QED
    BY <2>2, <2>3, <2>5, <2>6, <2>7, <2>8, <2>9, <2>10, <2>11, <2>12, OnlyDirectories
<1>6. QED  BY <1>3, <1>4, <1>5

-----------------------------------------------------------------------------
(* The invariant *)

\* A build under way, or one that was just triggered, as it is found.
LEMMA InvInit == Init => IndInv
<1> SUFFICES ASSUME Init PROVE IndInv  OBVIOUS
<1>1. /\ builddir = TRUE /\ artdir \in BOOLEAN /\ errors = 0
      /\ file = [n \in Name |-> IF n \in Present THEN Trigger ELSE NoFile]
      /\ last = [n \in Name |-> IF n \in Present THEN Trigger ELSE "absent"]
  BY DEF Init
<1>2. /\ "console" \notin Present /\ "console" \in Name
      /\ Trigger \in Origin /\ Trigger # NoFile /\ "absent" \notin Origin
      /\ \A n \in Artifact : n \in Present => artdir
  BY Constants, FilesConstants DEF Present, Name, TopFile, Artifact
<1>3. /\ Body(Trigger) \in Seq(Chunk) /\ Len(Body(Trigger)) = 2
      /\ <<>> \in Seq(Chunk) /\ Len(<<>>) = 0 /\ DOMAIN <<>> = {}
  BY <1>2 DEF Body, Chunk
<1>4. \A n \in Name : \A o \in Origin :
          data[n][o] = IF n \in Present /\ o = Trigger THEN Body(Trigger) ELSE <<>>
  BY DEF Init
<1>5. data \in [Name -> [Origin -> Seq(Chunk)]]
  <2>1. \A n \in Name :
            [o \in Origin |-> IF n \in Present /\ o = Trigger THEN Body(Trigger) ELSE <<>>]
                \in [Origin -> Seq(Chunk)]
    BY <1>3
  <2>2. QED  BY <2>1 DEF Init
<1>6. \A o \in Origin : data["console"][o] = <<>>  BY <1>2, <1>4
<1>7. ASSUME NEW r \in Request
      PROVE  /\ req[r] \in ReqType
             /\ req[r].op = "none" /\ req[r].pc = "idle" /\ req[r].inode = NoFile
             /\ req[r].pos = 0 /\ req[r].size = Longest /\ req[r].seen = <<>>
             /\ ~req[r].failed /\ ~req[r].cut
  <2>1. req[r] = [op |-> "none", target |-> "build", pc |-> "idle", code |-> "none",
                  inode |-> NoFile, pos |-> 0, size |-> Longest, seen |-> <<>>,
                  todo |-> {}, arts |-> {}, quiet |-> TRUE, failed |-> FALSE, cut |-> FALSE,
                  expect |-> "unknown"]
    BY DEF Init
  <2>2. 0 \in 0 .. Longest /\ Longest \in 0 .. Longest  BY Constants
  <2>3. QED  BY <1>3, <2>1, <2>2 DEF ReqType
<1>8. Shape
  <2>1. req \in [Request -> ReqType]
    <3>1. req = [r \in Request |-> req[r]]  BY DEF Init
    <3>2. QED  BY <1>7, <3>1
  <2>2. file \in [Name -> Origin \cup {NoFile}]
        /\ last \in [Name -> Origin \cup {"absent", "unknown"}]
    BY <1>1, <1>2
  <2>3. errors \in 0 .. MaxErrors  BY <1>1, Constants
  <2>4. ~artdir => \A n \in Artifact : file[n] = NoFile
    BY <1>1, <1>2 DEF Name
  <2>5. QED  BY <1>1, <1>5, <2>1, <2>2, <2>3, <2>4 DEF Shape
<1>9. ChunksFit  BY <1>3, <1>6 DEF ChunksFit
<1>10. ASSUME NEW n \in Name PROVE FileFits(n)
  <2>1. \A o \in Origin : Len(data[n][o]) <= 2
    <3>1. \A o \in Origin : data[n][o] = Body(Trigger) \/ data[n][o] = <<>>
      BY <1>4
    <3>2. Len(Body(Trigger)) <= 2  BY <1>3
    <3>3. Len(<<>>) <= 2  OBVIOUS
    <3>4. QED  BY <3>1, <3>2, <3>3
  <2>2. CASE n \in Present
    <3>1. file[n] = Trigger /\ last[n] = Trigger  BY <1>1, <2>2
    <3>2. data[n][Trigger] = Body(Trigger)  BY <1>2, <1>4, <2>2
    <3>3. QED  BY <1>2, <2>1, <3>1, <3>2 DEF FileFits, Linked
  <2>3. CASE n \notin Present
    <3>1. file[n] = NoFile /\ last[n] = "absent"  BY <1>1, <2>3
    <3>2. QED  BY <1>2, <2>1, <3>1 DEF FileFits, Linked
  <2>4. QED  BY <2>2, <2>3
<1>11. ASSUME NEW r \in Request
       PROVE  OpFits(r) /\ LogFits(r) /\ QuietFits(r) /\ AloneFits(r)
  <2>1. OpFits(r)  BY <1>7 DEF OpFits, At
  <2>2. LogFits(r)
    <3>1. \A o \in Origin : ~Logs(r, o)  BY <1>7 DEF Logs
    <3>2. \A o \in Origin : NoneOf(r, o)  BY <1>3, <1>6 DEF NoneOf, Mine
    <3>3. QED  BY <3>1, <3>2 DEF LogFits
  <2>3. QuietFits(r)  BY <1>7 DEF QuietFits, Active
  <2>4. AloneFits(r)  BY <1>7 DEF AloneFits
  <2>5. QED  BY <2>1, <2>2, <2>3, <2>4
<1>12. QED  BY <1>8, <1>9, <1>10, <1>11 DEF IndInv

\* Every step of every request keeps it.
LEMMA InvStep == IndInv /\ [Next]_vars => IndInv'
<1> SUFFICES ASSUME IndInv, [Next]_vars PROVE IndInv'  OBVIOUS
<1>1. ASSUME NEW r \in Request, Receive(r) \/ Handle(r) \/ Fail(r)
      PROVE  IndInv'
  BY <1>1, ReceiveStep, CheckStep, MakeBuildDirStep, CheckArtifactDirStep,
     MakeArtifactDirStep, OpenToWriteStep, WriteChunkStep, OpenToReadStep, GetSizeStep,
     ReadChunkStep, UnlinkStep, ListBuildStep, ClearBuildStep, ClearArtifactsStep,
     RemoveBuildDirStep, FailStep
  DEF Handle
<1>2. CASE UNCHANGED vars
  <2>1. UNCHANGED <<builddir, artdir, file, data, req, last, errors>>  BY <1>2 DEF vars
  <2>2. Shape' /\ ChunksFit'  BY <2>1 DEF IndInv, Shape, ChunksFit
  <2>3. \A n \in Name : FileFits(n)'  BY <2>1, FileKept DEF IndInv
  <2>4. ASSUME NEW r \in Request
        PROVE  OpFits(r)' /\ LogFits(r)' /\ QuietFits(r)' /\ AloneFits(r)'
    <3>1. OpFits(r) /\ LogFits(r) /\ QuietFits(r) /\ AloneFits(r)  BY DEF IndInv
    <3>2. Bystander(r)  BY <2>1 DEF Bystander
    <3>3. OpFits(r)' /\ LogFits(r)'  BY <2>1, <3>1, <3>2, OpKept, LogKept
    <3>4. QuietFits(r)'  BY <2>1, <3>1, <3>2, QuietKept
    <3>5. Alone(r)' <=> Alone(r)  BY <2>1 DEF Alone
    <3>6. \A n : Linked(n)' <=> Linked(n)  BY <2>1 DEF Linked
    <3>7. AloneFits(r)'  BY <2>1, <3>1, <3>5, <3>6 DEF AloneFits, At
    <3>8. QED  BY <3>3, <3>4, <3>7
  <2>5. QED  BY <2>2, <2>3, <2>4 DEF IndInv
<1>3. QED  BY <1>1, <1>2 DEF Next

\* What requests rely on, and what each file holds, at all times: the steps of a
\* request and those of all the others keep it.
THEOREM Invariance == Spec => []IndInv
BY InvInit, InvStep, PTL DEF Spec

\* The inodes, names and requests are what they are said to be, files are only
\* where their directories are, and no file grows beyond two chunks for each
\* request there is (TypeOK).
THEOREM TypeCorrect == Spec => []TypeOK
<1>1. IndInv => TypeOK
  <2> SUFFICES ASSUME IndInv PROVE TypeOK  OBVIOUS
  <2>1. Shape  BY DEF IndInv
  <2>2. \A n \in Name : \A o \in Origin : Len(data[n][o]) <= Longest  BY Lengths
  <2>3. QED  BY <2>1, <2>2 DEF TypeOK, Shape
<1>2. QED  BY <1>1, Invariance, PTL

\* An append whose open and writes worked is in the console log it opened once,
\* in order and whole, whatever others append, delete or write (AppendsAreKept;
\* jobs_builds.py:236-239).  One that failed is answered 204 as well (:240-243),
\* and of it nothing is said.
THEOREM AppendsKept == Spec => []AppendsAreKept
<1>1. IndInv => AppendsAreKept
  <2> SUFFICES ASSUME IndInv PROVE AppendsAreKept  OBVIOUS
  <2>1. ASSUME NEW r \in Request,
               req[r].op = "append_console", req[r].pc = "done",
               req[r].inode # NoFile, ~req[r].failed
        PROVE  LET log == data["console"][req[r].inode]
               IN  \E i, j \in DOMAIN log :
                      /\ i < j /\ log[i] = <<r, 1>> /\ log[j] = <<r, 2>>
                      /\ \A k \in DOMAIN log \ {i, j} : log[k][1] # r
    <3> DEFINE o == req[r].inode
    <3>1. o \in Origin  BY <2>1, Fields DEF IndInv, Shape
    <3>2. LogFits(r) /\ Logs(r, o)  BY <2>1 DEF IndInv, Logs
    <3>3. BothOf(r, o)  BY <2>1, <3>1, <3>2 DEF LogFits, At
    <3>4. PICK i, j \in DOMAIN data["console"][o] :
              /\ i < j /\ Mine(r, o) = {i, j}
              /\ data["console"][o][i] = <<r, 1>> /\ data["console"][o][j] = <<r, 2>>
      BY <3>3 DEF BothOf
    <3>5. \A k \in DOMAIN data["console"][o] \ {i, j} : data["console"][o][k][1] # r
      BY <3>4 DEF Mine
    <3>6. QED  BY <3>4, <3>5
  <2>2. QED  BY <2>1, ZenonT(60) DEF AppendsAreKept
<1>2. QED  BY <1>1, Invariance, PTL

-----------------------------------------------------------------------------
(* What a request is told *)

\* An early answer changes nothing of a request but its step and its code.
LEMMA AnswerSays ==
    ASSUME req \in [Request -> ReqType], NEW r \in Request, NEW code, Answer(r, code)
    PROVE  /\ req'[r].pc = "done" /\ req'[r].code = code
           /\ req'[r].op = req[r].op /\ req'[r].seen = req[r].seen
           /\ req'[r].quiet = req[r].quiet /\ req'[r].failed = req[r].failed
           /\ req'[r].expect = req[r].expect /\ req'[r].cut = req[r].cut
<1>1. req[r] \in ReqType /\ req'[r] = Answered(r, code)  BY Own DEF Answer
<1>2. QED  BY <1>1, AnsweredIs

\* A request that goes on is not done.
LEMMA NotDone ==
    ASSUME req \in [Request -> ReqType], NEW r \in Request,
           NEW now, NEW touched, Becomes(r, now, touched), now.pc # "done"
    PROVE  req'[r].pc # "done"
BY Own

\* The last step of a request that somebody else takes is none of its own.
LEMMA OthersStay ==
    ASSUME req \in [Request -> ReqType], NEW q \in Request,
           Receive(q) \/ Handle(q) \/ Fail(q), NEW r \in Request \ {q}
    PROVE  Bystander(r)
<1>1. \E now, touched : Becomes(q, now, touched)
  BY DEF Receive, Handle, Fail, Check, GoTo, Answer, MakeBuildDir, CheckArtifactDir,
     MakeArtifactDir, AlreadyMade, OpenToWrite, WriteChunk, OpenToRead, TryAgain,
     GetSize, ReadChunk, EndOfState, Unlink, UnlinkName, ListBuild, ClearBuild,
     ClearArtifacts, RemoveBuildDir
<1>2. QED  BY <1>1, Others

\* A deletion that is done has left no build behind, if nobody else deletes.
LEMMA DeletionEnds ==
    ASSUME IndInv, NEW r \in Request, Receive(r) \/ Handle(r) \/ Fail(r),
           req[r].op = "delete_build", Alone(r),
           req[r].pc # "done", req'[r].pc = "done", req'[r].code = "ok"
    PROVE  ~builddir'
<1> USE DEF IndInv
<1>1. req \in [Request -> ReqType] /\ req[r] \in ReqType  BY DEF Shape
<1>2. OpFits(r) /\ AloneFits(r)  OBVIOUS
<1>3. /\ req[r].op \notin Reads /\ req[r].op \notin Writes /\ req[r].op \notin Deletes
      /\ ~NeedsFile(req[r].op)
      /\ ErrorCode(r) = "not_found"
  BY Kinds DEF ErrorCode
<1>4. req[r].pc \in {"check", "list", "clear", "clear_art", "dead"}
  BY <1>1, <1>2, <1>3, Fields DEF OpFits, At
<1>5. ASSUME NEW code, Answer(r, code) PROVE code = "ok"
  BY <1>1, <1>5, AnswerSays
<1>6. CASE Check(r)
  <2>1. ~Answer(r, "not_found")  BY <1>5
  <2>2. GoTo(r, "list")  BY <1>3, <1>6, <2>1 DEF Check
  <2>3. req'[r].pc = "list"  BY <1>1, <2>2, Goes DEF GoTo
  <2>4. QED  BY <2>3
<1>7. CASE ListBuild(r)
  <2>1. CASE builddir
    <3>1. PICK names : Becomes(r, [req[r] EXCEPT !.pc = "clear", !.todo = names], {})
      BY <1>7, <2>1 DEF ListBuild
    <3>2. [req[r] EXCEPT !.pc = "clear", !.todo = names].pc # "done"
      BY <1>1 DEF ReqType
    <3>3. QED  BY <1>1, <3>1, <3>2, NotDone
  <2>2. QED  BY <1>7, <2>1 DEF ListBuild, Storage
<1>8. CASE ClearBuild(r)
  <2>1. At(r, "clear")  BY <1>8 DEF ClearBuild
  <2>2. /\ \A n \in req[r].todo \ {"artifacts"} : Linked(n)
        /\ "artifacts" \in req[r].todo => artdir
    BY <1>2, <2>1 DEF AloneFits, At
  <2>3. \/ \E n : Becomes(r, [req[r] EXCEPT !.todo = @ \ {n}], {n})
        \/ \E found, cut : Becomes(r, [req[r] EXCEPT !.pc = "clear_art",
                                        !.todo = @ \ {"artifacts"}, !.arts = found,
                                        !.cut = cut], {})
    BY <1>8, <2>2 DEF ClearBuild, UnlinkName
  <2>4. \E now, touched : Becomes(r, now, touched) /\ now.pc # "done"
    <3>1. \A n : [req[r] EXCEPT !.todo = @ \ {n}].pc # "done"
      BY <1>1 DEF ReqType
    <3>2. \A found, cut : [req[r] EXCEPT !.pc = "clear_art", !.todo = @ \ {"artifacts"},
                                         !.arts = found, !.cut = cut].pc # "done"
      BY <1>1 DEF ReqType
    <3>3. QED  BY <2>3, <3>1, <3>2
  <2>5. QED  BY <1>1, <2>4, NotDone
<1>9. CASE ClearArtifacts(r)
  <2>1. At(r, "clear_art")  BY <1>9 DEF ClearArtifacts
  <2>2. artdir /\ \A n \in req[r].arts : Linked(n)
    BY <1>2, <2>1 DEF AloneFits, At
  <2>3. ~Answer(r, "not_found")  BY <1>5
  <2>4. \/ \E n : Becomes(r, [req[r] EXCEPT !.arts = @ \ {n}], {n})
        \/ Becomes(r, [req[r] EXCEPT !.pc = "clear"], Artifact)
    BY <1>3, <1>9, <2>2, <2>3 DEF ClearArtifacts, UnlinkName, NotEmptyCode
  <2>5. \E now, touched : Becomes(r, now, touched) /\ now.pc # "done"
    <3>1. \A n : [req[r] EXCEPT !.arts = @ \ {n}].pc # "done"
      BY <1>1 DEF ReqType
    <3>2. [req[r] EXCEPT !.pc = "clear"].pc # "done"
      BY <1>1 DEF ReqType
    <3>3. QED  BY <2>4, <3>1, <3>2
  <2>6. QED  BY <1>1, <2>5, NotDone
<1>10. CASE RemoveBuildDir(r)
  <2>1. ~Answer(r, "not_found")  BY <1>5
  <2>2. QED  BY <1>3, <1>10, <2>1 DEF RemoveBuildDir, NotEmptyCode
<1>11. CASE Fail(r)
  <2>1. PICK now : /\ Becomes(r, now, {})
                   /\ \/ now = [Answered(r, ErrorCode(r)) EXCEPT !.failed = TRUE]
                      \/ now = [req[r] EXCEPT !.pc = "dead"]
    BY <1>11 DEF Fail
  <2>2. now.code # "ok" \/ now.pc # "done"
    <3>1. CASE now = [req[r] EXCEPT !.pc = "dead"]  BY <1>1, <3>1 DEF ReqType
    <3>2. CASE now = [Answered(r, ErrorCode(r)) EXCEPT !.failed = TRUE]
      <4>1. Answered(r, ErrorCode(r)) \in ReqType
            /\ Answered(r, ErrorCode(r)).code = "not_found"
        BY <1>1, <1>3, AnsweredIs
      <4>2. QED  BY <3>2, <4>1 DEF ReqType
    <3>3. QED  BY <2>1, <3>1, <3>2
  <2>3. QED  BY <2>1, <2>2, Own
<1>12. QED
  BY <1>1, <1>3, <1>4, <1>6, <1>7, <1>8, <1>9, <1>10, <1>11
  DEF Receive, Handle, At, MakeBuildDir, CheckArtifactDir, MakeArtifactDir, OpenToWrite,
      WriteChunk, OpenToRead, GetSize, ReadChunk, Unlink

\* A deletion that is answered 204 has removed the build, as long as nobody else
\* deletes anything (DeletionIsThorough; jobs_builds.py:345-351).
THEOREM DeletionThorough == Spec => DeletionIsThorough
<1>1. IndInv /\ [Next]_vars =>
          [\A r \in Request :
               /\ req[r].op = "delete_build" /\ req[r].pc # "done"
               /\ req'[r].pc = "done" /\ req'[r].code = "ok"
               /\ \A q \in Request \ {r} : req[q].op \notin Deletes \cup {"delete_build"}
               => ~builddir']_vars
  <2> SUFFICES ASSUME IndInv, Next,
                      NEW r \in Request,
                      req[r].op = "delete_build", req[r].pc # "done",
                      req'[r].pc = "done", req'[r].code = "ok",
                      \A q \in Request \ {r} : req[q].op \notin Deletes \cup {"delete_build"}
               PROVE  ~builddir'
    OBVIOUS
  <2>1. PICK q \in Request : Receive(q) \/ Handle(q) \/ Fail(q)  BY DEF Next
  <2>2. req \in [Request -> ReqType]  BY DEF IndInv, Shape
  <2>3. q = r  BY <2>1, <2>2, OthersStay DEF Bystander
  <2>4. Alone(r)  BY DEF Alone
  <2>5. QED  BY <2>1, <2>3, <2>4, DeletionEnds
<1>2. QED  BY <1>1, Invariance, PTL DEF Spec, DeletionIsThorough

\* What a quiet request whose calls all worked may expect to be told ...
Deserved(q) ==
    q.pc = "done" /\ q.quiet /\ ~q.failed =>
        CASE NeedsFile(q.op) \/ q.op = "get_state" ->
                 /\ q.expect \in Origin => q.code = "ok"
                 /\ q.expect = "absent" => q.code # "ok"
          [] q.op = "delete_build" -> q.code = "ok" <=> ~q.cut
          [] OTHER -> q.code = "ok"

\* ... and what a quiet reader may expect to have read.
Expected(q) ==
    /\ q.pc = "done" /\ q.op \in Reads /\ q.quiet
    /\ q.op # "get_console" /\ q.expect \in Origin
    => q.seen = Body(q.expect)

\* A bystander is told and has read what it was and had.
LEMMA BystanderTold ==
    ASSUME NEW q \in Request, Bystander(q)
    PROVE  /\ Deserved(req[q]) => Deserved(req'[q])
           /\ Expected(req[q]) => Expected(req'[q])
BY DEF Bystander, Deserved, Expected

\* A request that goes on is told nothing yet.
LEMMA NotYetTold ==
    ASSUME NEW r \in Request, req'[r].pc # "done"
    PROVE  Deserved(req'[r]) /\ Expected(req'[r])
BY DEF Deserved, Expected

\* An answer is deserved if what is known of a quiet request makes it so.
LEMMA AnswerTold ==
    ASSUME req \in [Request -> ReqType], NEW r \in Request, NEW code, Answer(r, code)
    PROVE  /\ (req[r].quiet =>
                  IF NeedsFile(req[r].op) \/ req[r].op = "get_state"
                  THEN /\ req[r].expect \in Origin => code = "ok"
                       /\ req[r].expect = "absent" => code # "ok"
                  ELSE IF req[r].op = "delete_build" THEN code = "ok" <=> ~req[r].cut
                  ELSE code = "ok") => Deserved(req'[r])
           /\ (req[r].quiet /\ req[r].op \in Reads /\ req[r].op # "get_console"
                  /\ req[r].expect \in Origin => req[r].seen = Body(req[r].expect))
                  => Expected(req'[r])
<1>1. /\ req'[r].pc = "done" /\ req'[r].code = code
      /\ req'[r].op = req[r].op /\ req'[r].seen = req[r].seen
      /\ req'[r].quiet = req[r].quiet /\ req'[r].failed = req[r].failed
      /\ req'[r].expect = req[r].expect /\ req'[r].cut = req[r].cut
  BY AnswerSays
<1> PICK q, now : q = req[r] /\ now = req'[r]  OBVIOUS
<1> DEFINE known ==
      /\ NeedsFile(q.op) \/ q.op = "get_state" =>
            /\ q.expect \in Origin => code = "ok"
            /\ q.expect = "absent" => code # "ok"
      /\ ~NeedsFile(q.op) /\ q.op # "get_state" =>
            /\ q.op = "delete_build" /\ ~q.cut => code = "ok"
            /\ q.op = "delete_build" /\ q.cut => code # "ok"
            /\ q.op # "delete_build" => code = "ok"
<1>2. ASSUME q.quiet => known PROVE Deserved(now)
  <2>1. SUFFICES ASSUME now.quiet, ~now.failed PROVE Deserved(now)  BY DEF Deserved
  <2>2. known  BY <1>1, <1>2, <2>1
  <2>3. CASE NeedsFile(now.op) \/ now.op = "get_state"
    BY <1>1, <2>2, <2>3, Kinds DEF Deserved
  <2>4. CASE ~NeedsFile(now.op) /\ now.op # "get_state"  BY <1>1, <2>2, <2>4 DEF Deserved
  <2>5. QED  BY <2>3, <2>4
<1>3. QED  BY <1>1, <1>2 DEF Expected

\* What a quiet request knows, in the words of what it expects: an expected body
\* is there, and what it needs was there when it looked.
LEMMA QuietKnows ==
    ASSUME IndInv, NEW r \in Request, r \in Active, req[r].quiet
    PROVE  /\ builddir <=> ~At(r, "mkbuild")
           /\ Target(r) # "build" => Target(r) \in Name /\ QuietOnFile(r)
           /\ Target(r) = "build" => QuietOnBuild(r)
           /\ Target(r) # "build" /\ ~At(r, "write") =>
                 /\ req[r].expect = last[Target(r)]
                 /\ req[r].expect \in Origin => Linked(Target(r))
                 /\ req[r].expect = "absent" => ~Linked(Target(r))
           /\ Target(r) # "build" /\ NeedsFile(req[r].op) /\ ~At(r, "check") =>
                 /\ Linked(Target(r)) \/ At(r, "write")
                 /\ req[r].expect # "absent"
<1>1. QuietFits(r)  BY DEF IndInv
<1>2. ~At(r, "idle")  BY DEF Active, At
<1>3. CASE Target(r) = "build"
  <2>1. QuietOnBuild(r)  BY <1>1, <1>3 DEF QuietFits
  <2>2. ~At(r, "mkbuild")
    <3>1. req[r].op = "delete_build"  BY <1>2, <1>3, Targets
    <3>2. OpFits(r)  BY DEF IndInv
    <3>3. QED  BY <3>1, <3>2 DEF OpFits
  <2>3. QED  BY <1>3, <2>1, <2>2 DEF QuietOnBuild
<1>4. CASE Target(r) # "build"
  <2>1. QuietOnFile(r)  BY <1>1, <1>4 DEF QuietFits
  <2>2. PICK n \in Name : n = Target(r)  BY <1>2, <1>4, Targets
  <2>3. FileFits(n)  BY DEF IndInv
  <2>4. ~At(r, "write") => req[r].expect = last[n]  BY <2>1, <2>2 DEF QuietOnFile
  <2>5. NeedsFile(req[r].op) /\ ~At(r, "check") => Linked(n) /\ req[r].expect # "absent"
    BY <2>1, <2>2 DEF QuietOnFile
  <2>6. builddir <=> ~At(r, "mkbuild")  BY <2>1 DEF QuietOnFile
  <2>7. QED  BY <1>4, <2>1, <2>2, <2>3, <2>4, <2>5, <2>6 DEF FileFits
<1>5. QED  BY <1>3, <1>4

\* A reader that has come to the end of a file it is quiet on has read the
\* body that it expects.
LEMMA QuietReader ==
    ASSUME IndInv, NEW r \in Request, At(r, "read"), req[r].quiet,
           req[r].op # "get_console", req[r].expect \in Origin,
           LET contents == data[Target(r)][req[r].inode]
           IN  ~(req[r].pos < req[r].size /\ req[r].pos < Len(contents))
    PROVE  req[r].seen = Body(req[r].expect)
<1>1. OpFits(r)  BY DEF IndInv
<1>2. req[r].op \in Reads  BY <1>1 DEF OpFits
<1>3. r \in Active /\ ~At(r, "idle")  BY DEF Active, At
<1>4. PICK n \in Name : n = Target(r) /\ n # "build" /\ n # "console"
  BY <1>2, <1>3, Targets, Kinds
<1>5. QuietOnFile(r) /\ req[r].expect = last[n]
  BY <1>3, <1>4, QuietKnows DEF At
<1>6. SeenFits(r) /\ file[n] = req[r].inode  BY <1>4, <1>5 DEF QuietOnFile, At
<1>7. FileFits(n)  BY DEF IndInv
<1>8. data[n][req[r].inode] = Body(req[r].expect)
  BY <1>4, <1>5, <1>6, <1>7 DEF FileFits
<1>9. Len(data[n][req[r].inode]) = 2  BY <1>8 DEF Body
<1>10. req[r].pos \in Nat /\ req[r].size \in Nat  BY Fields DEF IndInv, Shape
<1>11. req[r].pos >= 2  BY <1>4, <1>6, <1>9, <1>10 DEF SeenFits
<1>12. QED  BY <1>6, <1>11 DEF SeenFits

\* Checks that are not passed.
LEMMA CheckTold ==
    ASSUME IndInv, NEW r \in Request, Check(r)
    PROVE  Deserved(req'[r]) /\ Expected(req'[r])
<1>1. req \in [Request -> ReqType] /\ req[r] \in ReqType /\ At(r, "check")
      /\ r \in Active /\ ~At(r, "idle") /\ OpFits(r)
  BY DEF Check, IndInv, Shape, Active, At
<1>2. CASE Answer(r, "not_found") /\ ~(IF NeedsFile(req[r].op) THEN Linked(Target(r)) ELSE builddir)
  <2>1. req[r].quiet =>
            /\ NeedsFile(req[r].op)
            /\ Target(r) # "build"
            /\ req[r].expect \notin Origin
    <3>1. ASSUME req[r].quiet PROVE builddir  BY <1>1, <3>1, QuietKnows DEF At
    <3>2. NeedsFile(req[r].op) => Target(r) # "build"
      BY <1>1, Targets, Kinds
    <3>3. QED  BY <1>1, <1>2, <3>1, <3>2, QuietKnows DEF At
  <2>2. QED  BY <1>1, <1>2, <2>1, AnswerTold
<1>3. CASE \E step \in {"artdir", "unlink", "list", "open"} : GoTo(r, step)
  BY <1>1, <1>3, Goes, NotYetTold DEF GoTo
<1>4. QED  BY <1>2, <1>3 DEF Check

\* Writers, until they have an answer.  Only a directory that is made by
\* somebody else at the same time spoils it, where that is an error.
LEMMA WritersTold ==
    ASSUME IndInv, NEW r \in Request,
           \/ MakeBuildDir(r) \/ CheckArtifactDir(r) \/ MakeArtifactDir(r)
           \/ OpenToWrite(r) \/ WriteChunk(r)
    PROVE  /\ Expected(req'[r])
           /\ Deserved(req'[r]) \/ (MakeArtifactDir(r) /\ Backend # "ceph")
<1>1. req \in [Request -> ReqType] /\ req[r] \in ReqType /\ OpFits(r)
  BY DEF IndInv, Shape
<1>3. ASSUME NEW code, Answer(r, code), req[r].op \notin Reads, ~req[r].quiet
      PROVE  Deserved(req'[r]) /\ Expected(req'[r])
  BY <1>1, <1>3, AnswerTold
<1>4. ASSUME NEW now, NEW touched, Becomes(r, now, touched), now.pc # "done"
      PROVE  Deserved(req'[r]) /\ Expected(req'[r])
  BY <1>1, <1>4, NotDone, NotYetTold
<1>5. ASSUME NEW step \in {"open", "mkdir"}, NEW touched,
             Becomes(r, [req[r] EXCEPT !.pc = step], touched)
      PROVE  Deserved(req'[r]) /\ Expected(req'[r])
  BY <1>1, <1>5, Goes, NotYetTold
<1>6. CASE MakeBuildDir(r)
  <2>1. At(r, "mkbuild") /\ r \in Active  BY <1>6 DEF MakeBuildDir, At, Active
  <2>2. req[r].op \notin Reads  BY <1>1, <2>1, Kinds DEF OpFits
  <2>3. CASE builddir
    <3>1. ~req[r].quiet  BY <2>1, <2>3, QuietKnows
    <3>2. QED  BY <1>3, <1>6, <2>2, <2>3, <3>1 DEF MakeBuildDir
  <2>4. CASE ~builddir  BY <1>5, <1>6, <2>4 DEF MakeBuildDir
  <2>5. QED  BY <2>3, <2>4
<1>7. CASE CheckArtifactDir(r)
  <2>1. \E step \in {"open", "mkdir"} : Becomes(r, [req[r] EXCEPT !.pc = step], {})
    BY <1>7 DEF CheckArtifactDir, GoTo
  <2>2. QED  BY <1>5, <2>1
<1>8. CASE MakeArtifactDir(r)
  <2>1. At(r, "mkdir") /\ r \in Active  BY <1>8 DEF MakeArtifactDir, At, Active
  <2>2. req[r].op \notin Reads  BY <1>1, <2>1, Kinds DEF OpFits, At
  <2>3. CASE ~builddir /\ Answer(r, "error")
    <3>1. ~req[r].quiet  BY <2>1, <2>3, QuietKnows DEF At
    <3>2. QED  BY <1>3, <2>2, <2>3, <3>1
  <2>4. CASE AlreadyMade(r)
    <3>1. CASE Backend = "ceph"
      BY <1>5, <2>4, <3>1 DEF AlreadyMade, GoTo
    <3>2. CASE Backend # "ceph"
      <4>1. Answer(r, "error")  BY <2>4, <3>2 DEF AlreadyMade
      <4>2. Expected(req'[r])  BY <1>1, <2>2, <4>1, AnswerTold
      <4>3. QED  BY <1>8, <3>2, <4>2
    <3>3. QED  BY <3>1, <3>2
  <2>5. CASE Becomes(r, [req[r] EXCEPT !.pc = "open"], {"build"})
    BY <1>5, <2>5
  <2>6. QED  BY <1>8, <2>3, <2>4, <2>5 DEF MakeArtifactDir
<1>9. CASE OpenToWrite(r)
  <2>1. At(r, "open") /\ r \in Active /\ req[r].op \in Writes /\ ~At(r, "idle")
    BY <1>9 DEF OpenToWrite, At, Active
  <2>2. req[r].op \notin Reads  BY <2>1, Kinds
  <2>3. CASE ~Parent(Target(r)) /\ Answer(r, ErrorCode(r))
    <3>1. Target(r) # "build"  BY <2>1, Targets, Kinds
    <3>2. req[r].quiet => Parent(Target(r))
      <4>1. req[r].quiet => builddir /\ QuietOnFile(r)
        BY <2>1, <3>1, QuietKnows DEF At
      <4>2. req[r].quiet /\ Target(r) \in Artifact => artdir
        BY <2>1, <4>1 DEF QuietOnFile
      <4>3. QED  BY <4>1, <4>2 DEF Parent
    <3>3. QED  BY <1>3, <2>2, <2>3, <3>2
  <2>4. CASE \E o : Becomes(r, [req[r] EXCEPT !.inode = o, !.pc = "write"], {Target(r)})
    <3>1. PICK o : Becomes(r, [req[r] EXCEPT !.inode = o, !.pc = "write"], {Target(r)})
      BY <2>4
    <3>2. [req[r] EXCEPT !.inode = o, !.pc = "write"].pc # "done"
      BY <1>1 DEF ReqType
    <3>3. QED  BY <1>4, <3>1, <3>2
  <2>5. QED  BY <1>9, <2>3, <2>4 DEF OpenToWrite
<1>10. CASE WriteChunk(r)
  <2>1. At(r, "write") /\ r \in Active /\ ~At(r, "idle")  BY <1>10 DEF WriteChunk, At, Active
  <2>2. req[r].op \in Writes /\ req[r].op \notin Reads /\ Target(r) # "build"
    BY <1>1, <2>1, Targets, Kinds DEF OpFits
  <2>3. Becomes(r, IF req[r].pos + 1 = 2 THEN Answered(r, "ok")
                   ELSE [req[r] EXCEPT !.pos = req[r].pos + 1], {Target(r)})
    BY <1>10 DEF WriteChunk
  <2>4. CASE req[r].pos + 1 = 2
    <3>1. req'[r] = Answered(r, "ok")  BY <2>3, <2>4, Own
    <3>2. /\ req'[r].code = "ok" /\ req'[r].op = req[r].op
          /\ req'[r].quiet = req[r].quiet /\ req'[r].expect = req[r].expect
      BY <1>1, <3>1, AnsweredIs
    <3>3. req[r].quiet /\ NeedsFile(req[r].op) => req[r].expect # "absent"
      BY <2>1, <2>2, QuietKnows DEF At
    <3>4. req[r].op # "get_state" /\ req[r].op # "delete_build"  BY <2>2, Kinds
    <3>5. QED  BY <2>2, <3>2, <3>3, <3>4 DEF Deserved, Expected
  <2>5. CASE req[r].pos + 1 # 2
    <3>1. Becomes(r, [req[r] EXCEPT !.pos = req[r].pos + 1], {Target(r)})
      BY <2>3, <2>5
    <3>2. [req[r] EXCEPT !.pos = req[r].pos + 1].pc # "done"
      BY <1>1, <2>1 DEF ReqType, At
    <3>3. QED  BY <1>4, <3>1, <3>2
  <2>6. QED  BY <2>4, <2>5
<1>11. QED  BY <1>6, <1>7, <1>8, <1>9, <1>10

\* Readers.
LEMMA ReadersTold ==
    ASSUME IndInv, NEW r \in Request, OpenToRead(r) \/ GetSize(r) \/ ReadChunk(r)
    PROVE  Deserved(req'[r]) /\ Expected(req'[r])
<1>1. req \in [Request -> ReqType] /\ req[r] \in ReqType /\ OpFits(r)
  BY DEF IndInv, Shape
<1>2. /\ r \in Active /\ ~At(r, "idle") /\ ~At(r, "write") /\ ~At(r, "check")
      /\ req[r].op \in Reads
  BY <1>1, Kinds DEF OpenToRead, GetSize, ReadChunk, At, Active, OpFits
<1>3. Target(r) # "build"  BY <1>2, Targets, Kinds
<1>4. req[r].quiet =>
          /\ req[r].expect \in Origin => Linked(Target(r))
          /\ req[r].expect = "absent" => ~Linked(Target(r))
          /\ NeedsFile(req[r].op) => Linked(Target(r)) /\ req[r].expect # "absent"
          /\ QuietOnFile(r)
  BY <1>2, <1>3, QuietKnows
<1>5. ASSUME NEW now, NEW touched, Becomes(r, now, touched), now.pc # "done"
      PROVE  Deserved(req'[r]) /\ Expected(req'[r])
  BY <1>1, <1>5, NotDone, NotYetTold
<1>6. ASSUME TryAgain(r), req[r].op = "get_state",
             req[r].quiet => req[r].expect \notin Origin
      PROVE  Deserved(req'[r]) /\ Expected(req'[r])
  <2>1. CASE Answer(r, "conflict")
    BY <1>1, <1>6, <2>1, AnswerTold
  <2>2. CASE Becomes(r, [req[r] EXCEPT !.pc = "open", !.pos = 0, !.seen = <<>>], {})
    <3>1. [req[r] EXCEPT !.pc = "open", !.pos = 0, !.seen = <<>>].pc # "done"
      BY <1>1 DEF ReqType
    <3>2. QED  BY <1>5, <2>2, <3>1
  <2>3. QED  BY <1>6, <2>1, <2>2 DEF TryAgain
<1>7. CASE OpenToRead(r)
  <2>1. CASE Linked(Target(r))
    <3>1. PICK o, step : /\ step \in {"size", "read"}
                         /\ Becomes(r, [req[r] EXCEPT !.inode = o, !.pc = step], {})
      BY <1>7, <2>1 DEF OpenToRead
    <3>2. [req[r] EXCEPT !.inode = o, !.pc = step].pc # "done"
      BY <1>1, <3>1 DEF ReqType
    <3>3. QED  BY <1>5, <3>1, <3>2
  <2>2. CASE ~Linked(Target(r))
    <3>1. CASE req[r].op = "get_state"
      BY <1>4, <1>6, <1>7, <2>2, <3>1 DEF OpenToRead
    <3>2. CASE req[r].op = "get_console"
      <4>1. Answer(r, "ok") /\ ~NeedsFile(req[r].op)
        BY <1>7, <2>2, <3>2, Kinds DEF OpenToRead
      <4>2. QED  BY <1>1, <3>2, <4>1, AnswerTold
    <3>3. CASE req[r].op \notin {"get_state", "get_console"}
      <4>1. Answer(r, "error") /\ NeedsFile(req[r].op)
        BY <1>2, <1>7, <2>2, <3>3, Kinds DEF OpenToRead
      <4>2. ~req[r].quiet  BY <1>4, <2>2, <4>1
      <4>3. QED  BY <1>1, <4>1, <4>2, AnswerTold
    <3>4. QED  BY <3>1, <3>2, <3>3
  <2>3. QED  BY <2>1, <2>2
<1>8. CASE GetSize(r)
  <2>1. NeedsFile(req[r].op)  BY <1>1, <1>8, Kinds DEF GetSize, OpFits
  <2>2. CASE Linked(Target(r))
    <3>1. PICK len : Becomes(r, [req[r] EXCEPT !.pc = "read", !.size = len], {})
      BY <1>8, <2>2 DEF GetSize
    <3>2. [req[r] EXCEPT !.pc = "read", !.size = len].pc # "done"
      BY <1>1 DEF ReqType
    <3>3. QED  BY <1>5, <3>1, <3>2
  <2>3. CASE ~Linked(Target(r))
    <3>1. Answer(r, "error") /\ ~req[r].quiet
      BY <1>4, <1>8, <2>1, <2>3 DEF GetSize
    <3>2. QED  BY <1>1, <3>1, AnswerTold
  <2>4. QED  BY <2>2, <2>3
<1>9. CASE ReadChunk(r)
  <2> DEFINE contents == data[Target(r)][req[r].inode]
  <2>1. At(r, "read")  BY <1>9 DEF ReadChunk
  <2>2. CASE req[r].pos < req[r].size /\ req[r].pos < Len(contents)
    <3>1. PICK pos, seen : Becomes(r, [req[r] EXCEPT !.pos = pos, !.seen = Append(@, seen)], {})
      BY <1>9, <2>2 DEF ReadChunk
    <3>2. [req[r] EXCEPT !.pos = pos, !.seen = Append(@, seen)].pc # "done"
      BY <1>1, <2>1 DEF ReqType, At
    <3>3. QED  BY <1>5, <3>1, <3>2
  <2>3. CASE ~(req[r].pos < req[r].size /\ req[r].pos < Len(contents))
    <3>1. req[r].quiet /\ req[r].op # "get_console" /\ req[r].expect \in Origin
              => req[r].seen = Body(req[r].expect)
      BY <2>1, <2>3, QuietReader
    <3>2. ASSUME Answer(r, "ok") PROVE Deserved(req'[r]) /\ Expected(req'[r])
      <4>1. req[r].quiet => req[r].expect # "absent" \/ ~NeedsFile(req[r].op)
        BY <1>4
      <4>2. req[r].quiet => Linked(Target(r))
        <5>1. Target(r) \in Name  BY <1>2, <1>3, Targets
        <5>2. req[r].inode \in Origin  BY <1>1, <2>1 DEF OpFits, At
        <5>3. req[r].quiet => file[Target(r)] = req[r].inode
          BY <1>4, <2>1 DEF QuietOnFile, At
        <5>4. QED  BY <5>2, <5>3, Constants DEF Linked
      <4>3. req[r].quiet => req[r].expect # "absent"  BY <1>4, <4>2
      <4>4. req[r].op # "delete_build"  BY <1>2, Kinds
      <4>5. QED  BY <1>1, <3>1, <3>2, <4>3, <4>4, AnswerTold
    <3>3. ASSUME TryAgain(r), ~Whole(req[r].seen), req[r].op = "get_state"
          PROVE  Deserved(req'[r]) /\ Expected(req'[r])
      <4>1. req[r].quiet => req[r].expect \notin Origin
        BY <3>1, <3>3 DEF Whole
      <4>2. QED  BY <1>6, <3>3, <4>1
    <3>4. Answer(r, "ok") \/ (TryAgain(r) /\ ~Whole(req[r].seen) /\ req[r].op = "get_state")
      BY <1>9, <2>3 DEF ReadChunk, EndOfState
    <3>5. QED  BY <3>2, <3>3, <3>4
  <2>4. QED  BY <2>2, <2>3
<1>10. QED  BY <1>7, <1>8, <1>9

\* Those who delete, a file or the build.
LEMMA DeletersTold ==
    ASSUME IndInv, NEW r \in Request,
           Unlink(r) \/ ListBuild(r) \/ ClearBuild(r) \/ ClearArtifacts(r) \/ RemoveBuildDir(r)
    PROVE  Deserved(req'[r]) /\ Expected(req'[r])
<1>1. req \in [Request -> ReqType] /\ req[r] \in ReqType /\ OpFits(r)
  BY DEF IndInv, Shape
<1>2. /\ r \in Active /\ ~At(r, "idle") /\ ~At(r, "write") /\ ~At(r, "check")
      /\ ~At(r, "mkbuild")
      /\ req[r].op \in Deletes \/ req[r].op = "delete_build"
  BY <1>1 DEF Unlink, ListBuild, ClearBuild, ClearArtifacts, RemoveBuildDir, At, Active, OpFits
<1>3. /\ req[r].op \notin Reads /\ req[r].op # "get_state"
      /\ NeedsFile(req[r].op) <=> req[r].op \in Deletes
      /\ req[r].op = "delete_build" => ErrorCode(r) = "not_found"
  BY <1>2, Kinds DEF ErrorCode
<1>4. ASSUME NEW code, Answer(r, code),
             \/ ~req[r].quiet
             \/ /\ req[r].op = "delete_build" /\ ~NeedsFile(req[r].op)
                /\ code = "ok" <=> ~req[r].cut
      PROVE  Deserved(req'[r]) /\ Expected(req'[r])
  BY <1>1, <1>3, <1>4, AnswerTold
<1>5. ASSUME NEW now, NEW touched, Becomes(r, now, touched), now.pc # "done"
      PROVE  Deserved(req'[r]) /\ Expected(req'[r])
  BY <1>1, <1>5, NotDone, NotYetTold
<1>6. CASE Unlink(r)
  <2>1. At(r, "unlink")  BY <1>6 DEF Unlink
  <2>2. NeedsFile(req[r].op) /\ Target(r) # "build"
    BY <1>1, <1>2, <1>3, <2>1, Targets, Kinds DEF OpFits
  <2>3. req[r].quiet => Linked(Target(r)) /\ req[r].expect # "absent"
    BY <1>2, <2>2, QuietKnows
  <2>4. CASE ~Linked(Target(r)) /\ \E code : Answer(r, code)
    BY <1>4, <2>3, <2>4
  <2>5. CASE UnlinkName(r, Target(r), Answered(r, "ok"))
    <3>1. req'[r] = Answered(r, "ok")  BY <2>5, Own DEF UnlinkName
    <3>2. /\ req'[r].code = "ok" /\ req'[r].op = req[r].op
          /\ req'[r].quiet = req[r].quiet /\ req'[r].expect = req[r].expect
      BY <1>1, <3>1, AnsweredIs
    <3>3. req[r].op # "delete_build"  BY <2>2, Kinds
    <3>4. QED  BY <1>3, <2>3, <3>2, <3>3 DEF Deserved, Expected
  <2>6. QED  BY <1>6, <2>4, <2>5 DEF Unlink
<1>7. CASE ListBuild(r)
  <2>1. ~NeedsFile(req[r].op) /\ req[r].op = "delete_build" /\ ~req[r].cut
    BY <1>1, <1>7, Kinds DEF ListBuild, OpFits, At
  <2>2. CASE builddir
    <3>1. PICK names : Becomes(r, [req[r] EXCEPT !.pc = "clear", !.todo = names], {})
      BY <1>7, <2>2 DEF ListBuild
    <3>2. [req[r] EXCEPT !.pc = "clear", !.todo = names].pc # "done"
      BY <1>1 DEF ReqType
    <3>3. QED  BY <1>5, <3>1, <3>2
  <2>3. CASE ~builddir  BY <1>4, <1>7, <2>1, <2>3 DEF ListBuild
  <2>4. QED  BY <2>2, <2>3
<1>8. CASE ClearBuild(r) \/ ClearArtifacts(r) \/ RemoveBuildDir(r)
  <2>1. req[r].pc \in {"clear", "clear_art"}
    BY <1>8 DEF ClearBuild, ClearArtifacts, RemoveBuildDir, At
  <2>2. req[r].op = "delete_build" /\ Target(r) = "build" /\ ~NeedsFile(req[r].op)
    BY <2>1, DeletesBuild, Kinds
  <2>3. req[r].quiet => QuietOnBuild(r)  BY <1>2, <2>2, QuietKnows
  <2>4. ASSUME Answer(r, "ok"), ~req[r].quiet \/ ~req[r].cut
        PROVE  Deserved(req'[r]) /\ Expected(req'[r])
    BY <1>4, <2>2, <2>4
  <2>5. ASSUME Answer(r, "not_found"), ~req[r].quiet \/ req[r].cut
        PROVE  Deserved(req'[r]) /\ Expected(req'[r])
    BY <1>4, <2>2, <2>5
  <2>6. CASE ClearBuild(r)
    <3>1. \/ Answer(r, "ok")
          \/ \E n : Becomes(r, [req[r] EXCEPT !.todo = @ \ {n}], {n})
          \/ \E found, cut : Becomes(r, [req[r] EXCEPT !.pc = "clear_art",
                                             !.todo = @ \ {"artifacts"}, !.arts = found,
                                             !.cut = cut], {})
      BY <2>6 DEF ClearBuild, UnlinkName, GoneCode
    <3>2. \A n : [req[r] EXCEPT !.todo = @ \ {n}].pc # "done"
      BY <1>1, <2>1 DEF ReqType
    <3>3. \A found, cut : [req[r] EXCEPT !.pc = "clear_art", !.todo = @ \ {"artifacts"},
                                         !.arts = found, !.cut = cut].pc # "done"
      BY <1>1, <2>1 DEF ReqType
    <3>4. ~req[r].quiet \/ ~req[r].cut  BY <2>3, <2>6 DEF ClearBuild, QuietOnBuild
    <3>5. QED  BY <1>5, <2>4, <3>1, <3>2, <3>3, <3>4
  <2>7. CASE ClearArtifacts(r)
    <3>1. \/ /\ Answer(r, "ok") /\ At(r, "clear_art")
             /\ ~artdir \/ \E n \in req[r].arts : ~Linked(n)
          \/ /\ Answer(r, "not_found")
             /\ At(r, "clear_art") /\ req[r].arts = {} /\ \E n \in Artifact : Linked(n)
          \/ \E n : Becomes(r, [req[r] EXCEPT !.arts = @ \ {n}], {n})
          \/ Becomes(r, [req[r] EXCEPT !.pc = "clear"], Artifact)
      BY <1>3, <2>2, <2>7 DEF ClearArtifacts, UnlinkName, GoneCode, NotEmptyCode
    <3>2. \A n : [req[r] EXCEPT !.arts = @ \ {n}].pc # "done"
      BY <1>1, <2>1 DEF ReqType
    <3>3. [req[r] EXCEPT !.pc = "clear"].pc # "done"  BY <1>1 DEF ReqType
    <3>4. At(r, "clear_art") /\ req[r].arts = {} /\ (\E n \in Artifact : Linked(n))
              => ~req[r].quiet \/ req[r].cut
      BY <2>3 DEF QuietOnBuild
    <3>5. At(r, "clear_art") /\ (~artdir \/ \E n \in req[r].arts : ~Linked(n))
              => ~req[r].quiet
      BY <2>3 DEF QuietOnBuild
    <3>6. QED  BY <1>5, <2>4, <2>5, <3>1, <3>2, <3>3, <3>4, <3>5
  <2>8. CASE RemoveBuildDir(r)
    <3>1. At(r, "clear") /\ req[r].todo = {}  BY <2>8 DEF RemoveBuildDir
    <3>2. req[r].quiet => ~artdir /\ \A n \in Name : ~Linked(n)
      <4>1. req[r].quiet => ~artdir /\ \A n \in TopFile : ~Linked(n)
        BY <2>3, <3>1 DEF QuietOnBuild, At
      <4>2. ~artdir => \A n \in Artifact : ~Linked(n)
        BY DEF IndInv, Shape, Linked
      <4>3. QED  BY <4>1, <4>2 DEF Name
    <3>5. req[r].quiet => ~req[r].cut  BY <2>3, <3>1 DEF QuietOnBuild
    <3>3. \/ Answer(r, "ok")
          \/ Answer(r, "not_found") /\ ~req[r].quiet
          \/ Becomes(r, Answered(r, "ok"), Name)
      BY <1>3, <2>2, <2>8, <3>2 DEF RemoveBuildDir, GoneCode, NotEmptyCode
    <3>4. ASSUME Becomes(r, Answered(r, "ok"), Name)
          PROVE  Deserved(req'[r]) /\ Expected(req'[r])
      <4>1. req'[r] = Answered(r, "ok")  BY <3>4, Own
      <4>2. /\ req'[r].code = "ok" /\ req'[r].op = req[r].op
            /\ req'[r].quiet = req[r].quiet /\ req'[r].cut = req[r].cut
        BY <1>1, <4>1, AnsweredIs
      <4>3. QED  BY <1>3, <2>2, <3>5, <4>2 DEF Deserved, Expected
    <3>6. QED  BY <2>4, <2>5, <3>3, <3>4, <3>5
  <2>9. QED  BY <1>8, <2>6, <2>7, <2>8
<1>9. QED  BY <1>6, <1>7, <1>8

\* New requests, and those whose call fails, are promised nothing.
LEMMA OthersTold ==
    ASSUME IndInv, NEW r \in Request, Receive(r) \/ Fail(r)
    PROVE  Deserved(req'[r]) /\ Expected(req'[r])
<1>1. req \in [Request -> ReqType] /\ req[r] \in ReqType
  BY DEF IndInv, Shape
<1>2. CASE Receive(r)
  <2>1. PICK op, n, calm, body, step :
            /\ step = FirstStep(op)
            /\ Becomes(r, [req[r] EXCEPT !.op = op, !.target = n, !.pc = step,
                                         !.quiet = calm, !.expect = body], {})
    BY <1>2 DEF Receive
  <2>2. step # "done"  BY <2>1 DEF FirstStep
  <2>3. [req[r] EXCEPT !.op = op, !.target = n, !.pc = step,
                       !.quiet = calm, !.expect = body].pc = step
    BY <1>1 DEF ReqType
  <2>4. QED  BY <1>1, <2>1, <2>2, <2>3, NotDone, NotYetTold
<1>3. CASE Fail(r)
  <2>1. PICK now : /\ Becomes(r, now, {})
                   /\ \/ now = [Answered(r, ErrorCode(r)) EXCEPT !.failed = TRUE]
                      \/ now = [req[r] EXCEPT !.pc = "dead"]
    BY <1>3 DEF Fail
  <2>2. req[r].op \notin Reads  BY <1>3 DEF Fail
  <2>3. (now.failed \/ now.pc # "done") /\ now.op = req[r].op
    <3>1. CASE now = [req[r] EXCEPT !.pc = "dead"]  BY <1>1, <3>1 DEF ReqType
    <3>2. CASE now = [Answered(r, ErrorCode(r)) EXCEPT !.failed = TRUE]
      <4> DEFINE answer == Answered(r, ErrorCode(r))
      <4>1. ErrorCode(r) \in {"ok", "not_found", "error"}  BY DEF ErrorCode
      <4>2. answer \in ReqType /\ answer.op = req[r].op
        BY <1>1, <4>1, AnsweredIs
      <4> HIDE DEF answer
      <4>3. now = [answer EXCEPT !.failed = TRUE]  BY <3>2 DEF answer
      <4>4. QED  BY <4>2, <4>3 DEF ReqType
    <3>3. QED  BY <2>1, <3>1, <3>2
  <2>4. req'[r] = now  BY <2>1, Own
  <2>5. QED  BY <2>2, <2>3, <2>4 DEF Deserved, Expected
<1>4. QED  BY <1>2, <1>3

\* Nothing is told that was not deserved and expected, by any step.
LEMMA TellStep ==
    ASSUME IndInv, [Next]_vars, NEW r \in Request
    PROVE  /\ Expected(req[r]) => Expected(req'[r])
           /\ Backend = "ceph" /\ Deserved(req[r]) => Deserved(req'[r])
<1>1. CASE UNCHANGED vars  BY <1>1 DEF vars
<1>2. ASSUME NEW q \in Request, Receive(q) \/ Handle(q) \/ Fail(q), q # r
      PROVE  /\ Expected(req[r]) => Expected(req'[r])
             /\ Deserved(req[r]) => Deserved(req'[r])
  <2>1. req \in [Request -> ReqType]  BY DEF IndInv, Shape
  <2>2. Bystander(r)  BY <1>2, <2>1, OthersStay
  <2>3. QED  BY <2>2, BystanderTold
<1>3. ASSUME Receive(r) \/ Handle(r) \/ Fail(r)
      PROVE  Expected(req'[r]) /\ (Backend = "ceph" => Deserved(req'[r]))
  BY <1>3, CheckTold, WritersTold, ReadersTold, DeletersTold, OthersTold DEF Handle
<1>4. QED  BY <1>1, <1>2, <1>3 DEF Next

\* A request that comes to a build is not done.
LEMMA TellInit ==
    ASSUME Init, NEW r \in Request
    PROVE  Expected(req[r]) /\ Deserved(req[r])
<1>1. req[r].pc = "idle"  BY DEF Init
<1>2. QED  BY <1>1 DEF Expected, Deserved

\* A reader whose file nobody touched meanwhile reads what the last request that
\* wrote it and finished wrote, all of it and nothing else (ReadsSeeLastWrite;
\* jobs_builds.py:146-330, jobs_builds_artifacts.py:39-126).
THEOREM ReadsLast == Spec => []ReadsSeeLastWrite
<1> DEFINE P == \A r \in Request : Expected(req[r])
<1>1. Init => P  BY TellInit
<1>2. IndInv /\ P /\ [Next]_vars => P'  BY TellStep
<1>3. P => ReadsSeeLastWrite  BY DEF Expected, ReadsSeeLastWrite
<1> HIDE DEF P
<1>4. QED  BY <1>1, <1>2, <1>3, Invariance, PTL DEF Spec

\* A request whose file nobody else touched, and whose calls all worked, gets
\* what it asked for, over the Ceph storage (QuietRequestsSucceed;
\* jobs_builds.py:146-330, jobs_builds_artifacts.py:39-126).  Only the deletion of
\* a build with more artifacts than one listing returns is refused
\* (storage.py:202-206).  Over the local storage the first two artifacts of a build
\* can meet in mkdir, and one is refused.
THEOREM QuietSucceeds ==
    ASSUME Backend = "ceph"
    PROVE  Spec => []QuietRequestsSucceed
<1> DEFINE P == \A r \in Request : Deserved(req[r])
<1>1. Init => P  BY TellInit
<1>2. IndInv /\ P /\ [Next]_vars => P'  BY TellStep
<1>3. P => QuietRequestsSucceed  BY DEF Deserved, QuietRequestsSucceed
<1> HIDE DEF P
<1>4. QED  BY <1>1, <1>2, <1>3, Invariance, PTL DEF Spec
=============================================================================
