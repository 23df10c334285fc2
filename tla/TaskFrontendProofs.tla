-------------------------- MODULE TaskFrontendProofs --------------------------
(***************************************************************************)
(* Proofs about TaskFrontend, for any number of tickets, workers, bodies,  *)
(* concurrent requests and requests served.                                *)
(***************************************************************************)
EXTENDS TaskFrontend, TLAPS

Setting(h) == pc[h] \in {"set_get", "set_create", "set_write"}
Creating(h) == pc[h] \in {"set_get", "set_create"} /\ req[h].op = "POST"
Updating(h) == pc[h] \in {"set_get", "set_write"} /\ req[h].op = "PUT"

\* Each call is made for a request of its kind, with the arguments it needs.
RequestsFit == \A h \in Handler :
    /\ pc[h] = "create" => req[h].op = "POST" /\ req[h].new \in Payload
    /\ pc[h] = "read" => /\ req[h].op = "PUT"
                         /\ req[h].task \in Task
                         /\ req[h].new \in Payload
                         /\ znode[req[h].task] # Unborn
    /\ pc[h] = "remove" => req[h].task \in Task
    /\ Setting(h) => /\ Creating(h) \/ Updating(h)
                     /\ req[h].task \in Task
                     /\ req[h].new \in Desc
    /\ ~Updating(h) /\ pc[h] # "done" => seen[h] = Nothing

\* Ids are fresh: a node being created does not exist and has one creator.
IdsAreFresh ==
    /\ \A t \in Task : znode[t] # Unborn => t \in born
    /\ \A h \in Handler : Creating(h) =>
          /\ znode[req[h].task] = Unborn
          /\ req[h].task \in born
    /\ \A g, h \in Handler :
          Creating(g) /\ Creating(h) /\ g # h => req[g].task # req[h].task

\* What an update knows about its ticket: no conflict with what it read, and
\* what it read is still there as long as the version it will ask for is.
UpdatesAreGuarded == \A h \in Handler : Updating(h) =>
    /\ seen[h] \in Desc
    /\ znode[req[h].task] # Unborn
    /\ ~WrongActor(seen[h], req[h].new)
    /\ pc[h] = "set_write" =>
          /\ ver[h] \in Nat
          /\ ver[h] <= zver[req[h].task]
          /\ Exists(req[h].task) /\ ver[h] = zver[req[h].task]
                => znode[req[h].task] = seen[h]

\* An update without an excuse will succeed: its ticket is as it was.
UndisturbedIsCurrent == \A h \in Handler : Updating(h) /\ ~excused[h] =>
    /\ znode[req[h].task] = seen[h]
    /\ pc[h] = "set_write" => ver[h] = zver[req[h].task]

\* Only a finished request has an answer.
AnswersComeLast == \A h \in Handler : code[h] # "none" => pc[h] = "done"

IndInv ==
    /\ TypeOK
    /\ RequestsFit
    /\ IdsAreFresh
    /\ UpdatesAreGuarded
    /\ UndisturbedIsCurrent
    /\ AnswersComeLast
    /\ LockedHasCause
    /\ AckedClaimHolds

-----------------------------------------------------------------------------
(* Type correctness *)

\* The constants' markers are different from each other and from descriptions.
LEMMA Markers ==
    /\ NoOne \notin Worker
    /\ Unborn # Deleted /\ Unborn \notin Desc /\ Deleted \notin Desc
    /\ Garbled \notin Desc
    /\ Nothing \notin Desc /\ Nothing # Garbled /\ Nothing \notin Task
    /\ MaxRequests \in Nat
BY MarkersDiffer, FrontendConstants

\* Every request a client may send is a well-formed one.
LEMMA RequestsTyped == Requests \subseteq Request
BY DEF Requests, Request

\* The initial state has the right types.
LEMMA TypeInit == Init => TypeOK
BY Markers DEF Init, TypeOK, Place, Call, Answer, Request, Blank, AnyVersion

\* One step per action: what an action writes is of its type.
LEMMA TypeStep == TypeOK /\ RequestsFit /\ [Next]_vars => TypeOK'
<1> SUFFICES ASSUME TypeOK, RequestsFit, [Next]_vars
             PROVE  TypeOK'
    OBVIOUS
<1> USE DEF TypeOK
<1>1. ASSUME NEW h \in Handler, Receive(h) PROVE TypeOK'
  <2>1. PICK r \in Requests : req' = [req EXCEPT ![h] = r] /\ GoTo(h, FirstCall[r.op])
      BY <1>1 DEF Receive
  <2>2. FirstCall[r.op] \in Call
      BY <2>1 DEF Requests, FirstCall, Call
  <2> QED BY <1>1, <2>1, <2>2, RequestsTyped DEF Receive, GoTo, store
<1>2. ASSUME NEW h \in Handler, Unreachable(h) PROVE TypeOK'
    BY <1>2 DEF Unreachable, Reply, Call, Answer, store, local
<1>3. ASSUME NEW h \in Handler, CreateNewTask(h) PROVE TypeOK'
  <2>1. CASE req' = req /\ born' = born
    BY <1>3, <2>1 DEF CreateNewTask, DrawId, Reply, GoTo, Call, Answer, store, local
  <2>2. CASE DrawId(h)
    <3>1. PICK t \in Task \ born : born' = born \cup {t} /\ req' = [req EXCEPT ![h].task = t]
        BY <2>2 DEF DrawId
    <3>2. [req[h] EXCEPT !.task = t] \in Request
        BY <3>1 DEF Request
    <3>3. req' \in [Handler -> Request]
        BY <3>1, <3>2
    <3>4. pc' \in [Handler -> Call]
        BY <2>2 DEF DrawId, GoTo, Call
    <3> QED BY <1>3, <2>2, <3>1, <3>3, <3>4 DEF CreateNewTask, DrawId, GoTo, store
  <2> QED BY <1>3, <2>1, <2>2 DEF CreateNewTask, local
<1>4. ASSUME NEW h \in Handler, UpdateTask(h) PROVE TypeOK'
    BY <1>4 DEF UpdateTask, Reply, GoTo, Call, Answer, Exists, store
<1>5. ASSUME NEW h \in Handler, SetGet(h) PROVE TypeOK'
  <2>1. pc' \in [Handler -> Call] /\ code' \in [Handler -> Answer]
      BY <1>5 DEF SetGet, SetFailed, Reply, GoTo, Call, Answer
  <2>2. excused' \in [Handler -> BOOLEAN]
      BY <1>5 DEF SetGet, Excuse
  <2>3. req[h].task \in Task
      BY <1>5 DEF SetGet, RequestsFit, Setting
  <2>4. WantedVersion(seen[h], zver[req[h].task]) \in Nat \cup {AnyVersion}
      BY <2>3 DEF WantedVersion
  <2>5. ver' \in [Handler -> Nat \cup {AnyVersion}]
      BY <1>5, <2>4 DEF SetGet
  <2> QED BY <1>5, <2>1, <2>2, <2>5 DEF SetGet, store
<1>6. ASSUME NEW h \in Handler, SetCreate(h) \/ SetWrite(h) PROVE TypeOK'
  <2>1. req[h].task \in Task /\ req[h].new \in Desc
      BY <1>6 DEF SetCreate, SetWrite, RequestsFit, Setting
  <2>2. req[h].new \in Place /\ req[h].new.assignee \in Worker \cup {NoOne}
      BY <2>1 DEF Place, Desc
  <2>3. pc' \in [Handler -> Call] /\ code' \in [Handler -> Answer]
      BY <1>6 DEF SetCreate, SetWrite, SetFailed, SetDone, Reply, Call, Answer
  <2>4. excused' \in [Handler -> BOOLEAN]
      BY <1>6 DEF SetCreate, SetWrite, Excuse, Disturb, DisturbAll
  <2>5. znode' \in [Task -> Place] /\ zver' \in [Task -> Nat]
    <3>1. /\ znode' = znode \/ znode' = [znode EXCEPT ![req[h].task] = req[h].new]
          /\ \/ zver' = zver
             \/ zver' = [zver EXCEPT ![req[h].task] = 0]
             \/ zver' = [zver EXCEPT ![req[h].task] = @ + 1]
        BY <1>6, ZenonT(30) DEF SetCreate, SetWrite, store
    <3> QED BY <2>1, <2>2, <3>1
  <2>6. acked' \in [Task -> SUBSET Worker]
    <3>1. CASE UNCHANGED acked
        BY <3>1
    <3>2. CASE Acknowledge(req[h].task, req[h].new, TRUE)
        BY <3>2, <2>1, <2>2 DEF Acknowledge
    <3>3. CASE Acknowledge(req[h].task, req[h].new, FALSE)
        BY <3>3, <2>1, <2>2 DEF Acknowledge
    <3>4. \/ UNCHANGED acked
          \/ Acknowledge(req[h].task, req[h].new, TRUE)
          \/ Acknowledge(req[h].task, req[h].new, FALSE)
        BY <1>6, ZenonT(30) DEF SetCreate, SetWrite
    <3> QED BY <3>1, <3>2, <3>3, <3>4
  <2> QED BY <1>6, <2>3, <2>4, <2>5, <2>6 DEF SetCreate, SetWrite, local
<1>7. ASSUME NEW h \in Handler, DeleteTask(h) PROVE TypeOK'
    BY <1>7 DEF DeleteTask, Disturb, Reply, Call, Answer, Place, store, local
<1>8. ASSUME NEW h \in Handler, Finish(h) \/ Crash(h) PROVE TypeOK'
  <2>1. Blank \in Request
      BY DEF Blank, Request
  <2>2. Forget(h)
      BY <1>8 DEF Finish, Crash
  <2> QED BY <2>1, <2>2 DEF Forget, Call, Answer, AnyVersion, store
<1>9. CASE UNCHANGED vars
    BY <1>9 DEF vars, store, local
<1> QED BY <1>1, <1>2, <1>3, <1>4, <1>5, <1>6, <1>7, <1>8, <1>9 DEF Next, Handle

-----------------------------------------------------------------------------
(* The inductive invariant *)

\* Nothing was read, drawn or acknowledged at first.
LEMMA IndInit == Init => IndInv
<1> SUFFICES ASSUME Init PROVE IndInv
    OBVIOUS
<1>1. TypeOK
    BY TypeInit
<1> QED BY <1>1 DEF Init, IndInv, RequestsFit, IdsAreFresh, UpdatesAreGuarded,
        UndisturbedIsCurrent, AnswersComeLast, LockedHasCause, AckedClaimHolds,
        Setting, Creating, Updating, Exists

\* Steps that only move one handler on.
LEMMA LocalSteps ==
    ASSUME IndInv, TypeOK', NEW h \in Handler,
           Receive(h) \/ Unreachable(h) \/ CreateNewTask(h) \/ UpdateTask(h)
    PROVE  IndInv'
<1> USE DEF IndInv, TypeOK, store, local
<1>1. CASE Receive(h)
  <2> USE <1>1 DEF Receive, GoTo, Requests, FirstCall
  <2>1. RequestsFit'
      BY Markers DEF RequestsFit, Setting, Creating, Updating
  <2>2. IdsAreFresh'
      BY DEF IdsAreFresh, Creating
  <2>3. UpdatesAreGuarded' /\ UndisturbedIsCurrent'
      BY DEF UpdatesAreGuarded, UndisturbedIsCurrent, Updating, Exists
  <2>4. AnswersComeLast' /\ LockedHasCause' /\ AckedClaimHolds'
      BY DEF AnswersComeLast, LockedHasCause, AckedClaimHolds, Exists
  <2> QED BY <2>1, <2>2, <2>3, <2>4
<1>2. CASE Unreachable(h)
  <2> USE <1>2 DEF Unreachable, Reply
  <2>1. RequestsFit'
      BY DEF RequestsFit, Setting, Creating, Updating
  <2>2. IdsAreFresh'
      BY DEF IdsAreFresh, Creating
  <2>3. UpdatesAreGuarded' /\ UndisturbedIsCurrent'
      BY DEF UpdatesAreGuarded, UndisturbedIsCurrent, Updating, Exists
  <2>4. AnswersComeLast' /\ LockedHasCause' /\ AckedClaimHolds'
      BY DEF AnswersComeLast, LockedHasCause, AckedClaimHolds, Exists
  <2> QED BY <2>1, <2>2, <2>3, <2>4
<1>3. CASE CreateNewTask(h)
  <2>1. CASE req[h].new = Garbled /\ Reply(h, "invalid") /\ UNCHANGED local
    <3> USE <1>3, <2>1 DEF CreateNewTask, Reply
    <3>1. RequestsFit'
        BY DEF RequestsFit, Setting, Creating, Updating
    <3>2. IdsAreFresh'
        BY DEF IdsAreFresh, Creating
    <3>3. UpdatesAreGuarded' /\ UndisturbedIsCurrent'
        BY DEF UpdatesAreGuarded, UndisturbedIsCurrent, Updating, Exists
    <3>4. AnswersComeLast' /\ LockedHasCause' /\ AckedClaimHolds'
        BY DEF AnswersComeLast, LockedHasCause, AckedClaimHolds, Exists
    <3> QED BY <3>1, <3>2, <3>3, <3>4
  <2>2. CASE req[h].new # Garbled /\ DrawId(h)
    <3>1. PICK t \in Task \ born : born' = born \cup {t} /\ req' = [req EXCEPT ![h].task = t]
        BY <2>2 DEF DrawId
    <3>2. /\ pc[h] = "create" /\ pc' = [pc EXCEPT ![h] = "set_get"]
          /\ UNCHANGED <<znode, zver, seen, ver, code, acked, excused, arrivals>>
        BY <1>3, <2>2 DEF CreateNewTask, DrawId, GoTo
    <3>3. /\ \A g \in Handler \ {h} : req'[g] = req[g] /\ pc'[g] = pc[g]
          /\ req'[h].op = "POST" /\ req'[h].task = t /\ req'[h].new = req[h].new
          /\ pc'[h] = "set_get"
          /\ req[h].new \in Desc /\ seen[h] = Nothing
        BY <2>2, <3>1, <3>2 DEF Request, RequestsFit, Payload, Updating
    <3>4. znode[t] = Unborn /\ \A g \in Handler : Creating(g) => req[g].task # t
        BY <3>1 DEF IdsAreFresh
    <3>5. RequestsFit'
        BY <3>1, <3>2, <3>3 DEF RequestsFit, Setting, Creating, Updating
    <3>6. IdsAreFresh'
        BY <3>1, <3>2, <3>3, <3>4 DEF IdsAreFresh, Creating
    <3>7. UpdatesAreGuarded' /\ UndisturbedIsCurrent'
        BY <3>2, <3>3 DEF UpdatesAreGuarded, UndisturbedIsCurrent, Updating, Exists
    <3>8. AnswersComeLast' /\ LockedHasCause' /\ AckedClaimHolds'
        BY <3>2 DEF AnswersComeLast, LockedHasCause, AckedClaimHolds, Exists
    <3> QED BY <3>5, <3>6, <3>7, <3>8
  <2> QED BY <1>3, <2>1, <2>2 DEF CreateNewTask
<1>4. CASE UpdateTask(h)
  <2> USE <1>4 DEF UpdateTask, Reply, GoTo, RequestsFit
  <2>1. RequestsFit'
      BY Markers DEF Setting, Creating, Updating, Payload
  <2>2. IdsAreFresh'
      BY DEF IdsAreFresh, Creating
  <2>3. UpdatesAreGuarded' /\ UndisturbedIsCurrent'
      BY DEF UpdatesAreGuarded, UndisturbedIsCurrent, Updating, Exists
  <2>4. AnswersComeLast' /\ LockedHasCause' /\ AckedClaimHolds'
      BY DEF AnswersComeLast, LockedHasCause, AckedClaimHolds, Exists
  <2> QED BY <2>1, <2>2, <2>3, <2>4
<1> QED BY <1>1, <1>2, <1>3, <1>4

\* set() reads the node: it goes on, or a refused update finds its excuse.
LEMMA SetGetStep ==
    ASSUME IndInv, TypeOK', NEW h \in Handler, SetGet(h)
    PROVE  IndInv'
<1> DEFINE t == req[h].task
<1> USE DEF IndInv, TypeOK, store
<1>1. /\ t \in Task /\ req[h].new \in Desc
      /\ Creating(h) => seen[h] = Nothing /\ znode[t] = Unborn /\ req[h].op = "POST"
      /\ Updating(h) => seen[h] \in Desc /\ req[h].op = "PUT"
      /\ Creating(h) \/ Updating(h)
    BY DEF SetGet, RequestsFit, IdsAreFresh, UpdatesAreGuarded, Setting, Creating, Updating
<1>2. CASE pc' = [pc EXCEPT ![h] = "done"]
  <2>1. /\ SetFailed(h)
        /\ UNCHANGED <<znode, zver, ver, req, seen, born, acked, arrivals>>
        /\ excused' = excused \/ excused' = [excused EXCEPT ![h] = TRUE]
        /\ ~excused'[h] /\ Updating(h) => znode[t] # seen[h]
    <3>1. ~GoTo(h, "set_create") /\ ~GoTo(h, "set_write")
        BY <1>2 DEF GoTo
    <3> QED BY <1>1, <1>2, <3>1 DEF SetGet, Excuse, PreviousDataMatches, Exists, Updating
  <2>2. RequestsFit'
      BY <1>2, <2>1 DEF RequestsFit, Setting, Creating, Updating
  <2>3. IdsAreFresh'
      BY <1>2, <2>1 DEF IdsAreFresh, Creating
  <2>4. UpdatesAreGuarded' /\ UndisturbedIsCurrent'
      BY <1>2, <2>1 DEF UpdatesAreGuarded, UndisturbedIsCurrent, Updating, Exists
  <2>5. AnswersComeLast' /\ AckedClaimHolds'
      BY <1>2, <2>1 DEF AnswersComeLast, AckedClaimHolds, Exists, SetFailed, Reply
  <2>6. LockedHasCause'
    <3>1. code'[h] = "locked" => Updating(h)
        BY <1>1, <2>1 DEF SetFailed, Reply, Creating, Updating
    <3>2. Updating(h) => excused'[h]
        BY <2>1 DEF UndisturbedIsCurrent
    <3>3. \A g \in Handler \ {h} : code'[g] = code[g] /\ excused'[g] = excused[g]
        BY <2>1 DEF SetFailed, Reply
    <3> QED BY <3>1, <3>2, <3>3 DEF LockedHasCause
  <2> QED BY <2>2, <2>3, <2>4, <2>5, <2>6
<1>3. CASE Creating(h) /\ pc' = [pc EXCEPT ![h] = "set_create"]
  <2>1. UNCHANGED <<znode, zver, ver, req, seen, born, acked, arrivals, excused, code>>
      BY <1>1, <1>3 DEF SetGet, SetFailed, Reply, GoTo, Exists, Creating
  <2>2. RequestsFit'
      BY <1>1, <1>3, <2>1 DEF RequestsFit, Setting, Creating, Updating
  <2>3. IdsAreFresh'
      BY <1>3, <2>1 DEF IdsAreFresh, Creating
  <2>4. UpdatesAreGuarded' /\ UndisturbedIsCurrent'
      BY <1>3, <2>1 DEF UpdatesAreGuarded, UndisturbedIsCurrent, Updating, Exists
  <2>5. AnswersComeLast' /\ LockedHasCause' /\ AckedClaimHolds'
      BY <1>3, <2>1 DEF AnswersComeLast, LockedHasCause, AckedClaimHolds, Exists, Creating
  <2> QED BY <2>2, <2>3, <2>4, <2>5
<1>4. CASE Updating(h) /\ pc' = [pc EXCEPT ![h] = "set_write"]
  <2>1. /\ UNCHANGED <<znode, zver, req, seen, born, acked, arrivals, excused, code>>
        /\ znode[t] = seen[h]
        /\ ver' = [ver EXCEPT ![h] = zver[t]]
      BY <1>1, <1>4, Markers
         DEF SetGet, SetFailed, Reply, GoTo, Exists, PreviousDataMatches, WantedVersion
  <2>2. RequestsFit'
      BY <1>1, <1>4, <2>1 DEF RequestsFit, Setting, Creating, Updating
  <2>3. IdsAreFresh'
      BY <1>4, <2>1 DEF IdsAreFresh, Creating, Updating
  <2>4. UpdatesAreGuarded' /\ UndisturbedIsCurrent'
      BY <1>1, <1>4, <2>1 DEF UpdatesAreGuarded, UndisturbedIsCurrent, Updating, Exists
  <2>5. AnswersComeLast' /\ LockedHasCause' /\ AckedClaimHolds'
      BY <1>4, <2>1 DEF AnswersComeLast, LockedHasCause, AckedClaimHolds, Exists, Updating
  <2> QED BY <2>2, <2>3, <2>4, <2>5
<1> QED BY <1>1, <1>2, <1>3, <1>4, Markers
        DEF SetGet, SetFailed, Reply, GoTo, Exists

\* The request is over, answered or not.
LEMMA ForgetStep ==
    ASSUME IndInv, TypeOK', NEW h \in Handler, Finish(h) \/ Crash(h)
    PROVE  IndInv'
<1> USE DEF IndInv, TypeOK, store
<1>1. Forget(h)
    BY DEF Finish, Crash
<1>2. RequestsFit'
    BY <1>1 DEF Forget, RequestsFit, Setting, Creating, Updating
<1>3. IdsAreFresh'
    BY <1>1 DEF Forget, IdsAreFresh, Creating
<1>4. UpdatesAreGuarded' /\ UndisturbedIsCurrent'
    BY <1>1 DEF Forget, UpdatesAreGuarded, UndisturbedIsCurrent, Updating, Exists
<1>5. AnswersComeLast' /\ LockedHasCause' /\ AckedClaimHolds'
    BY <1>1 DEF Forget, AnswersComeLast, LockedHasCause, AckedClaimHolds, Exists
<1> QED BY <1>2, <1>3, <1>4, <1>5

\* A ticket changes under handler h, which is done with that: the handlers
\* that had read it are told by the version, or find it gone.
LEMMA ChangeOfTicket ==
    ASSUME IndInv, TypeOK', NEW h \in Handler, NEW t \in Task, NEW p \in Place \ {Unborn},
           t \in born,
           \A g \in Handler : Creating(g) /\ g # h => req[g].task # t,
           znode' = [znode EXCEPT ![t] = p],
           \/ znode[t] = Unborn /\ zver' = [zver EXCEPT ![t] = 0]
           \/ p \notin Desc /\ UNCHANGED zver
           \/ zver' = [zver EXCEPT ![t] = @ + 1],
           pc' = [pc EXCEPT ![h] = "done"],
           UNCHANGED local,
           \A g \in Handler \ {h} :
              excused'[g] = (excused[g] \/ (Updating(g) /\ req[g].task = t))
    PROVE  RequestsFit' /\ IdsAreFresh' /\ UpdatesAreGuarded' /\ UndisturbedIsCurrent'
<1> USE DEF IndInv, TypeOK, local
<1>1. \A g \in Handler \ {h} : /\ Updating(g)' <=> Updating(g)
                               /\ Creating(g)' <=> Creating(g)
                               /\ Setting(g)' <=> Setting(g)
                               /\ pc'[g] = pc[g]
    BY DEF Updating, Creating, Setting
<1>2. /\ ~Updating(h)' /\ ~Creating(h)' /\ ~Setting(h)'
      /\ pc'[h] = "done"
    BY DEF Updating, Creating, Setting
<1>3. RequestsFit'
    BY <1>1, <1>2 DEF RequestsFit
<1>4. IdsAreFresh'
    BY <1>1, <1>2 DEF IdsAreFresh
<1>5. UpdatesAreGuarded'
    BY <1>1, <1>2 DEF UpdatesAreGuarded, Exists, RequestsFit, Updating, Setting
<1>6. UndisturbedIsCurrent'
    BY <1>1, <1>2 DEF UndisturbedIsCurrent, UpdatesAreGuarded, RequestsFit, Updating, Setting
<1> QED BY <1>3, <1>4, <1>5, <1>6

\* A call of set() that leaves the store alone ends in an excused refusal.
LEMMA RefusedSet ==
    ASSUME IndInv, TypeOK', NEW h \in Handler,
           SetFailed(h), UNCHANGED <<znode, zver, req, seen, ver, born, acked>>,
           excused' = excused \/ Excuse(h),
           req[h].op # "POST" => excused'[h]
    PROVE  IndInv'
<1> USE DEF IndInv, TypeOK, SetFailed, Reply
<1>1. excused' = excused \/ excused' = [excused EXCEPT ![h] = TRUE]
    BY DEF Excuse
<1>2. RequestsFit'
    BY DEF RequestsFit, Setting, Creating, Updating
<1>3. IdsAreFresh'
    BY DEF IdsAreFresh, Creating
<1>4. UpdatesAreGuarded' /\ UndisturbedIsCurrent'
    BY <1>1 DEF UpdatesAreGuarded, UndisturbedIsCurrent, Updating, Exists
<1>5. AnswersComeLast' /\ AckedClaimHolds'
    BY DEF AnswersComeLast, AckedClaimHolds, Exists
<1>6. LockedHasCause'
  <2>1. code'[h] = "locked" => req[h].op # "POST"
      OBVIOUS
  <2>2. code'[h] = "locked" => excused'[h]
      BY <2>1
  <2> QED BY <1>1, <2>2 DEF LockedHasCause
<1> QED BY <1>2, <1>3, <1>4, <1>5, <1>6

\* Changing a ticket that nobody else is creating disturbs its updates.
LEMMA Disturbed ==
    ASSUME IndInv, NEW h \in Handler, NEW t \in Task,
           \A g \in Handler : Creating(g) /\ g # h => req[g].task # t,
           Disturb(h, t) \/ DisturbAll(t)
    PROVE  \A g \in Handler \ {h} :
              excused'[g] = (excused[g] \/ (Updating(g) /\ req[g].task = t))
<1> SUFFICES ASSUME NEW g \in Handler \ {h}
             PROVE  excused'[g] = (excused[g] \/ (Updating(g) /\ req[g].task = t))
    OBVIOUS
<1>1. pc[g] \in {"set_get", "set_write"} /\ req[g].task = t
        <=> Updating(g) /\ req[g].task = t
    BY DEF IndInv, RequestsFit, Setting, Creating, Updating
<1>2. excused'[g]
        = (excused[g] \/ (pc[g] \in {"set_get", "set_write"} /\ req[g].task = t))
    BY Zenon DEF Disturb, DisturbAll
<1> QED BY <1>1, <1>2

\* create() either fails or stores the ticket for the first time.
LEMMA SetCreateStep ==
    ASSUME IndInv, TypeOK', NEW h \in Handler, SetCreate(h)
    PROVE  IndInv'
<1> DEFINE t == req[h].task
           new == req[h].new
<1> USE DEF IndInv, TypeOK, store, local
<1>1. /\ t \in Task /\ new \in Desc /\ new \in Place \ {Unborn} /\ new # Garbled
      /\ Creating(h) /\ req[h].op = "POST"
      /\ znode[t] = Unborn /\ t \in born
      /\ \A g \in Handler : Creating(g) /\ g # h => req[g].task # t
    BY Markers DEF SetCreate, RequestsFit, IdsAreFresh, Setting, Creating, Updating, Place
<1>2. CASE SetFailed(h) /\ Excuse(h) /\ UNCHANGED <<store, acked>>
    BY <1>1, <1>2, RefusedSet DEF SetCreate
<1>3. CASE /\ znode' = [znode EXCEPT ![t] = new]
           /\ zver' = [zver EXCEPT ![t] = 0]
           /\ \/ SetDone(h) /\ Disturb(h, t) /\ Acknowledge(t, new, TRUE)
              \/ SetFailed(h) /\ DisturbAll(t) /\ Acknowledge(t, new, FALSE)
  <2>1. /\ pc' = [pc EXCEPT ![h] = "done"]
        /\ code'[h] # "locked"
        /\ \A g \in Handler \ {h} : code'[g] = code[g]
      BY <1>1, <1>3 DEF SetDone, SetFailed, Reply
  <2>2. \A g \in Handler \ {h} :
            excused'[g] = (excused[g] \/ (Updating(g) /\ req[g].task = t))
      BY <1>1, <1>3, Disturbed
  <2>3. UNCHANGED local
      BY DEF SetCreate
  <2>4. RequestsFit' /\ IdsAreFresh' /\ UpdatesAreGuarded' /\ UndisturbedIsCurrent'
    <3> HIDE DEF IndInv, TypeOK, local
    <3> QED BY <1>1, <1>3, <2>1, <2>2, <2>3, ChangeOfTicket
  <2>5. AnswersComeLast' /\ LockedHasCause'
    <3>1. \A g \in Handler \ {h} : excused[g] => excused'[g]
        BY <2>2
    <3> QED BY <2>1, <3>1 DEF AnswersComeLast, LockedHasCause
  <2>6. AckedClaimHolds'
    <3>1. acked[t] = {}
        BY <1>1, Markers DEF AckedClaimHolds, Exists
    <3>2. Acknowledge(t, new, TRUE) \/ Acknowledge(t, new, FALSE)
        BY <1>3
    <3>3. \A w \in acked'[t] : w = new.assignee
        BY <1>1, <3>1, <3>2 DEF Acknowledge
    <3>4. \A s \in Task \ {t} : acked'[s] = acked[s] /\ znode'[s] = znode[s]
        BY <1>1, <1>3, <3>2 DEF Acknowledge
    <3>5. znode'[t] = new
        BY <1>1, <1>3
    <3> QED BY <1>1, <3>3, <3>4, <3>5 DEF AckedClaimHolds, Exists
  <2> QED BY <2>4, <2>5, <2>6
<1> QED BY <1>2, <1>3 DEF SetCreate

\* What a write finds when its version still matches.
LEMMA MatchedWrite ==
    ASSUME IndInv, NEW h \in Handler, pc[h] = "set_write"
    PROVE  /\ Updating(h)
           /\ req[h].task \in Task /\ req[h].new \in Desc
           /\ seen[h] \in Desc /\ ~WrongActor(seen[h], req[h].new)
           /\ znode[req[h].task] # Unborn
           /\ Exists(req[h].task) /\ VersionMatches(ver[h], zver[req[h].task])
                 => znode[req[h].task] = seen[h]
           /\ ~excused[h]
                 => Exists(req[h].task) /\ VersionMatches(ver[h], zver[req[h].task])
<1> USE DEF IndInv
<1>1. Updating(h) /\ req[h].task \in Task /\ req[h].new \in Desc
    BY DEF RequestsFit, Setting, Creating, Updating
<1> QED BY <1>1 DEF UpdatesAreGuarded, UndisturbedIsCurrent, VersionMatches, AnyVersion, Exists

\* A versioned write fails, or replaces exactly what the handler had read.
LEMMA SetWriteStep ==
    ASSUME IndInv, TypeOK', NEW h \in Handler, SetWrite(h)
    PROVE  IndInv'
<1> DEFINE t == req[h].task
           new == req[h].new
           Matches == Exists(t) /\ VersionMatches(ver[h], zver[t])
<1> USE DEF IndInv, TypeOK, store, local
<1>1. /\ Updating(h) /\ req[h].op = "PUT"
      /\ t \in Task /\ new \in Desc /\ seen[h] \in Desc
      /\ ~WrongActor(seen[h], new)
      /\ znode[t] # Unborn /\ t \in born
      /\ Matches => znode[t] = seen[h]
      /\ ~excused[h] => Matches
    BY MatchedWrite DEF SetWrite, IdsAreFresh, Updating
<1>2. CASE SetFailed(h) /\ Excuse(h) /\ UNCHANGED <<store, acked>>
    BY <1>1, <1>2, RefusedSet DEF SetWrite, Excuse
<1>3. CASE ~Matches /\ SetFailed(h) /\ UNCHANGED <<store, acked, excused>>
    BY <1>1, <1>3, RefusedSet DEF SetWrite
<1>4. CASE /\ Matches
           /\ znode' = [znode EXCEPT ![t] = new]
           /\ zver' = [zver EXCEPT ![t] = @ + 1]
           /\ \/ SetDone(h) /\ Disturb(h, t) /\ Acknowledge(t, new, TRUE)
              \/ SetFailed(h) /\ DisturbAll(t) /\ Acknowledge(t, new, FALSE)
  <2>1. /\ pc' = [pc EXCEPT ![h] = "done"]
        /\ \A g \in Handler \ {h} : code'[g] = code[g]
      BY <1>4 DEF SetDone, SetFailed, Reply
  <2>2. \A g \in Handler : Creating(g) /\ g # h => req[g].task # t
      BY <1>1 DEF IdsAreFresh
  <2>3. \A g \in Handler \ {h} :
            excused'[g] = (excused[g] \/ (Updating(g) /\ req[g].task = t))
      BY <1>1, <1>4, <2>2, Disturbed
  <2>4. UNCHANGED local
      BY DEF SetWrite
  <2>5. RequestsFit' /\ IdsAreFresh' /\ UpdatesAreGuarded' /\ UndisturbedIsCurrent'
    <3>1. new \in Place \ {Unborn}
        BY <1>1, Markers DEF Place
    <3> HIDE DEF IndInv, TypeOK, local
    <3> QED BY <1>1, <1>4, <2>1, <2>2, <2>3, <2>4, <3>1, ChangeOfTicket
  <2>6. AnswersComeLast'
      BY <2>1 DEF AnswersComeLast
  <2>7. LockedHasCause'
    <3>1. code'[h] = "locked" => excused'[h]
      <4>1. CASE SetDone(h)
          BY <1>1, <4>1 DEF SetDone, Reply
      <4>2. CASE DisturbAll(t)
          BY <1>1, <4>2 DEF DisturbAll, Updating
      <4> QED BY <1>4, <4>1, <4>2
    <3>2. \A g \in Handler \ {h} : excused[g] => excused'[g]
        BY <2>3
    <3> QED BY <2>1, <3>1, <3>2 DEF LockedHasCause
  <2>8. AckedClaimHolds'
    <3>1. Acknowledge(t, new, TRUE) \/ Acknowledge(t, new, FALSE)
        BY <1>4
    <3>2. \A w \in acked[t] : w # NoOne /\ seen[h].assignee = w
        BY <1>1, <1>4, Markers DEF AckedClaimHolds
    <3>3. \A w \in acked'[t] : w = new.assignee
        BY <1>1, <3>1, <3>2 DEF Acknowledge, WrongActor
    <3>4. \A s \in Task \ {t} : acked'[s] = acked[s] /\ znode'[s] = znode[s]
        BY <1>1, <1>4, <3>1 DEF Acknowledge
    <3>5. znode'[t] = new
        BY <1>1, <1>4
    <3> QED BY <1>1, <3>3, <3>4, <3>5 DEF AckedClaimHolds, Exists
  <2> QED BY <2>5, <2>6, <2>7, <2>8
<1> QED BY <1>2, <1>3, <1>4 DEF SetWrite

\* Deleting a ticket ends every claim on it.
LEMMA DeleteStep ==
    ASSUME IndInv, TypeOK', NEW h \in Handler, DeleteTask(h)
    PROVE  IndInv'
<1> DEFINE t == req[h].task
<1> USE DEF IndInv, TypeOK, store, local
<1>1. t \in Task
    BY DEF DeleteTask, RequestsFit
<1>2. /\ pc' = [pc EXCEPT ![h] = "done"] /\ code' = [code EXCEPT ![h] = "gone"]
      /\ UNCHANGED <<zver, req, seen, ver, born>>
    BY DEF DeleteTask, Reply
<1>3. CASE UNCHANGED <<znode, acked, excused>>
  <2>1. RequestsFit'
      BY <1>2, <1>3 DEF RequestsFit, Setting, Creating, Updating
  <2>2. IdsAreFresh'
      BY <1>2, <1>3 DEF IdsAreFresh, Creating
  <2>3. UpdatesAreGuarded' /\ UndisturbedIsCurrent'
      BY <1>2, <1>3 DEF UpdatesAreGuarded, UndisturbedIsCurrent, Updating, Exists
  <2>4. AnswersComeLast' /\ LockedHasCause' /\ AckedClaimHolds'
      BY <1>2, <1>3 DEF AnswersComeLast, LockedHasCause, AckedClaimHolds, Exists
  <2> QED BY <2>1, <2>2, <2>3, <2>4
<1>4. CASE /\ Exists(t)
           /\ znode' = [znode EXCEPT ![t] = Deleted]
           /\ acked' = [acked EXCEPT ![t] = {}]
           /\ Disturb(h, t)
  <2>1. /\ Deleted \in Place \ {Unborn} /\ Deleted \notin Desc
        /\ znode[t] # Unborn /\ t \in born
      BY <1>1, <1>4, Markers DEF Place, Exists, IdsAreFresh
  <2>2. \A g \in Handler : Creating(g) /\ g # h => req[g].task # t
      BY <2>1 DEF IdsAreFresh
  <2>3. \A g \in Handler \ {h} :
            excused'[g] = (excused[g] \/ (Updating(g) /\ req[g].task = t))
      BY <1>1, <1>4, <2>2, Disturbed
  <2>4. RequestsFit' /\ IdsAreFresh' /\ UpdatesAreGuarded' /\ UndisturbedIsCurrent'
    <3>1. UNCHANGED local
        BY <1>2
    <3> HIDE DEF IndInv, TypeOK, local
    <3> QED BY <1>1, <1>2, <1>4, <2>1, <2>2, <2>3, <3>1, ChangeOfTicket
  <2>5. AnswersComeLast' /\ LockedHasCause'
      BY <1>2, <2>3 DEF AnswersComeLast, LockedHasCause
  <2>6. AckedClaimHolds'
      BY <1>1, <1>4 DEF AckedClaimHolds, Exists
  <2> QED BY <2>4, <2>5, <2>6
<1> QED BY <1>3, <1>4 DEF DeleteTask

\* A step that changes nothing keeps the invariant.
LEMMA StutterStep == IndInv /\ UNCHANGED vars => IndInv'
BY DEF IndInv, TypeOK, RequestsFit, IdsAreFresh, UpdatesAreGuarded, UndisturbedIsCurrent,
       AnswersComeLast, LockedHasCause, AckedClaimHolds, Setting, Creating, Updating, Exists,
       vars, store, local

\* Every call of a handler keeps the invariant.
LEMMA IndStep == IndInv /\ [Next]_vars => IndInv'
<1> SUFFICES ASSUME IndInv, [Next]_vars
             PROVE  IndInv'
    OBVIOUS
<1>1. TypeOK'
    BY TypeStep DEF IndInv
<1>2. CASE UNCHANGED vars
    BY <1>2, StutterStep
<1>3. CASE Next
  <2>1. PICK h \in Handler : Handle(h)
      BY <1>3 DEF Next
  <2> QED BY <1>1, <2>1, LocalSteps, SetGetStep, SetCreateStep, SetWriteStep, DeleteStep,
             ForgetStep DEF Handle
<1> QED BY <1>2, <1>3

-----------------------------------------------------------------------------
(* The theorems *)

\* The handlers keep the inductive invariant: whatever the interleaving of
\* requests, failed calls and dying processes, an update about to be written
\* is guarded by a version that identifies the description it was checked
\* against (sync.py:136-170, tasks.py:112-144).
THEOREM Inductive == Spec => []IndInv
<1>1. Init => IndInv
    BY IndInit
<1>2. IndInv /\ [Next]_vars => IndInv'
    BY IndStep
<1> QED BY <1>1, <1>2, PTL DEF Spec

\* Every variable keeps its type; in particular only JSON descriptions are
\* ever stored (tasks.py:67-71, 123-128).
THEOREM TypeCorrect == Spec => []TypeOK
<1>1. IndInv => TypeOK
    BY DEF IndInv
<1> QED BY <1>1, Inductive, PTL

\* A claim answered with 200 is never taken over by another worker's claim.
THEOREM ClaimsHold == Spec => []AckedClaimHolds
<1>1. IndInv => AckedClaimHolds
    BY DEF IndInv
<1> QED BY <1>1, Inductive, PTL

\* Nobody is refused without a failure or a concurrent change of the ticket.
THEOREM RefusalsHaveCause == Spec => []LockedHasCause
<1>1. IndInv => LockedHasCause
    BY DEF IndInv
<1> QED BY <1>1, Inductive, PTL

\* A write only replaces the description that its handler had checked.
THEOREM UpdatesAreNotLost == Spec => NoLostUpdate
<1>1. IndInv => \A h \in Handler, t \in Task :
          SetWrite(h) /\ Exists(t) /\ znode'[t] # znode[t] => seen[h] = znode[t]
  <2> SUFFICES ASSUME IndInv, NEW h \in Handler, NEW t \in Task,
                      SetWrite(h), Exists(t), znode'[t] # znode[t]
               PROVE  seen[h] = znode[t]
      OBVIOUS
  <2>1. /\ t = req[h].task
        /\ VersionMatches(ver[h], zver[t])
      BY DEF SetWrite, store, IndInv, TypeOK
  <2> QED BY <2>1, MatchedWrite DEF SetWrite
<1> QED BY <1>1, Inductive, PTL DEF NoLostUpdate

\* The handlers implement the atomic board: every step is a step of the board
\* or leaves it alone.
THEOREM ImplementsRepository == Spec => RepositorySpec
<1> USE DEF Repository!Desc, Desc
<1>1. Init => Repository!Empty
    BY DEF Init, Repository!Empty
<1>2. ASSUME IndInv, [Next]_vars
      PROVE  [Repository!Step]_znode
  <2> USE DEF IndInv
  <2>1. ASSUME NEW h \in Handler, SetCreate(h), znode' # znode
        PROVE  Repository!Step
    <3>1. /\ req[h].task \in Task /\ req[h].new \in Desc
          /\ znode[req[h].task] = Unborn
        BY <1>2, <2>1 DEF SetCreate, RequestsFit, IdsAreFresh, Setting, Creating, Updating
    <3>2. znode' = [znode EXCEPT ![req[h].task] = req[h].new]
        BY <2>1 DEF SetCreate, store
    <3> QED BY <3>1, <3>2 DEF Repository!Step, Repository!Post
  <2>2. ASSUME NEW h \in Handler, SetWrite(h), znode' # znode
        PROVE  Repository!Step
    <3>1. /\ znode' = [znode EXCEPT ![req[h].task] = req[h].new]
          /\ Exists(req[h].task) /\ VersionMatches(ver[h], zver[req[h].task])
        BY <2>2 DEF SetWrite, store
    <3>2. /\ req[h].task \in Task /\ req[h].new \in Desc
          /\ znode[req[h].task] = seen[h] /\ seen[h] \in Desc
          /\ ~WrongActor(seen[h], req[h].new)
        BY <1>2, <2>2, <3>1, MatchedWrite DEF SetWrite
    <3>3. Repository!Replace(req[h].task, req[h].new)
        BY <3>1, <3>2, Markers
           DEF Repository!Replace, Repository!Live, Repository!Handover, WrongActor
    <3> QED BY <3>2, <3>3 DEF Repository!Step
  <2>3. ASSUME NEW h \in Handler, DeleteTask(h), znode' # znode
        PROVE  Repository!Step
    <3>1. req[h].task \in Task
        BY <1>2, <2>3 DEF DeleteTask, RequestsFit
    <3>2. Exists(req[h].task) /\ znode' = [znode EXCEPT ![req[h].task] = Deleted]
        BY <2>3 DEF DeleteTask
    <3> QED BY <3>1, <3>2
            DEF Exists, Repository!Step, Repository!Withdraw, Repository!Live
  <2>4. CASE UNCHANGED vars
      BY <2>4 DEF vars, store
  <2>5. ASSUME NEW h \in Handler, Handle(h), ~SetCreate(h), ~SetWrite(h), ~DeleteTask(h)
        PROVE  UNCHANGED znode
      BY <2>5 DEF Handle, Receive, Unreachable, CreateNewTask, UpdateTask, SetGet, Finish,
                  Crash, Forget, store
  <2> QED BY <1>2, <2>1, <2>2, <2>3, <2>4, <2>5 DEF Next, Handle
<1> QED BY <1>1, <1>2, Inductive, PTL DEF Spec, RepositorySpec, Repository!BoardSpec
=============================================================================
