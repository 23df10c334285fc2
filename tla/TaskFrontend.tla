----------------------------- MODULE TaskFrontend -----------------------------
(***************************************************************************)
(* The frontend's task handlers (frontend/tasks.py) running concurrently   *)
(* over the ZooKeeper data layer (ZooKeeperData in frontend/sync.py).      *)
(*                                                                         *)
(* A handler is a request being served by some gunicorn process; one       *)
(* action is one call to ZooKeeper, with the code up to the next one.      *)
(* Every call may fail.  A failed write may or may not have been applied   *)
(* (connection loss), and the code cannot tell which.  A read answered by  *)
(* a ZooKeeper follower that lags behind needs no action of its own: it    *)
(* ends in the handler failing, at the data comparison or at the versioned *)
(* write, as a failed call does.                                           *)
(***************************************************************************)
EXTENDS Tickets, Integers

CONSTANTS
    Handler,      \* requests that may be in progress at the same time
    Garbled,      \* a payload that is not JSON
    Nothing,      \* Python's None: no previous_data, no id yet, no payload
    MaxRequests   \* bound: requests served in a behaviour

ASSUME FrontendConstants ==
    /\ Garbled \notin Desc
    /\ Nothing \notin Desc \cup {Garbled} \cup Task
    /\ MaxRequests \in Nat

AnyVersion == -1

VARIABLES
    \* ZooKeeper
    znode,     \* znode[t]: the data under /distci/tasks/t, or why there is none
    zver,      \* zver[t]: the version ZooKeeper keeps with that data
    \* the handlers
    pc,        \* the call handler h makes next
    req,       \* the request it serves
    seen,      \* task_data as read at the start, passed on as previous_data
    ver,       \* the version its write asks for
    code,      \* its answer
    born,      \* ids drawn by uuid.uuid4() so far
    \* kept for the properties and the bound, not read by the code
    acked,     \* acked[t]: workers told that t is theirs, since t was last
               \* given up or deleted
    excused,   \* excused[h]: a call of h failed, or somebody else changed h's
               \* ticket after h read it
    arrivals   \* requests so far

store == <<znode, zver>>
local == <<req, seen, ver, born>>
vars == <<store, pc, local, code, acked, excused, arrivals>>

Payload == Desc \cup {Garbled}
Call == {"idle", "create", "read", "set_get", "set_create", "set_write",
         "remove", "done"}
Answer == {"none", "created", "updated", "gone", "invalid", "not_found",
           "wrong_actor", "locked", "error"}
Request == [op : {"none", "POST", "PUT", "DELETE"},
            task : Task \cup {Nothing},
            new : Payload \cup {Nothing}]
Blank == [op |-> "none", task |-> Nothing, new |-> Nothing]

TypeOK ==
    /\ znode \in [Task -> Place]
    /\ zver \in [Task -> Nat]
    /\ pc \in [Handler -> Call]
    /\ req \in [Handler -> Request]
    /\ seen \in [Handler -> Desc \cup {Nothing}]
    /\ ver \in [Handler -> Nat \cup {AnyVersion}]
    /\ code \in [Handler -> Answer]
    /\ born \in SUBSET Task
    /\ acked \in [Task -> SUBSET Worker]
    /\ excused \in [Handler -> BOOLEAN]
    /\ arrivals \in Nat

Exists(t) == znode[t] \in Desc

Init ==
    /\ znode = [t \in Task |-> Unborn]
    /\ zver = [t \in Task |-> 0]
    /\ pc = [h \in Handler |-> "idle"]
    /\ req = [h \in Handler |-> Blank]
    /\ seen = [h \in Handler |-> Nothing]
    /\ ver = [h \in Handler |-> AnyVersion]
    /\ code = [h \in Handler |-> "none"]
    /\ born = {}
    /\ acked = [t \in Task |-> {}]
    /\ excused = [h \in Handler |-> FALSE]
    /\ arrivals = 0

-----------------------------------------------------------------------------
(* Steps shared by the handlers *)

GoTo(h, call) ==
    /\ pc' = [pc EXCEPT ![h] = call]
    /\ UNCHANGED code

Reply(h, answer) ==
    /\ pc' = [pc EXCEPT ![h] = "done"]
    /\ code' = [code EXCEPT ![h] = answer]

\* ZooKeeperData.set returned False.
SetFailed(h) == Reply(h, IF req[h].op = "POST" THEN "error" ELSE "locked")

\* ZooKeeperData.set returned True.
SetDone(h) == Reply(h, IF req[h].op = "POST" THEN "created" ELSE "updated")

Excuse(h) == excused' = [excused EXCEPT ![h] = TRUE]

\* Handlers other than h that read ticket t may now find it changed.
Disturb(h, t) == excused' = [g \in Handler |->
    excused[g] \/ (g # h /\ pc[g] \in {"set_get", "set_write"} /\ req[g].task = t)]

\* A write whose reply is lost: applied, reported as failed.
DisturbAll(t) == excused' = [g \in Handler |->
    excused[g] \/ (pc[g] \in {"set_get", "set_write"} /\ req[g].task = t)]

\* Ticket t now holds d and the writer was, or was not, told so.
Acknowledge(t, d, told) == acked' = [acked EXCEPT ![t] =
    IF d.assignee = NoOne THEN {}
    ELSE IF told THEN @ \cup {d.assignee} ELSE @]

-----------------------------------------------------------------------------
(* The handlers *)

FirstCall == [POST |-> "create", PUT |-> "read", DELETE |-> "remove"]

\* A client learns an id from a reply or from the list of tickets, so PUT and
\* DELETE name tickets that were stored at some time.
Requests ==
         [op : {"POST"}, task : {Nothing}, new : Payload]
    \cup [op : {"PUT"}, task : {t \in Task : znode[t] # Unborn}, new : Payload]
    \cup [op : {"DELETE"}, task : {t \in Task : znode[t] # Unborn}, new : {Nothing}]

Receive(h) ==
    /\ pc[h] = "idle"
    /\ arrivals < MaxRequests
    /\ \E r \in Requests :
          /\ req' = [req EXCEPT ![h] = r]
          /\ GoTo(h, FirstCall[r.op])
    /\ arrivals' = arrivals + 1
    /\ UNCHANGED <<store, seen, ver, born, acked, excused>>

\* ZooKeeperData() cannot connect: SyncError goes up to the WSGI server.
Unreachable(h) ==
    /\ pc[h] \in {"create", "read", "remove"}
    /\ Reply(h, "error")
    /\ UNCHANGED <<store, local, acked, excused, arrivals>>

\* create_new_task goes on with a payload and a fresh id.
DrawId(h) ==
    /\ \E t \in Task \ born :
          /\ born' = born \cup {t}
          /\ req' = [req EXCEPT ![h].task = t]
    /\ GoTo(h, "set_get")
    /\ UNCHANGED <<seen, ver>>

CreateNewTask(h) ==
    /\ pc[h] = "create"
    /\ \/ req[h].new = Garbled /\ Reply(h, "invalid") /\ UNCHANGED local
       \/ req[h].new # Garbled /\ DrawId(h)
    /\ UNCHANGED <<store, acked, excused, arrivals>>

\* Broken: lets a worker take a ticket that names another one.
AnyActor(old, new) == FALSE

\* Both descriptions name an assignee and not the same one.
WrongActor(old, new) ==
    /\ old.assignee # NoOne
    /\ new.assignee # NoOne
    /\ old.assignee # new.assignee

\* update_task up to its call of set().  The description read here is known
\* to be JSON: nothing else is ever stored.
UpdateTask(h) ==
    /\ pc[h] = "read"
    /\ LET t == req[h].task
           new == req[h].new
       IN  \/ /\ Reply(h, "not_found")   \* no such node, or the read failed
              /\ UNCHANGED <<seen, excused>>
           \/ /\ Exists(t)
              /\ new = Garbled
              /\ Reply(h, "invalid")
              /\ UNCHANGED <<seen, excused>>
           \/ /\ Exists(t)
              /\ new # Garbled
              /\ WrongActor(znode[t], new)
              /\ Reply(h, "wrong_actor")
              /\ UNCHANGED <<seen, excused>>
           \/ /\ Exists(t)
              /\ new # Garbled
              /\ ~WrongActor(znode[t], new)
              /\ seen' = [seen EXCEPT ![h] = znode[t]]
              /\ excused' = [excused EXCEPT ![h] = FALSE]
              /\ GoTo(h, "set_get")
    /\ UNCHANGED <<store, req, ver, born, acked, arrivals>>

\* Broken: ignores the previous data it was given.
AnyDataMatches(previous, current) == TRUE

\* The comparison set() makes when it was given previous data.
PreviousDataMatches(previous, current) ==
    previous = Nothing \/ current = previous

\* Broken: None as the version, an unconditional write, and a write that is
\* one version ahead.
NoneVersion(previous, current_version) == Nothing
NoVersion(previous, current_version) == AnyVersion
NextVersion(previous, current_version) ==
    IF previous = Nothing THEN AnyVersion ELSE current_version + 1

\* The version set() passes to zookeeper.set.
WantedVersion(previous, current_version) ==
    IF previous = Nothing THEN AnyVersion ELSE current_version

SetGet(h) ==
    /\ pc[h] = "set_get"
    /\ LET t == req[h].task
       IN  \/ /\ SetFailed(h)   \* the read failed
              /\ Excuse(h)
              /\ UNCHANGED ver
           \/ /\ ~Exists(t)
              /\ IF seen[h] = Nothing THEN GoTo(h, "set_create") ELSE SetFailed(h)
              /\ UNCHANGED <<ver, excused>>
           \/ /\ Exists(t)
              /\ ~PreviousDataMatches(seen[h], znode[t])
              /\ SetFailed(h)
              /\ UNCHANGED <<ver, excused>>
           \/ /\ Exists(t)
              /\ PreviousDataMatches(seen[h], znode[t])
              /\ ver' = [ver EXCEPT ![h] = WantedVersion(seen[h], zver[t])]
              /\ GoTo(h, "set_write")
              /\ UNCHANGED excused
    /\ UNCHANGED <<store, req, seen, born, acked, arrivals>>

\* ZooKeeper's create: fails if the node exists.
SetCreate(h) ==
    /\ pc[h] = "set_create"
    /\ LET t == req[h].task
           new == req[h].new
       IN  \/ /\ SetFailed(h)
              /\ Excuse(h)
              /\ UNCHANGED <<store, acked>>
           \/ /\ ~Exists(t)
              /\ znode' = [znode EXCEPT ![t] = new]
              /\ zver' = [zver EXCEPT ![t] = 0]
              /\ \/ SetDone(h) /\ Disturb(h, t) /\ Acknowledge(t, new, TRUE)
                 \/ SetFailed(h) /\ DisturbAll(t) /\ Acknowledge(t, new, FALSE)
    /\ UNCHANGED <<local, arrivals>>

\* ZooKeeper's test of the version a write asks for.
VersionMatches(wanted, current_version) ==
    wanted \in {AnyVersion, current_version}

SetWrite(h) ==
    /\ pc[h] = "set_write"
    /\ LET t == req[h].task
           new == req[h].new
       IN  \/ /\ SetFailed(h)   \* the write failed
              /\ Excuse(h)
              /\ UNCHANGED <<store, acked>>
           \/ /\ ~(Exists(t) /\ VersionMatches(ver[h], zver[t]))
              /\ SetFailed(h)
              /\ UNCHANGED <<store, acked, excused>>
           \/ /\ Exists(t)
              /\ VersionMatches(ver[h], zver[t])
              /\ znode' = [znode EXCEPT ![t] = new]
              /\ zver' = [zver EXCEPT ![t] = @ + 1]
              /\ \/ SetDone(h) /\ Disturb(h, t) /\ Acknowledge(t, new, TRUE)
                 \/ SetFailed(h) /\ DisturbAll(t) /\ Acknowledge(t, new, FALSE)
    /\ UNCHANGED <<local, arrivals>>

\* The answer is 204 whether or not there was a node and the call worked.
DeleteTask(h) ==
    /\ pc[h] = "remove"
    /\ Reply(h, "gone")
    /\ LET t == req[h].task
       IN  \/ UNCHANGED <<znode, acked, excused>>
           \/ /\ Exists(t)
              /\ znode' = [znode EXCEPT ![t] = Deleted]
              /\ acked' = [acked EXCEPT ![t] = {}]
              /\ Disturb(h, t)
    /\ UNCHANGED <<zver, local, arrivals>>

Forget(h) ==
    /\ pc' = [pc EXCEPT ![h] = "idle"]
    /\ code' = [code EXCEPT ![h] = "none"]
    /\ req' = [req EXCEPT ![h] = Blank]
    /\ seen' = [seen EXCEPT ![h] = Nothing]
    /\ ver' = [ver EXCEPT ![h] = AnyVersion]
    /\ excused' = [excused EXCEPT ![h] = FALSE]
    /\ UNCHANGED <<store, born, acked, arrivals>>

Finish(h) == pc[h] = "done" /\ Forget(h)

\* The process serving h dies between two calls.
Crash(h) == pc[h] \notin {"idle", "done"} /\ Forget(h)

Handle(h) ==
    \/ Receive(h) \/ Unreachable(h) \/ CreateNewTask(h) \/ UpdateTask(h)
    \/ SetGet(h) \/ SetCreate(h) \/ SetWrite(h) \/ DeleteTask(h)
    \/ Finish(h) \/ Crash(h)

Next == \E h \in Handler : Handle(h)

Spec == Init /\ [][Next]_vars

-----------------------------------------------------------------------------
(* Properties *)

\* A worker that got a 200 for its claim owns the ticket until somebody gives
\* the ticket up or deletes it: no other claim, no late write of a handler
\* that read the ticket earlier, takes it away (tasks.py:135, sync.py:152-163).
AckedClaimHolds ==
    \A t \in Task : \A w \in acked[t] : Exists(t) /\ znode[t].assignee = w

\* An update is refused as LOCKED only for a reason: a failed call, or another
\* request that changed the ticket after this one read it (sync.py:152-168).
LockedHasCause ==
    \A h \in Handler : code[h] = "locked" => excused[h]

\* No update is lost: a stored ticket is only overwritten by a handler that
\* had read, and checked for a conflicting owner, exactly what it overwrites.
NoLostUpdate ==
    [][\A h \in Handler, t \in Task :
          SetWrite(h) /\ Exists(t) /\ znode'[t] # znode[t]
             => seen[h] = znode[t]]_vars

\* The handlers together implement the atomic board of TaskRepository.
Repository == INSTANCE TaskRepository WITH board <- znode
RepositorySpec == Repository!BoardSpec
=============================================================================
