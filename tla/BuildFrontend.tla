---------------------------- MODULE BuildFrontend ----------------------------
(***************************************************************************)
(* The frontend's handlers that make and delete builds and jobs            *)
(* (frontend/jobs_builds.py, frontend/jobs.py) on shared storage, and the  *)
(* ZooKeeper lock (ZooKeeperLock in frontend/sync.py) some of them take.   *)
(*                                                                         *)
(* One job: every path and every lock name contains the job's id, so jobs  *)
(* do not interact.  The lock is an ephemeral node: it exists as long as   *)
(* the session that made it.  ZooKeeper ends a session on its own when it  *)
(* hears nothing from it for four seconds, and the handler learns of that  *)
(* only through a failing call.                                            *)
(***************************************************************************)
EXTENDS Integers, FiniteSets

CONSTANTS
    Handler,       \* requests that may be in progress at the same time
    Operation,     \* which of "trigger", "configure", "delete_job" and
                   \* "delete_build" clients ask for
    JobExists,     \* whether the job was there to begin with
    Free,          \* there is no lock node
    Lingering,     \* its session is gone, ZooKeeper will find out
    Leaked,        \* its session is open, no request knows it any more
    ListingSize,   \* how many builds one call of listdir can return
    MaxRequests,   \* bound: requests served in a behaviour
    MaxExpiries,   \* bound: sessions that expire under a live process
    MaxRaised      \* bound: storage calls that raise what no handler catches

ASSUME BuildConstants ==
    /\ Operation \subseteq {"trigger", "configure", "delete_job", "delete_build"}
    /\ JobExists \in BOOLEAN
    /\ ListingSize \in Nat \ {0}
    /\ MaxRequests \in Nat
    /\ MaxExpiries \in Nat
    /\ MaxRaised \in Nat
    /\ Cardinality({Free, Lingering, Leaked}) = 3
    /\ {Free, Lingering, Leaked} \cap Handler = {}

Number == 1 .. MaxRequests

VARIABLES
    \* ZooKeeper
    lock,       \* the handler whose session holds the lock, or Free, Lingering, Leaked
    session,    \* session[h]: "none", "open" or "expired"
    \* shared storage
    jobdir,     \* the job's directory exists
    config,     \* ... and holds a job.config
    builds,     \* builds[n]: "absent", "empty" (a directory) or "preparing" (with state)
    \* the handlers
    pc, op, code,
    number,     \* new_build_number, or the number of the build to delete
    \* kept for the properties and the bounds
    tickets,    \* tickets[n]: build control tickets posted for build n
    removed,    \* removed[n]: how often a build numbered n was deleted
    arrivals, expiries, raised

zk == <<lock, session>>
storage == <<jobdir, config, builds>>
ghosts == <<tickets, removed, arrivals, expiries, raised>>
vars == <<zk, storage, pc, op, code, number, ghosts>>

Section == {"check", "list", "mkdir", "ensure", "config", "unlock"}

TypeOK ==
    /\ lock \in Handler \cup {Free, Lingering, Leaked}
    /\ session \in [Handler -> {"none", "open", "expired"}]
    /\ jobdir \in BOOLEAN
    /\ config \in BOOLEAN
    /\ builds \in [Number -> {"absent", "empty", "preparing"}]
    /\ pc \in [Handler -> Section \cup {"idle", "lock", "state", "task", "delete",
                                        "rmdir", "remove", "done"}]
    /\ op \in [Handler -> Operation \cup {"none"}]
    /\ code \in [Handler -> {"none", "ok", "not_found", "locked", "error"}]
    /\ number \in [Handler -> Number \cup {0}]
    /\ tickets \in [Number -> Nat]
    /\ removed \in [Number -> Nat]
    /\ arrivals \in 0 .. MaxRequests
    /\ expiries \in 0 .. MaxExpiries
    /\ raised \in 0 .. MaxRaised

Init ==
    /\ lock = Free
    /\ session = [h \in Handler |-> "none"]
    /\ jobdir = JobExists
    /\ config = JobExists
    /\ builds = [n \in Number |-> "absent"]
    /\ pc = [h \in Handler |-> "idle"]
    /\ op = [h \in Handler |-> "none"]
    /\ code = [h \in Handler |-> "none"]
    /\ number = [h \in Handler |-> 0]
    /\ tickets = [n \in Number |-> 0]
    /\ removed = [n \in Number |-> 0]
    /\ arrivals = 0
    /\ expiries = 0
    /\ raised = 0

Existing == {n \in Number : builds[n] # "absent"}

\* What listdir may return for the job's directory.  CephFSStorage makes a
\* single call with a buffer of 1024 bytes and takes the names that fit for
\* the whole directory; LocalFSStorage has no limit.
Listings == IF Cardinality(Existing) <= ListingSize
            THEN {Existing}
            ELSE {part \in SUBSET Existing : Cardinality(part) = ListingSize}

-----------------------------------------------------------------------------
(* Steps shared by the handlers *)

GoTo(h, call) ==
    /\ pc' = [pc EXCEPT ![h] = call]
    /\ UNCHANGED code

Reply(h, answer) ==
    /\ pc' = [pc EXCEPT ![h] = "done"]
    /\ code' = [code EXCEPT ![h] = answer]

\* Release the lock, then give this answer.
ReplyUnlocked(h, answer) ==
    /\ pc' = [pc EXCEPT ![h] = "unlock"]
    /\ code' = [code EXCEPT ![h] = answer]

\* The request ends without unlock() and close(): nobody will ever use the
\* session again, but the ZooKeeper client library keeps it alive.
LeaveLockBehind(h) ==
    /\ lock' = IF lock = h THEN Leaked ELSE lock
    /\ session' = [session EXCEPT ![h] = "none"]

\* Only some of the storage calls made under the lock are in a try: connecting
\* to the storage, isdir and listdir are not.  When one of these fails the
\* exception ends the request.
Raise(h) ==
    /\ raised < MaxRaised
    /\ raised' = raised + 1
    /\ Reply(h, "error")
    /\ LeaveLockBehind(h)

FirstCall == [trigger |-> "lock", configure |-> "lock",
              delete_job |-> "delete", delete_build |-> "remove"]

Receive(h) ==
    /\ pc[h] = "idle"
    /\ arrivals < MaxRequests
    /\ arrivals' = arrivals + 1
    /\ \E o \in Operation :
          /\ op' = [op EXCEPT ![h] = o]
          /\ GoTo(h, FirstCall[o])
          /\ IF o = "delete_build"
             THEN \E n \in Number : number' = [number EXCEPT ![h] = n]
             ELSE UNCHANGED number
    /\ UNCHANGED <<zk, storage, tickets, removed, expiries, raised>>

-----------------------------------------------------------------------------
(* ZooKeeperLock *)

\* Broken: takes an existing node for its own.
AlwaysFree(node) == TRUE

NodeCreated(node) == node = Free

\* Connecting, create() and get().  After any failure the session is closed,
\* and the node goes with it unless closing fails as well.
TryLock(h) ==
    /\ pc[h] = "lock"
    /\ \/ /\ NodeCreated(lock)
          /\ lock' = h
          /\ session' = [session EXCEPT ![h] = "open"]
          /\ GoTo(h, IF op[h] = "trigger" THEN "check" ELSE "ensure")
       \/ Reply(h, "error") /\ UNCHANGED zk    \* SyncError: no connection
       \/ Reply(h, "locked") /\ UNCHANGED zk
       \/ /\ lock = Free
          /\ lock' = Lingering
          /\ Reply(h, "locked")
          /\ UNCHANGED session
    /\ UNCHANGED <<storage, op, number, ghosts>>

\* unlock() and close().  If their calls fail the session is left to expire.
Unlock(h) ==
    /\ pc[h] = "unlock"
    /\ IF lock = h THEN lock' \in {Free, Lingering} ELSE UNCHANGED lock
    /\ session' = [session EXCEPT ![h] = "none"]
    /\ GoTo(h, IF code[h] = "none" THEN "state" ELSE "done")
    /\ UNCHANGED <<storage, op, number, ghosts>>

Expire(h) ==
    /\ session[h] = "open"
    /\ expiries < MaxExpiries
    /\ expiries' = expiries + 1
    /\ session' = [session EXCEPT ![h] = "expired"]
    /\ lock' = IF lock = h THEN Free ELSE lock
    /\ UNCHANGED <<storage, pc, op, code, number, tickets, removed, arrivals, raised>>

ExpireLingering ==
    /\ lock = Lingering
    /\ lock' = Free
    /\ UNCHANGED <<session, storage, pc, op, code, number, ghosts>>

\* The process that leaked the lock is restarted or cut off.
ExpireLeaked ==
    /\ lock = Leaked
    /\ lock' = Free
    /\ UNCHANGED <<session, storage, pc, op, code, number, ghosts>>

-----------------------------------------------------------------------------
(* trigger_build *)

CheckJob(h) ==
    /\ pc[h] = "check"
    /\ \/ jobdir /\ GoTo(h, "list") /\ UNCHANGED <<zk, raised>>
       \/ ~jobdir /\ Reply(h, "not_found") /\ LeaveLockBehind(h) /\ UNCHANGED raised
       \/ Raise(h)
    /\ UNCHANGED <<storage, op, number, tickets, removed, arrivals, expiries>>

\* Broken: counts the builds, and leaves a gap.
CountPlusOne(taken) == Cardinality(taken) + 1
NextButOne(taken) == 2 + IF taken = {} THEN 0 ELSE CHOOSE n \in taken : \A m \in taken : m <= n

NextNumber(taken) ==
    IF taken = {} THEN 1 ELSE 1 + CHOOSE n \in taken : \A m \in taken : m <= n

\* Listing a directory that is gone always raises.
ListBuilds(h) ==
    /\ pc[h] = "list"
    /\ \/ /\ jobdir
          /\ \E listed \in Listings : number' = [number EXCEPT ![h] = NextNumber(listed)]
          /\ GoTo(h, "mkdir")
          /\ UNCHANGED <<zk, raised>>
       \/ ~jobdir /\ Reply(h, "error") /\ LeaveLockBehind(h) /\ UNCHANGED <<number, raised>>
       \/ Raise(h) /\ UNCHANGED number
    /\ UNCHANGED <<storage, op, tickets, removed, arrivals, expiries>>

\* Broken: content with a directory that is already there.
MadeOrPresent(n) == TRUE

DirectoryIsNew(n) == builds[n] = "absent"

\* Broken: the failure is answered as a missing job is, lock and all.
ReplyLocked(h, answer) == Reply(h, answer) /\ LeaveLockBehind(h)

MkdirFailed(h, answer) == ReplyUnlocked(h, answer) /\ UNCHANGED zk

MakeBuildDir(h) ==
    /\ pc[h] = "mkdir"
    /\ \/ /\ jobdir
          /\ DirectoryIsNew(number[h])
          /\ builds' = [builds EXCEPT ![number[h]] = "empty"]
          /\ GoTo(h, "unlock")
          /\ UNCHANGED zk
       \/ MkdirFailed(h, "error") /\ UNCHANGED builds
    /\ UNCHANGED <<jobdir, config, op, number, ghosts>>

WriteState(h) ==
    /\ pc[h] = "state"
    /\ \/ /\ builds[number[h]] # "absent"
          /\ builds' = [builds EXCEPT ![number[h]] = "preparing"]
          /\ GoTo(h, "task")
       \/ Reply(h, "error") /\ UNCHANGED builds
    /\ UNCHANGED <<zk, jobdir, config, op, number, ghosts>>

\* Ten attempts to create the ticket, ten to fill it in.  When all replies to
\* the latter are lost it is there although the client is told otherwise.
PostTicket(h) ==
    /\ pc[h] = "task"
    /\ \/ /\ tickets' = [tickets EXCEPT ![number[h]] = @ + 1]
          /\ Reply(h, "ok") \/ Reply(h, "error")
       \/ Reply(h, "error") /\ UNCHANGED tickets
    /\ UNCHANGED <<zk, storage, op, number, removed, arrivals, expiries, raised>>

-----------------------------------------------------------------------------
(* create_or_update_job *)

EnsureJobDir(h) ==
    /\ pc[h] = "ensure"
    /\ \/ jobdir' = TRUE /\ GoTo(h, "config") /\ UNCHANGED <<zk, raised>>
       \/ ~jobdir /\ ReplyUnlocked(h, "error") /\ UNCHANGED <<zk, jobdir, raised>>
       \/ Raise(h) /\ UNCHANGED jobdir
    /\ UNCHANGED <<config, builds, op, number, tickets, removed, arrivals, expiries>>

WriteConfig(h) ==
    /\ pc[h] = "config"
    /\ \/ jobdir /\ config' = TRUE /\ ReplyUnlocked(h, "ok")
       \/ ReplyUnlocked(h, "error") /\ UNCHANGED config
    /\ UNCHANGED <<zk, jobdir, builds, op, number, ghosts>>

-----------------------------------------------------------------------------
(* delete_job and delete_build: they take no lock *)

Remove(gone) ==
    /\ builds' = [n \in Number |-> IF n \in gone THEN "absent" ELSE builds[n]]
    /\ removed' = [n \in Number |-> IF n \in gone \cap Existing
                                    THEN removed[n] + 1 ELSE removed[n]]

\* isdir, and rmtree up to the last rmdir.  It may fail halfway.
EmptyJobDir(h) ==
    /\ pc[h] = "delete"
    /\ \/ ~jobdir /\ Reply(h, "not_found") /\ UNCHANGED <<config, builds, removed>>
       \/ /\ jobdir
          /\ \E listed \in Listings : Remove(listed)
          /\ config' = FALSE
          /\ GoTo(h, "rmdir")
       \/ /\ jobdir
          /\ \E gone \in SUBSET Existing : Remove(gone)
          /\ config' \in {config, FALSE}
          /\ Reply(h, "error")
    /\ UNCHANGED <<zk, jobdir, op, number, tickets, arrivals, expiries, raised>>

\* rmdir fails if something was put into the directory in the meantime.
RemoveJobDir(h) ==
    /\ pc[h] = "rmdir"
    /\ \/ ~jobdir /\ Reply(h, "not_found") /\ UNCHANGED jobdir
       \/ jobdir /\ (config \/ Existing # {}) /\ Reply(h, "error") /\ UNCHANGED jobdir
       \/ jobdir /\ ~config /\ Existing = {} /\ jobdir' = FALSE /\ Reply(h, "ok")
    /\ UNCHANGED <<zk, config, builds, op, number, ghosts>>

\* A failing rmtree is answered as a missing build is, whatever it removed.
DeleteBuild(h) ==
    /\ pc[h] = "remove"
    /\ \/ Reply(h, "not_found") /\ UNCHANGED <<builds, removed>>
       \/ /\ number[h] \in Existing
          /\ builds' = [builds EXCEPT ![number[h]] = "empty"]
          /\ Reply(h, "not_found")
          /\ UNCHANGED removed
       \/ number[h] \in Existing /\ Reply(h, "ok") /\ Remove({number[h]})
    /\ UNCHANGED <<zk, jobdir, config, op, number, tickets, arrivals, expiries, raised>>

-----------------------------------------------------------------------------
Forget(h) ==
    /\ pc' = [pc EXCEPT ![h] = "idle"]
    /\ op' = [op EXCEPT ![h] = "none"]
    /\ code' = [code EXCEPT ![h] = "none"]
    /\ number' = [number EXCEPT ![h] = 0]
    /\ UNCHANGED <<storage, ghosts>>

Finish(h) == pc[h] = "done" /\ Forget(h) /\ UNCHANGED zk

\* The process serving h dies between two steps.
Crash(h) ==
    /\ pc[h] \notin {"idle", "done"}
    /\ Forget(h)
    /\ lock' = IF lock = h THEN Lingering ELSE lock
    /\ session' = [session EXCEPT ![h] = "none"]

Handle(h) ==
    \/ TryLock(h) \/ Unlock(h)
    \/ CheckJob(h) \/ ListBuilds(h) \/ MakeBuildDir(h) \/ WriteState(h) \/ PostTicket(h)
    \/ EnsureJobDir(h) \/ WriteConfig(h)
    \/ EmptyJobDir(h) \/ RemoveJobDir(h) \/ DeleteBuild(h)
    \/ Finish(h)

Next ==
    \/ \E h \in Handler : Receive(h) \/ Handle(h) \/ Expire(h) \/ Crash(h)
    \/ ExpireLingering
    \/ ExpireLeaked

Spec == Init /\ [][Next]_vars

\* A request that is being served goes on; ZooKeeper notices a dead session.
\* A leaked session need not end: its process goes on serving other requests.
FairSpec ==
    /\ Spec
    /\ \A h \in Handler : WF_vars(Handle(h))
    /\ WF_vars(ExpireLingering)

-----------------------------------------------------------------------------
(* Properties *)

Holds(h) == pc[h] \in Section /\ session[h] = "open"

\* Two requests are between try_lock and unlock at the same time only if
\* ZooKeeper has given up the session of one of them (sync.py:60-89).
OneHolder == \A g, h \in Handler : Holds(g) /\ Holds(h) => g = h

\* As long as no session expired under a request, the number a trigger computed
\* is above all builds of the job until it makes the directory, whatever else
\* was triggered, configured or deleted since (jobs_builds.py:92-99).
NumberIsFresh ==
    expiries = 0 =>
        \A h \in Handler : pc[h] = "mkdir" => \A n \in Existing : n < number[h]

\* A build gets one build control ticket, and one more for each time its
\* number was freed by a deletion: mkdir decides between requests that
\* computed the same number, even after a session expired
\* (jobs_builds.py:98-105, 119-140).
TicketsPerBuild == \A n \in Number : tickets[n] <= 1 + removed[n]

\* The lock of a job gets free again, whatever process dies and whatever guarded
\* call fails (jobs_builds.py:98-109, jobs.py:83-103): it is left behind only by
\* a request that a storage call ended outside of any try (README.rst:43, "DistCI
\* uses ZooKeeper for distributed locking and synchronization").
LockGetsFree == lock # Free ~> lock = Free \/ (lock = Leaked /\ raised > 0)
=============================================================================
