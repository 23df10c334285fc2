# DistCI in TLA+

DistCI is a continuous integration system without a master: frontends offer a
repository of jobs, builds and task tickets over HTTP, and clients and workers
query and change it. Tickets and locks are kept in ZooKeeper, everything else in
a shared file system (CephFS). What can go wrong is between these processes:
several frontends on one ticket, several workers after one claim, calls that
fail after they took effect, processes that die. The modules here model that.
Paths below are relative to `src/src/distci/`.

## Inventory

| Component | State | Operations | Interacts with |
|---|---|---|---|
| Task frontend, `frontend/tasks.py` | none; one ZooKeeper session per request | list, create, get, update, delete a ticket | ZooKeeper, HTTP clients |
| ZooKeeper data layer, `frontend/sync.py` `ZooKeeperData` | session; nodes `/distci/tasks/<uuid>` with data and version | `list`, `get`, `set` (compare and write in separate calls), `delete` | ZooKeeper |
| Job lock, `frontend/sync.py` `ZooKeeperLock` | session; ephemeral node `/job-lock-<job>` | `try_lock`, `unlock`, `close` | ZooKeeper |
| Job handlers, `frontend/jobs.py` | job directories with `job.config` | create or update, delete, get a job | lock, storage |
| Build handlers, `frontend/jobs_builds.py` | build directories with state, console, workspace, artifacts | trigger, delete, state, console, workspace | lock, storage, task API |
| Storage, `frontend/storage.py` | directories and files | local and CephFS variants of the file operations | handlers |
| Client library, `distcilib/` | none | one HTTP request per call; every failure becomes `None` or `False` | frontends |
| Worker base, `worker/worker_base.py` | a random uuid per process | `fetch_task` (list, read, claim), `update_task`, `post_new_task`, workspace transfers | task API |
| Build control, `worker/build_control/` | `build_states` in memory, one record per build | fetch job config, make the workspace, post and poll subtasks in sequence, report, trigger downstream jobs | job, build and task API |
| Execute shell, `worker/execute_shell/` | `tasks` in memory | fetch workspace, run script, push console, send workspace, report until answered | build and task API |
| Git checkout, copy and publish artifacts, `worker/*/` | none between tickets | one ticket at a time, one call of `update_task` to report | build and task API |
| CLI, UI, tags, artifacts, validators, deployment | none that a protocol depends on | | |

Components interact by HTTP requests only; those that change a ticket meet in
ZooKeeper, those that change a job meet at the job lock and in the file system.
There are no callbacks and no shared memory between requests: frontends are
forked processes, and workers are single-threaded loops.

What is hard, and what has to be right:

* **Ticket updates.** `update_task` reads a ticket, checks who owns it, and calls
  `set`, which reads again, compares, and writes with a version. Correct if an
  acknowledged claim cannot be taken away, no update is lost, and a refusal has a
  cause; that is, if the handlers amount to one atomic board.
* **Claims.** Workers decide on old reads, repeat requests whose reply was lost,
  and die. Correct if a ticket has one holder at a time and is completed
  eventually.
* **Builds.** A build number is computed from a directory listing under a lock
  that can expire. Correct if numbers are not given twice, a build has one
  ticket, and the lock gets free again.
* **Files of a build.** State, console, workspace and artifacts are written and read
  without a lock. Correct if requests for one file leave the others alone, what is
  read is what was written, appends are kept, and a deletion deletes.
* **Build control.** A state machine per build, in memory, that runs through a
  dozen calls which may each fail. Correct if every triggered build ends with the
  result of its subtasks, subtasks run in order and once, and no ticket is left.
* **Subtasks.** Each worker fetches the workspace of its predecessor, works and sends
  it back, and no two workers treat a failed transfer alike. Correct if work that
  is reported is stored, output reaches the console once, and a script with a
  timeout gets reported.

The hazards behind these points, with their places in the code, are listed in
`PROJECT.json`.

## Modules

| Module | What it is |
|---|---|
| `Tickets` | the data of a ticket: assignee and body |
| `TaskRepository` | abstract: the ticket board that the task API promises |
| `TaskFrontend` | the handlers of `tasks.py` over `ZooKeeperData`, one ZooKeeper call a step; refines `TaskRepository` |
| `TaskClaim` | workers and posters sharing the board of `TaskRepository` over a faulty network |
| `BuildFrontend` | handlers of `jobs.py` and `jobs_builds.py`, storage, and `ZooKeeperLock` |
| `BuildFiles` | the handlers for the files of one build and its artifacts, one storage call a step |
| `BuildRun` | abstract: how the state file of a build may change |
| `BuildControl` | the controller's state machine for one build, on the board of `TaskRepository`; refines `BuildRun` |
| `Subtasks` | the four workers at the subtasks of a build, with the script of a shell subtask |
| `TaskFrontendProofs`, `TaskClaimProofs`, `BuildFrontendProofs`, `BuildFilesProofs`, `BuildControlProofs`, `SubtasksProofs` | theorems about these modules |
| `MC*` | instances for TLC |

The modules meet as follows. `BuildControl` and `TaskClaim` stand on `TaskRepository`,
which `TaskFrontend` implements. `BuildFrontend` triggers the build that `BuildControl`
takes up. `BuildControl` reduces a subtask to a ticket that gets claimed and reported;
`TaskClaim` is about claim and report, `Subtasks` about what lies between, in the order
that `StepsInOrder` of `BuildControl` establishes. A request for the state file or the
workspace is one attempt in `BuildControl` and `Subtasks`, and a sequence of calls in
`BuildFiles`.

### TaskFrontend

A handler is a request in progress in some frontend process; `pc[h]` is the
ZooKeeper call it makes next: `create` (session for a POST), `read` (session and
`get` of `update_task`), `set_get`, `set_create`, `set_write` (the calls in
`ZooKeeperData.set`), `remove`. `znode` and `zver` are what ZooKeeper keeps.
`seen` is `previous_data` and `ver` the version the write asks for. A call may fail;
a write may take effect and its reply be lost (connection loss), which the code
reports as a failure like any other; the process may die (`Crash`). Reads are as
fresh as possible: an old read from a lagging follower ends, in this code, in the
handler failing at the comparison or at the versioned write, which a failing call
does as well. That a handler may be refused for an old read is therefore covered;
that it may answer 404 or "wrong actor" on an old read is covered by the failing
read and the earlier state.

`acked` and `excused` are history variables that properties talk about: who was
told to be the owner, and which handlers met a failure or a concurrent change.

The development substitutes `FSData` and `PhonyLock` are not modelled: `FSData`
says of itself that "no syncronization over multiple callers is offered".

### TaskRepository

Three atomic operations on a board. `Replace` does not hand a ticket from one
worker to another (`Handover`); giving a ticket up, claiming it and rewriting it
are all allowed to anyone, as in the code. `TaskFrontend` implements it with
`board <- znode`: a step of a handler that writes maps to one operation, all
other steps to stuttering.

### TaskClaim

Workers (`look`, `claim`, `run`, `report`) and posters (`create`, `post`, `poll`,
`delete`) work on the board of `TaskRepository`, which is sound because
`TaskFrontend` implements it. One step is one attempt of one HTTP request. An
attempt is accepted, refused, or lost; a lost attempt took effect, did not, or is
still queued and served later (`late`). Losses are bounded by `MaxLosses`, late
requests are switched on by `Lateness`. Reads are collapsed: `FindTask` is the GET
that found a pending ticket, and a GET that fails is one that did not happen yet.
A refusal out of the blue (the frontend's LOCKED after a failed ZooKeeper call) is
one of the lost attempts. Workers in `Stubborn` repeat their report for ever
(`ExecuteShellWorker`), the others give up after `RetryCount` attempts. Capabilities
are left out: all workers of an instance can do all tickets. A poster is
`post_new_task` with build control's polling and removal around it; a poster
whose `post_new_task` gave up calls it again, as `check_status_and_issue_tasks` does. A
DELETE may be answered 204 although the ticket stays (`RemoveTask`).

### BuildFrontend

One job; jobs do not share paths or locks. `lock` says whose session holds the
ephemeral node. `Lingering` is a session that nobody uses and ZooKeeper will
expire, `Leaked` one that stays open because the process lives and never closes
it. `Expire` ends a session under a running handler. Storage is the job's
directory, its configuration and `builds[n]`, `absent`, `empty` (the directory)
or `preparing` (with state). `rmtree` of a job empties the directory and removes it
in two steps, and may fail halfway; the order in which it removes the contents is
left out. `Listings` is what `listdir` may return, cut off at `ListingSize`.
`Raise` is a call under the lock that no handler guards (connecting to the storage,
`isdir`, `listdir`): the exception ends the request and leaves the lock behind.
`PostTicket` summarises the ticket of a build: twenty attempts that TaskClaim looks
at one by one. The variant without `task_frontends`, in which a trigger posts no
ticket and warns, is left out.

### BuildFiles

The files of one build: names, inodes behind them, and contents of two chunks per
body, each marked with the request it came with. A request goes through check, open,
write or read chunk by chunk, stat, unlink, and `rmtree` through its listing, the
unlinks one by one, and `rmdir`. An open file outlives its name, a second writer
truncates under the first, and `get_workspace` takes the length from the path after
it has opened the file. A build's directory may be deleted and made again by a
trigger under requests in progress. `Fail` is a call that raises or a process that
dies. `Backend` tells the two storages apart where a handler can: `mkdir` of a
directory that exists, and the listing that `rmtree` works on, which on CephFS is cut off
at `ListingSize` artifacts (`Listings`; `cut` marks a deletion whose listing left some
out). A chunk stands for any number of bytes; that a small write is one `write` is not
assumed. `last` and `quiet` are history variables: whose body a file should hold,
and whether anybody else has changed what a request is about. A mixture of two
bodies may or may not parse as JSON, a cut one does not.

### BuildControl and BuildRun

`state` is the entry of `build_states`, `call` the request made next, `tasks` the
descriptions in `build_state` with their ids, `result` the final result. `record` is
the state file, `there` whether the build's directory exists. One pass of
`check_status_and_issue_tasks` is a sequence of requests at `index`; a `return` is
`NextPass`. An attempt is answered or not; an unanswered one took effect or did not,
and any may be the last of its pass, which stands for every `retry_count`. A state
PUT may also be served late (`late`). Of the workers there is claim, report, and one
that runs a ticket again (`RerunSubtask`, the finding `claim_stale`). `known` says
which subtasks have a type that the controller knows, `configured` whether the job still
has a configuration to read. A DELETE of a ticket that failed in ZooKeeper is answered 204
all the same (`AnsweredAnyway`, counted in `kept`). `abandoned` are the tickets nobody will
work on: their worker died, fetches or reports for ever, or no worker can claim them.

`BuildRun` has a state file only: it advances (`Later`) from one sound content
(`Sound`) to another, and falls back only when an old request is served (`Relapse`,
counted). `BuildControl` implements it with its own `record` and `relapses`.

Left out: other controllers, and with them the main ticket posted twice; a subtask's
ticket deleted by somebody else; deletion of the job; a build number given out again
while a controller is at work on the old one.

### Subtasks

The controller posts the next subtask after the success of the last, and the model has
one worker at a time. That is an assumption and not a fact: a worker that claims a complete
ticket on an old read (`claim_stale`) may fetch, work and upload beside its successors, and
none of the properties below is claimed then.

A publish comes to up to `MaxFiles` files one after the other; `files` counts them,
`artifacts` what is stored, `listed` what the reported ticket names. `DeleteBuild` takes the
build away between any two steps, after which every request for it is refused. A worker
ends (`dead`) wherever the code may raise what it does not catch: unpacking, packing, a
match or a target that cannot be opened, a reply cut in its body, a program that cannot be
run. The workspace is the set of subtasks whose work is in it, `Torn` if its
archive was cut, with `Link` if it contains a hard link, which `fetch_workspace`
refuses. `worker` is the record in `ExecuteShellWorker.tasks` or the local variables
of the other workers, `script` the process, its output and its clock. A pass of
`watch_process` is `PollScript`, `ReadOutput`, `PushSome`, `Judge`, and the script may
write, exit or run late between any two of them. `faults` counts attempts that
failed, before or after they took effect or, for an upload, halfway; appends that the frontend
answered 204 without writing them, and output that cannot be decoded, count as well.
`hollow` are the subtasks that report success without work to keep.
Left out: uploads served late, children of a killed shell that go on, the number of a
deleted build given out again, a deletion that stops halfway, and job configurations of the
wrong shape (a timeout is a number, a list of masks is a list).

## Runs

| Run | Instance | States | What it shows |
|---|---|---|---|
| `task_frontend` | 3 handlers, 1 ticket, 2 workers, 5 requests | 337 thousand | the safety properties and the refinement |
| `claim_reliable` | 3 workers, 2 posters, 2 tickets, no faults | 9 thousand | one holder, and every posted ticket completed |
| `claim_lossy` | 1 worker, 2 posters, 3 tickets, 1 loss, 2 attempts | 2.6 thousand | retries mend one loss |
| `claim_faulty` | 4 workers, 2 losses, late requests, 1 crash | 23 thousand | at most one more holder per loss |
| `claim_stale` | 2 workers, 1 poster | | finding |
| `build_frontend` | 3 handlers, 4 requests, 1 expiry, 1 unguarded failure | 906 thousand | lock, numbers, tickets |
| `build_lock` | 2 handlers, 3 requests, 1 expiry, 1 unguarded failure, listings cut off at one build | 42 thousand | the lock gets free |
| `build_lock_leak` | 2 handlers | | finding |
| `build_control` | 2 subtasks, 4 tickets, 3 faults (2 unanswered requests, 1 failed delete answered 204, 1 rerun, 1 abandoned ticket), 1 deletion, 1 crash | 666 thousand | the state file, the tickets, the end of the build, and the refinement |
| `build_files` | 3 requests of 13 kinds, 2 at a time, 1 failing call, CephFS with listings of one artifact | 1.6 million | files of a build |
| `build_delete` | 2 requests | | finding |
| `subtasks` | 2 subtasks of 4 kinds, 2 pieces of output, 2 files, 2 faults, 1 deletion | 814 thousand | workspace, console, artifacts, timeouts |

Why the bounds are enough to be interesting: in `task_frontend`, five requests are
a POST, two competing claims, and two more that give up, repeat or delete, with
three of them in progress at any time; the fourth handler would repeat the part of
one of these. One ticket suffices because handlers of different tickets share
nothing but `uuid4`; the theorems drop the bounds altogether. Four workers in
`claim_faulty` are one more than two losses can put on a ticket. In
`build_frontend` four requests allow two builds, a deletion and one more trigger,
and three in progress allow a lock to be waited for, lost and taken over.
In `build_control` two subtasks are a step with a successor and one without; two
unanswered requests can lose a ticket and then its replacement, or a PUT that
arrives late and one more; the fourth ticket is the one that this takes. A third fault is
a failed delete, a rerun or an abandoned ticket beside them. In
`build_files` two requests in progress give every pair of operations, the third what
came before or after them; what a fourth chunk or a third writer could do to a file
is done by these. In `subtasks` the second subtask is the one that could lose the
work of the first, two faults are an upload and its repetition, and two files are one that
is stored and one that is not.
`MaxRequests`, `MaxLosses`, `MaxCrashes`, `MaxExpiries`, `MaxReruns`, `MaxActive`,
`MaxErrors`, `MaxRaised`, `MaxKept`, `MaxAbandoned`, `MaxOutput`, `MaxFiles` and
`MaxFaults` (in `BuildControl`, of all kinds together) are the only bounds on counters.
`RetryCount` is 2 instead of 10: properties depend on whether losses can
use up all attempts, and both cases are there. Runs switch the deadlock check off
since bounded arrivals, and workers that find nothing, really stop.

Properties, and where they are checked:

* `AckedClaimHolds`, `LockedHasCause`, `NoLostUpdate`, `RepositorySpec`
  (`task_frontend`): see above.
* `HoldersBoundedByLosses`: two workers hold a ticket only if the outcome of an
  attempt stayed unknown. With no losses it says that a ticket has one holder, in
  spite of stale reads: a late claim of a completed ticket runs it again, but not
  at the same time.
* `PostedIsCompleted`: liveness of tickets.
* `OneHolder` (of `BuildFrontend`), `NumberIsFresh`, `TicketsPerBuild`,
  `LockGetsFree`. `TicketsPerBuild` holds even when sessions expire: `mkdir` decides.
  `LockGetsFree` is about processes that die and calls that fail where the code guards
  them; after an unguarded one the lock may stay, which the property names.
* `RecordTellsTruth`, `ImplementsBuildRun`: what a user reads of a build, whatever is
  lost, repeated or late. `StepsInOrder`: also for tickets the controller has
  forgotten. `StraysBoundedByFaults`: a ticket is only forgotten through an unanswered
  request or a failed delete that was answered 204. `TicketStaysUntilRecorded`,
  `DownstreamAfterSuccess`: the order of the report; the build's own ticket may be on the
  board when downstream is triggered only after such a delete. `EveryBuildEnds`: liveness
  under lost requests; the controller's death (a subtask of unknown type brings it about),
  the deletion of the build, a missing configuration, and a ticket that nobody works on
  any more are the ways in which a build does not end, and the property names them.
* `QuietRequestsSucceed`, `ReadsSeeLastWrite`: for requests whose own file nobody else
  changes, whatever goes on in the build's other files; an undisturbed deletion is refused
  exactly when its listing was cut off. `AppendsAreKept` and
  `DeletionIsThorough` are about requests that do meet.
* `WorkIsKept`, `OutputOnce`, `ArtifactsAreNamed`, `ScriptsEnd` of `Subtasks`; each says
  by how many faults what it promises may be missed, and `ScriptsEnd` that packing the
  workspace may end the worker and a deleted build is asked for ever.

### Fairness

`TaskClaim!FairSpec` has weak fairness of each worker's and each poster's step:
their loops have no exit, and every call of the client library returns or raises.
It does not oblige late requests to be served, and losses and crashes are free to
happen or not. `BuildFrontend!FairSpec` has weak fairness of each request's
handler (a handler has no loop that waits for another request) and of the expiry
of sessions that nobody keeps alive, which ZooKeeper promises. A leaked session is
kept alive by its process, so nothing is assumed about its end.
`BuildControl!FairSpec` has weak fairness of the controller's loop, and of the workers' claims
and reports as long as there is a ticket that is not abandoned, which `TaskClaim` is about
(that each ticket gets its turn need not be assumed: the bounds leave finitely many); nothing obliges a
late request to be served, a build to be deleted, a ticket to be abandoned or a controller
to die. `Subtasks!FairSpec` has weak
fairness of the worker's loop and of the clock; a script need never do anything.
`BuildFiles` has no liveness property and no fairness.

## Findings

Runs that expect a violation, each with a counterexample of a few steps:

* `claim_stale`: without any fault, a worker claims a complete ticket on the strength
  of an old GET and runs it again (`tasks.py:135` compares assignees only).
* `build_lock_leak`: a trigger for a missing job never releases the job's lock
  (`jobs_builds.py:91`).
* `build_delete`: a file of the build is deleted while `rmtree` is at work; `NotFound`
  comes out of the middle of `rmtree` and is answered 204, and the build stays
  (`jobs_builds.py:346`).

Findings that TLC shows with a configuration that is kept beside the runs:

* `MCClaimRepost.cfg`, `OneHolder`: a poster repeats its PUT after a lost reply and
  un-claims a ticket that a worker has taken; two workers run it
  (`worker_base.py:84`).
* `MCClaimCrash.cfg`, `PostedIsCompleted`: the ticket of a worker that died is never
  taken over, against README.rst:45. (A lost reply to the last attempt of a claim
  strands a ticket in the same way.)
* `MCClaimWedged.cfg`, `ReportsEnd`: `ExecuteShellWorker` reports to a deleted ticket for
  ever.
* `MCBuildListing.cfg`, `NumberIsFresh`: `CephFSStorage.listdir` returns what fits into
  1024 bytes; a job with more builds can no longer be built (`storage.py:204`). In
  `BuildFiles` the same listing makes an undisturbed deletion of a build with many
  artifacts fail halfway (`storage.py:271`).
* `MCArtifactRace.cfg`, `QuietRequestsSucceed`: on local storage the second of two
  concurrent first artifacts of a build is refused, since `LocalFSStorage.mkdir` does
  not raise `ObjectExists` (`storage.py:346`).

Findings that are in the models as they are in the code:

* `git_checkout` reports success after a failed upload of its workspace
  (`git_checkout.py:98`), `copy_artifacts` after a failed download
  (`copy_artifacts.py:111`): `hollow` in `Subtasks`.
* a copy subtask without a job ends its worker (`copy_artifacts.py:59`): `CheckParameters`.
* a subtask of unknown type ends the controller with all its builds
  (`build_control.py:82`): `SpawnUnknown`.
* a storage call that raises between `try_lock` and `unlock`, outside of any `try`, leaves
  the job locked (`jobs_builds.py:89-92`, `jobs.py:80-81`): `Raise` in `BuildFrontend`.
* a ticket whose deletion failed is answered 204 (`tasks.py:93-95`, `sync.py:184-186`) and
  forgotten: `AnsweredAnyway` in `BuildControl`.
* a directory among the matches of a publish ends its worker with the files before it
  stored and unnamed (`publish_artifacts.py:69`): `UploadFile`.
* a script that leaves a hard link in the workspace makes the next fetch fail; a shell
  worker then fetches for ever (`worker_base.py:106`): `FetchWorkspace`.

## Proofs

Every safety property that a passing run checks is a theorem, for every value of the
constants: any number of requests, workers, tickets, subtasks, failing calls, lost or
late requests, crashes. TLC checked each inductive invariant as an invariant of an instance
before it was proved.

| Module | Theorems (properties of the runs) |
|---|---|
| `TaskFrontendProofs` | `TypeOK`, `AckedClaimHolds`, `LockedHasCause`, `NoLostUpdate`; `TaskFrontend` implements `TaskRepository` |
| `TaskClaimProofs` | `TypeOK`, `HoldersBoundedByLosses`; `OneHolder` if `MaxLosses = 0` |
| `BuildFrontendProofs` | `TypeOK`, `OneHolder`, `TicketsPerBuild`; `NumberIsFresh` if `MaxRequests <= ListingSize` |
| `BuildFilesProofs` | `TypeOK`, `AppendsAreKept`, `ReadsSeeLastWrite`, `DeletionIsThorough`; `QuietRequestsSucceed` if `Backend = "ceph"` |
| `BuildControlProofs` | `TypeOK`, `RecordTellsTruth`, `StepsInOrder`, `StraysBoundedByFaults`, `TicketStaysUntilRecorded`, `DownstreamAfterSuccess`; `BuildControl` implements `BuildRun` |
| `SubtasksProofs` | `TypeOK`, `WorkIsKept`, `OutputOnce`, `ArtifactsAreNamed` |

### Assumptions

The assumptions on constants are those that the modules state (`FrontendConstants`,
`MarkersDiffer`, `ClaimConstants`, `BuildConstants`, `FilesConstants`,
`ControlConstants`, `SubtasksConstants` and those of `Tickets`): bounds are natural numbers, and the markers
for "no node", "no assignee", "no file" differ from the data. TLC evaluates them on
every run. Two more are worth a word: the requests of `BuildFiles` are finitely many
(`Longest`, a bound on the length of a log, is computed from their number), and the
tickets of subtasks are among the bodies the board can hold (`SubtaskBody \subseteq Body`).

Three theorems have a hypothesis of their own, and none of them can do without it:
* `FreshNumbers` needs listings that hold all builds (`MaxRequests <= ListingSize`);
  without it `MCBuildListing.cfg` has the counterexample.
* `QuietSucceeds` is about CephFS, the storage of a deployed system; on local storage
  `MCArtifactRace.cfg` has the counterexample, two requests that both make the
  directory of the artifacts. The other properties of `BuildFiles` are proved for both.
* `ReliableClaimsExclude` is the case without losses of `HoldersAreBounded`; with one
  loss `MCClaimRepost.cfg` has the counterexample.

### Arguments

**TaskFrontend.** That a write replaces what was read depends on versions, two steps
earlier. `IndInv` adds, besides the type invariant,
* for a handler about to write, that it has read a ticket and checked the owner,
  and that the version it holds is not ahead of the node's; and as long as the
  versions agree, the data is what it read (versions only grow while the node is
  there, and a ticket id that was deleted is never created again);
* for a handler that nobody disturbed since its read, that the node is still what
  it read, so that a refusal needs an excuse;
* for every acknowledged claim, that the ticket is there and names that worker,
  which any write that keeps an assignee preserves because `WrongActor` was checked
  against the very data it replaces;
* which ids have been drawn, so that `set_create` meets an unused id.

**TaskClaim.** A count of holders is not inductive: it does not say who may become a
holder next. A holder is *forgotten* when its ticket no longer names it. `DebtsArePaid` says
that on a live ticket the forgotten holders, the queued requests that take the assignee
out, and a poster that may repeat its PUT are together at most the losses; each step
that makes one of them uses up another or is a loss. Holders are then the assignee and
the forgotten ones. A deleted ticket gets no new holder. `WorkersKnow`, `PostersKnow` and
`QueueFits` say that tickets that are still being filled in are known to their poster
only, so that its first PUT takes nobody's assignee out.

**BuildFrontend.** `OneHolder` follows from `LockFits`: a handler in its section whose
session is open owns the node. For `TicketsPerBuild`, `TicketsFit` counts on both sides:
the tickets of a number and the triggers that may still post one are at most the
deletions and the directory that is there. For `NumberIsFresh` the arrivals are a
budget: each number took a trigger, so the numbers in use and the triggers still to
look for one are together at most the arrivals (`NumbersFit`), and these fit into a
listing.

**BuildFiles.** Each request has an account of its own. `OpFits` says which steps a
request of its kind can be at. `QuietFits` says what a request that nobody disturbed
may rely on at each step: its file is linked, still the inode it opened, empty or with
the first chunk of its own body, and a reader has seen exactly the part of the expected
body before its position. `FileFits` says what a file holds whose last writer was undisturbed.
A step of another request either leaves all of this alone or takes the quiet away
(`Untouched`, `OnlyDirectories`, `OnlyFile`), so that each action is a matter of one file and
one request. The logs, which several requests write at a time, need an account of
their own (`LogFits`): where the chunks of each request are, and that it has none in
any other log. `AloneFits` is the account of a deletion which is the only one: what its
listing names is still there. `ReadsSeeLastWrite` and `QuietRequestsSucceed` are not
part of the invariant; a request once answered stays answered, and they are proved from the
invariant at the step that answers.

**BuildControl.** `Sound` alone is not preserved: it speaks of the record, and the
record is overwritten with what the controller remembers. The invariant says of what the
controller remembers (`StepsFit`, `TasksFit`), of the tickets on the board (`BoardFits`)
and of each late request (`RecordsFit`) what `RecordTellsTruth` says of the record, and
that whatever is on the way to the state file is no further than the controller
(`Later`). This also makes every step an advance or a relapse of `BuildRun`.
`LossesCount` says that strays are at most losses and failed deletes answered 204, late
requests and relapses at most losses;
`EndFits` orders the end of a build, `CallsFit` says which request may be next.

**Subtasks.** The invariant follows the work on its way: into the worker's copy
(`CopyIsWhole`: it has all the earlier work that counts), through its upload
(`WorkTravels`), and the output from the script through the worker's buffer to the log
(`PiecesTravel`, `LogIsNew`, `FewRepeats`); `NamesTravel` is the same for artifacts: what is stored is named by
the worker or was left by a failed attempt, and a worker that still reports success names
all it came to.
`PlacesFit` and `ScriptFits` keep each kind of worker to its own steps.

### Model-checked only

* Liveness: `PostedIsCompleted`, `ReportsEnd`, `LockGetsFree`, `EveryBuildEnds` and
  `ScriptsEnd`. TLAPS has no proof rules for fairness here, since they need `ENABLED`.
  They hold of the instances of the runs.
* The properties that the findings violate, and what their counterexamples show.

## Plan

1. Done: all modules, and the theorems above.
2. Left to prove: `QuietRequestsSucceed` on local storage for requests other than the
   first artifacts of a build; that a deletion which is not alone, and is answered 204
   although the build stays, was disturbed by another deletion; and of `TaskClaim` who the holders of a ticket
   are, not only how many (`DebtsArePaid` says it, no run's property does).

## Not modelled

Worker main programs, CLI, UI, tags (every handler answers 501), validators and routing
keep no state. The
bindings to libcephfs and ZooKeeper are modelled by what the code relies on. Reads
(`get_task`, `get_tasks`, `get_builds`, `get_jobs`) change nothing.
