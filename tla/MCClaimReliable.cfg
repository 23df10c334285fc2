\* A reliable network: three workers compete for two tickets.
CONSTANTS
    Worker = {w1, w2, w3}
    Poster = {p1, p2}
    Task = {t1, t2}
    Body = {"preparing", "pending", "running", "complete"}
    NoOne = NoOne
    Unborn = Unborn
    Deleted = Deleted
    NoTask = NoTask
    Stubborn = {}
    RetryCount = 2
    MaxLosses = 0
    Lateness = FALSE
    MaxCrashes = 0
SPECIFICATION FairSpec
INVARIANTS
    HoldersBoundedByLosses
PROPERTIES
    PostedIsCompleted
CHECK_DEADLOCK FALSE
