\* Lost replies, late requests and a dying worker.
CONSTANTS
    Worker = {w1, w2, w3, w4}
    Poster = {p1}
    Task = {t1, t2}
    Body = {"preparing", "pending", "running", "complete"}
    NoOne = NoOne
    Unborn = Unborn
    Deleted = Deleted
    NoTask = NoTask
    Stubborn = {w1, w2, w3, w4}
    RetryCount = 2
    MaxLosses = 2
    Lateness = TRUE
    MaxCrashes = 1
SPECIFICATION Spec
SYMMETRY Symmetric
INVARIANTS
    TypeOK
    HoldersBoundedByLosses
CHECK_DEADLOCK FALSE
