\* Finding: a complete ticket is claimed on the strength of an old read.
CONSTANTS
    Worker = {w1, w2}
    Poster = {p1}
    Task = {t1}
    Body = {"preparing", "pending", "running", "complete"}
    NoOne = NoOne
    Unborn = Unborn
    Deleted = Deleted
    NoTask = NoTask
    Stubborn = {}
    RetryCount = 2
    MaxLosses = 0
    Lateness = FALSE
    MaxCrashes = 0
SPECIFICATION Spec
PROPERTIES
    OnlyPendingIsClaimed
CHECK_DEADLOCK FALSE
