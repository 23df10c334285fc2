\* Fewer losses than attempts, and no other worker to compete with.
CONSTANTS
    Worker = {w1}
    Poster = {p1, p2}
    Task = {t1, t2, t3}
    Body = {"preparing", "pending", "running", "complete"}
    NoOne = NoOne
    Unborn = Unborn
    Deleted = Deleted
    NoTask = NoTask
    Stubborn = {}
    RetryCount = 2
    MaxLosses = 1
    Lateness = FALSE
    MaxCrashes = 0
SPECIFICATION FairSpec
PROPERTIES
    PostedIsCompleted
CHECK_DEADLOCK FALSE
