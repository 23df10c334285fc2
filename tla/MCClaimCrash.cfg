\* Finding: the ticket of a worker that died stays claimed.
CONSTANTS
    Worker = {w1, w2}
    Poster = {p1}
    Task = {t1}
    Body = {"preparing", "pending", "running", "complete"}
    NoOne = NoOne
    Unborn = Unborn
    Deleted = Deleted
    NoTask = NoTask
    Stubborn = {}
    RetryCount = 2
    MaxLosses = 0
    Lateness = FALSE
    MaxCrashes = 1
SPECIFICATION FairSpec
PROPERTIES
    PostedIsCompleted
CHECK_DEADLOCK FALSE
