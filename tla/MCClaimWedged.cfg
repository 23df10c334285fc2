\* Finding: a worker reports to a deleted ticket for ever.
CONSTANTS
    Worker = {w1, w2}
    Poster = {p1}
    Task = {t1}
    Body = {"preparing", "pending", "running", "complete"}
    NoOne = NoOne
    Unborn = Unborn
    Deleted = Deleted
    NoTask = NoTask
    Stubborn = {w1, w2}
    RetryCount = 2
    MaxLosses = 0
    Lateness = FALSE
    MaxCrashes = 0
SPECIFICATION FairSpec
PROPERTIES
    ReportsEnd
CHECK_DEADLOCK FALSE
