\* Finding: one lost reply and a ticket is worked on twice.
CONSTANTS
    Worker = {w1, w2}
    Poster = {p1}
    Task = {t1}
    Body = {"preparing", "pending", "running", "complete"}
    NoOne = NoOne
    Unborn = Unborn
    Deleted = Deleted
    NoTask = NoTask
    Stubborn = {}
    RetryCount = 2
    MaxLosses = 1
    Lateness = FALSE
    MaxCrashes = 0
SPECIFICATION Spec
INVARIANTS
    OneHolder
CHECK_DEADLOCK FALSE
