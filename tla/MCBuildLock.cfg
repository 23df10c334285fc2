\* Liveness of the lock of a job that is never deleted.
CONSTANTS
    Handler = {h1, h2}
    Operation = {"trigger", "configure", "delete_build"}
    JobExists = TRUE
    Free = Free
    Lingering = Lingering
    Leaked = Leaked
    ListingSize = 1
    MaxRequests = 3
    MaxExpiries = 1
    MaxRaised = 1
SPECIFICATION FairSpec
PROPERTIES
    LockGetsFree
CHECK_DEADLOCK FALSE
