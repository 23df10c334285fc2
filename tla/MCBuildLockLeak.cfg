\* Finding: a trigger for a missing job keeps the job's lock.
CONSTANTS
    Handler = {h1, h2}
    Operation = {"trigger", "configure"}
    JobExists = FALSE
    Free = Free
    Lingering = Lingering
    Leaked = Leaked
    ListingSize = 2
    MaxRequests = 2
    MaxExpiries = 0
    MaxRaised = 0
SPECIFICATION FairSpec
PROPERTIES
    LockGetsFree
CHECK_DEADLOCK FALSE
