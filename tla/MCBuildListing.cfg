\* Finding: a job with more builds than listdir can return.
CONSTANTS
    Handler = {h1}
    Operation = {"trigger"}
    JobExists = TRUE
    Free = Free
    Lingering = Lingering
    Leaked = Leaked
    ListingSize = 2
    MaxRequests = 4
    MaxExpiries = 0
    MaxRaised = 0
SPECIFICATION Spec
INVARIANTS
    NumberIsFresh
CHECK_DEADLOCK FALSE
