\* Three concurrent requests of any kind, and sessions that expire.
CONSTANTS
    Handler = {h1, h2, h3}
    Operation = {"trigger", "configure", "delete_job", "delete_build"}
    JobExists = TRUE
    Free = Free
    Lingering = Lingering
    Leaked = Leaked
    ListingSize = 4
    MaxRequests = 4
    MaxExpiries = 1
    MaxRaised = 1
SPECIFICATION Spec
SYMMETRY Symmetric
INVARIANTS
    TypeOK
    OneHolder
    NumberIsFresh
    TicketsPerBuild
CHECK_DEADLOCK FALSE
