\* Three concurrent requests on one ticket, claimed by two workers.
CONSTANTS
    Task = {t1}
    Worker = {w1, w2}
    Body = {b1}
    NoOne = NoOne
    Unborn = Unborn
    Deleted = Deleted
    Handler = {h1, h2, h3}
    Garbled = Garbled
    Nothing = Nothing
    MaxRequests = 5
SPECIFICATION Spec
SYMMETRY Symmetric
INVARIANTS
    TypeOK
    AckedClaimHolds
    LockedHasCause
PROPERTIES
    NoLostUpdate
    RepositorySpec
CHECK_DEADLOCK FALSE
