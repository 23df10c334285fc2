\* A build of two steps; three faults, a deletion, a crash.
CONSTANTS
    Length = 2
    Task = {t1, t2, t3, t4}
    Worker = {w1}
    Body <- SubtaskBody
    NoOne = NoOne
    Unborn = Unborn
    Deleted = Deleted
    NoTask = NoTask
    MaxLosses = 2
    MaxKept = 1
    MaxReruns = 1
    MaxAbandoned = 1
    MaxFaults = 3
SPECIFICATION FairSpec
INVARIANTS
    TypeOK
    RecordTellsTruth
    StepsInOrder
    StraysBoundedByFaults
    TicketStaysUntilRecorded
    DownstreamAfterSuccess
PROPERTIES
    ImplementsBuildRun
    EveryBuildEnds
CHECK_DEADLOCK FALSE
