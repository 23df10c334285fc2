\* All requests, two at a time, with a failing call or a dying process.
CONSTANTS
    Request = {r1, r2, r3}
    Operation = {"get_state", "get_console", "get_workspace", "get_artifact",
                 "put_state", "append_console", "put_workspace", "post_artifact",
                 "put_artifact", "trigger", "delete_workspace", "delete_artifact",
                 "delete_build"}
    Trigger = Trigger
    NoFile = NoFile
    Backend = "ceph"
    ListingSize = 1
    MaxActive = 2
    MaxErrors = 1
SPECIFICATION Spec
SYMMETRY Symmetric
INVARIANTS
    TypeOK
    QuietRequestsSucceed
    ReadsSeeLastWrite
    AppendsAreKept
PROPERTIES
    DeletionIsThorough
CHECK_DEADLOCK FALSE
