\* Two first artifacts at the same time, on local storage: one is refused.
CONSTANTS
    Request = {r1, r2}
    Operation = {"get_state", "get_console", "get_workspace", "get_artifact",
                 "put_state", "append_console", "put_workspace", "post_artifact",
                 "put_artifact", "trigger", "delete_workspace", "delete_artifact",
                 "delete_build"}
    Trigger = Trigger
    NoFile = NoFile
    Backend = "local"
    ListingSize = 1
    MaxActive = 2
    MaxErrors = 1
SPECIFICATION Spec
SYMMETRY Symmetric
INVARIANTS
    QuietRequestsSucceed
CHECK_DEADLOCK FALSE
