\* Two subtasks of any kinds, and two failing attempts.
CONSTANTS
    Length = 2
    Kind = {"git", "copy", "publish", "shell"}
    MaxOutput = 2
    MaxFiles = 2
    MaxFaults = 2
    Link = Link
    Torn = Torn
SPECIFICATION FairSpec
INVARIANTS
    TypeOK
    WorkIsKept
    OutputOnce
    ArtifactsAreNamed
PROPERTIES
    ScriptsEnd
CHECK_DEADLOCK FALSE
