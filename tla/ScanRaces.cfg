CONSTANTS
    Dirs <- DeepDirs
    Root = 1
    Parent <- DeepParent
    Above <- DeepAbove
    Files <- DeepFiles
    Home <- DeepHome
    Exclusions <- MCExclusions
    MaxClock = 3
    MaxFaults = 1
    FaultsDuringScan = FALSE
    Purges = FALSE
SPECIFICATION Spec
CHECK_DEADLOCK FALSE
INVARIANTS
    SnapshotSound
    CompleteCatalogs
    FullCleans
