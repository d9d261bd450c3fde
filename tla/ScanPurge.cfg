CONSTANTS
    Dirs <- MCDirs
    Root = 1
    Parent <- MCParent
    Above <- MCAbove
    Files <- MCFiles
    Home <- MCHome
    Exclusions <- MCExclusions
    MaxClock = 3
    MaxFaults = 0
    FaultsDuringScan = FALSE
    Purges = TRUE
SPECIFICATION Spec
CHECK_DEADLOCK FALSE
INVARIANTS
    CompleteCatalogs
