CONSTANTS
    Dirs <- MCDirs
    Root = 1
    Parent <- MCParent
    Above <- MCAbove
    Files <- MCFiles
    Home <- MCHome
    Exclusions <- MCExclusions
    MaxClock = 2
    MaxFaults = 5
    FaultsDuringScan = TRUE
    Purges = TRUE
SPECIFICATION Spec
CHECK_DEADLOCK FALSE
PROPERTIES
    DeletesOnlyMissing
