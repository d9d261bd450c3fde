CONSTANTS
    Callers = {c1}
    Libraries = {1, 2}
    Requests <- QueueRequests
    MaxJobs = 3
    MaxRetainedJobs = 2
    MaxRestarts = 0
SPECIFICATION QueueSpec
CHECK_DEADLOCK FALSE
INVARIANTS
    RegistryInv
    OneQueuedScanPerLibrary
    NoStrandedQueue
    ShutdownReachesEveryJob
PROPERTIES
    TerminalIsFinal
    CancelledNeverCompletes
    SerialExecution
