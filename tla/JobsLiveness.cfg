CONSTANTS
    Callers = {c1}
    Libraries = {1}
    Requests <- AllRequests
    MaxJobs = 2
    MaxRetainedJobs = 1
    MaxRestarts = 2
SPECIFICATION MCFairSpec
CHECK_DEADLOCK FALSE
PROPERTIES
    EveryJobEnds
    RecordKept
