CONSTANTS
    Callers = {c1, v}
    Libraries = {1}
    Requests <- ClientRequests
    MaxJobs = 2
    MaxRetainedJobs = 1
    MaxRestarts = 0
    Keys = {k1, k2}
    NoKey = NoKey
    MaxRequests = 1
    Windows = {w1, w2}
    MaxGeneration = 1
    MaxViews = 2
    ViewThread = v
SPECIFICATION MCSpec
SYMMETRY WindowSymmetry
CHECK_DEADLOCK FALSE
INVARIANTS
    RequestsHonoured
PROPERTIES
    ManagerRespected
    ViewsHonoured
