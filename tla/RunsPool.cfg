SPECIFICATION Spec
CONSTANTS
    Notebooks = {n1, n2}
    Learners = {u1}
    SessionUsers = {v1}
    Schedules = {}
    Null = Null
    MaxRuns = 2
    MaxAttempts = 1
    MaxTime = 1
    MaxCrashes = 1
    BatchLimit = 2
    MaxFailures = 2
    GpuCount = 1
    Capacity = 1
    Faults = {"db", "leak"}
SYMMETRY Symmetric
INVARIANT UsageMatchesRows
PROPERTIES
    EndedStaysEnded
    PoolSpec
CHECK_DEADLOCK FALSE
