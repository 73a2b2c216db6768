SPECIFICATION FairSpec
CONSTANTS
    Notebooks = {n1, n2}
    Learners = {}
    SessionUsers = {}
    Schedules = {}
    Null = Null
    MaxRuns = 2
    MaxAttempts = 0
    MaxTime = 1
    MaxCrashes = 0
    BatchLimit = 2
    MaxFailures = 1
    GpuCount = 1
    Capacity = 1
    Faults = {}
PROPERTIES
    CancelIsFinal
CHECK_DEADLOCK FALSE
