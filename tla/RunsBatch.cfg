SPECIFICATION MCFairSpec
CONSTANTS
    Notebooks = {n1}
    Learners = {l1, l2, l3}
    SessionUsers = {v1}
    Schedules = {s1}
    Null = Null
    MaxRuns = 2
    MaxAttempts = 3
    MaxTime = 2
    MaxCrashes = 1
    BatchLimit = 2
    MaxFailures = 1
    GpuCount = 1
    Capacity = 1
    Faults = {}
PROPERTY CpuWorkNeverWaits
CHECK_DEADLOCK FALSE
