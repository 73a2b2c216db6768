SPECIFICATION Spec
CONSTANTS
    Notebooks = {n1}
    Learners = {}
    SessionUsers = {}
    Schedules = {s1}
    Null = Null
    MaxRuns = 2
    MaxAttempts = 0
    MaxTime = 2
    MaxCrashes = 0
    BatchLimit = 2
    MaxFailures = 1
    GpuCount = 1
    Capacity = 1
    Faults = {}
INVARIANTS
    OneActiveRun
CHECK_DEADLOCK FALSE
