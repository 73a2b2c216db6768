SPECIFICATION Spec
CONSTANTS
    Notebooks = {n1}
    Learners = {}
    SessionUsers = {}
    Schedules = {s1, s2}
    Null = Null
    MaxRuns = 2
    MaxAttempts = 0
    MaxTime = 2
    MaxCrashes = 1
    BatchLimit = 2
    MaxFailures = 2
    GpuCount = 1
    Capacity = 1
    Faults = {}
SYMMETRY Symmetric
INVARIANTS
    ActiveScheduleFires
    RowsConsistent
PROPERTY ScanObeys
CHECK_DEADLOCK FALSE
