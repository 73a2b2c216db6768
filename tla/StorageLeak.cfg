SPECIFICATION Spec
CONSTANTS
    Sessions = {s1}
    Assemblers = {a1}
    Paths = {p1}
    CsvPaths = {p1}
    None = None
    MaxFiles = 3
    MaxVersions = 3
    Quotas = {3}
    MaxOther = 0
    MaxActive = 1
    MaxCrashes = 0
    Budget = 7
    MaxInFlight = 2
    Faults = {}
INVARIANT SpaceFreed
CHECK_DEADLOCK FALSE
