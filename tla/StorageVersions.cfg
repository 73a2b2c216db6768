SPECIFICATION Spec
CONSTANTS
    Sessions = {s1}
    Assemblers = {a1}
    Paths = {p1, p2}
    CsvPaths = {p1}
    None = None
    MaxFiles = 3
    MaxVersions = 3
    Quotas = {2, 3}
    MaxOther = 1
    MaxActive = 1
    MaxCrashes = 0
    Budget = 6
    MaxInFlight = 2
    Faults = {"digest"}
INVARIANTS
    VersionsWhole
    PrimaryCurrent
PROPERTIES
    HistorySpec
    CapacityKept
CHECK_DEADLOCK FALSE
