SPECIFICATION FairSpec
CONSTANTS
    Sessions = {s1}
    Assemblers = {a1, a2}
    Paths = {p1}
    CsvPaths = {p1}
    None = None
    MaxFiles = 2
    MaxVersions = 2
    Quotas = {2}
    MaxOther = 0
    MaxActive = 1
    MaxCrashes = 1
    Budget = 5
    MaxInFlight = 2
    Faults = {"slow", "rmtree"}
INVARIANT BlobsAccounted
PROPERTIES
    UploadsSettle
    CleanupEnds
CHECK_DEADLOCK FALSE
