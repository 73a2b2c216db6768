SPECIFICATION MCSpec
CONSTANTS
    Lessons = {l1}
    Exercises = {e1, e2}
    MaxAttempts = 2
    MaxHints = 1
    None = None
    task = task
    model = model
    Tasks = {task}
    Models = {model}
    Collections = {c1, c2}
    MaxVersions = 1
    Configurations <- MCConfigurations
    MaxRuns = 2
    RunsPerUser = 1
    Columns = {"role", "hidden"}
    MaxCrashes = 3
INVARIANTS
    ProgressKept
    BoardHidesPrivate
    MadeOnce
PROPERTIES
    CertificateComes
    RunsServed
    StartsEnd
CHECK_DEADLOCK FALSE
