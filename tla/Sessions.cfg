SPECIFICATION FairSpec
CONSTANTS
    Users = {u1}
    Requests = {p1, p2}
    Loop = Loop
    GpuCount = 1
    Capacity = 1
    MaxStarts = 2
    LostAnswers = TRUE
PROPERTIES
    StoppedIsReleased
