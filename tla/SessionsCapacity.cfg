SPECIFICATION Spec
CONSTANTS
    Users = {u1, u2}
    Requests = {p1, p2}
    Loop = Loop
    GpuCount = 1
    Capacity = 1
    MaxStarts = 2
    LostAnswers = FALSE
INVARIANTS
    StartsWithinCapacity
CHECK_DEADLOCK FALSE
