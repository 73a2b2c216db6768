SPECIFICATION MCSpec
CONSTANTS
    Notebooks = {n1, n2}
    Users = {u1, u2}
    Competitions = {c1}
    Sample = n1
    Author = u1
    Edits = 1
    Commits = 1
    None = None
    Files = {a, b, c}
    InteractiveFiles = 2
    MaxVersions = 2
    Writers = {n, m}
    Names = {"f"}
    Contents = {x, y}
    MaxRows = 2
    MaxKeys = 2
SYMMETRY Symmetry
PROPERTY KernelsFindOneVersion
CHECK_DEADLOCK FALSE
