SPECIFICATION MCSpec
CONSTANTS
    Users = {u1}
    Tabs = {t1, t2, t3}
    TabUser <- MCTabUser
    Linked = {u1}
    Lease = 2
    Operations = {"open", "save", "discard", "putDraft", "putBook", "openBook", "delete",
                  "resolve"}
    Documents = {d1, d2}
    Requests = {r1, r2}
    MaxKernels = 1
    Backlog = 2
    None = None
PROPERTIES
    DraftsKept
    AbandonedGoUnlessStuck
    CellsServed
CHECK_DEADLOCK FALSE
