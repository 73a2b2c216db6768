CONSTANTS
    Users = {u1, u2}
    Tabs = {t1, t2}
    TabUser <- MCTabUser
    Linked = {u1, u2}
    Lease = 1
    Operations = {"open"}
    None = None
SPECIFICATION FairSpec
PROPERTY AbandonedGo
CHECK_DEADLOCK FALSE
