CONSTANTS
    Users = {u1}
    Tabs = {t1, t2}
    TabUser <- MCTabUser
    Linked = {u1}
    Lease = 2
    Operations = {"open", "save", "discard", "putDraft", "putBook", "openBook", "delete"}
    None = None
SPECIFICATION FairSpec
PROPERTY ImportNeverReplaces
CHECK_DEADLOCK FALSE
