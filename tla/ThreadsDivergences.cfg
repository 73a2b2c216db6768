SPECIFICATION MCSpec
CONSTANTS
    q1 = q1
    q2 = q2
    Requests = {q1, q2}
    Users = {"alice", "bob", "mod"}
    Admins = {"mod"}
    Watchers = {"mod"}
    Owner <- MCOwner
    Texts = {"plain", "asks"}
    Mentions <- MCMentions
    MaxRevisions = 1
    MaxReports = 1
    None = None
SYMMETRY Symmetry
CHECK_DEADLOCK FALSE
INVARIANTS CommentsHaveTopic ToldOnce
PROPERTY TopicEditsKept
