SPECIFICATION SiteSpec
CONSTANTS
    Requests = {q1, q2}
    Users = {"alice", "bob", "mod"}
    Admins = {"mod"}
    Watchers = {"mod"}
    Owner <- MCOwner
    Texts = {"plain", "asks"}
    Mentions <- MCMentions
    MaxRevisions = 1
    MaxReports = 1
    None = None
    Members = {"author", "voter"}
    Author <- MCAuthor
    Bronze <- MCBronze
    Slow = {s1}
    MaxHidden = 1
    Sources <- MCSources
    Broken <- MCBroken
    MaxReleases = 4
SYMMETRY Symmetry
CONSTRAINT Few
INVARIANTS
    ThreadHolds
    OneOpenReport
    CacheFollows
    CurrentServes
PROPERTY EditsKept
CHECK_DEADLOCK FALSE
