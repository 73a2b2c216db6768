SPECIFICATION Spec
CONSTANTS
    Users = {u1, u2}
    Teams = {t1}
    Null = Null
    Timelines <- MCTimelines
    Scores <- MCScores
    Rescorings <- MCRescorings
    Limits <- MCLimits
    Notebooks = {1}
    MaxSubmissions = 2
    MaxCommits = 1
    MaxBanned = 1
    MaxTime = 2
SYMMETRY Symmetric
CONSTRAINT Bounded
INVARIANTS
    EntriesSettled
    ResultsCurrent
PROPERTIES
    LimitsKept
    CommitScoredOnce
CHECK_DEADLOCK FALSE
