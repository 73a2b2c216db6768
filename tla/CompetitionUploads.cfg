SPECIFICATION FairSpec
CONSTANTS
    Users = {u1}
    Teams = {}
    Null = Null
    Timelines <- MCTimelines
    Scores <- MCScores
    Rescorings <- MCRescorings
    Limits <- MCLimits
    Notebooks = {1}
    MaxSubmissions = 1
    MaxCommits = 0
    MaxBanned = 0
    MaxTime = 2
PROPERTIES UploadsEnd
CHECK_DEADLOCK FALSE
