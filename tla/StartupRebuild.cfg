SPECIFICATION FairSpec
CONSTANTS
    Columns = {"role", "hidden"}
    MaxCrashes = 3
PROPERTY AllStartsEnd
