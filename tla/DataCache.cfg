CONSTANTS
    Keys = {1, 2}
    NumParts = 2
    OfflineParts = {1}
    UnflaggedParts = {2}
    None = None
    Stamped = TRUE
    MinUpdate = 0
    MaxData = 1
    MaxFailures = 2
SPECIFICATION LiveSpec
INVARIANTS OneCopy NoLostUpdate
PROPERTY ChangeIsSaved
