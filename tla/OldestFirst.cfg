CONSTANTS
    Keys = {1, 2}
    NumParts = 1
    OfflineParts = {1}
    UnflaggedParts = {1}
    None = None
    Stamped = FALSE
    MinUpdate = 0
    MaxData = 1
    MaxFailures = 0
SPECIFICATION LiveSpec
PROPERTY ChangeIsSaved
