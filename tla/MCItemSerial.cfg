CONSTANTS
    Links = {l1, l2, l3}
    None = None
    Base = 1
    Margin = 1
    MaxItems = 2
    MaxInFlight = 0
    MaxCrashes = 2
    MaxFailures = 1
SPECIFICATION Spec
SYMMETRY Symmetry
INVARIANTS SerialsUnique UsedLinkIsKnown
PROPERTY RowNeverFalls
CHECK_DEADLOCK FALSE
