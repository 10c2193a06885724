CONSTANTS
    Links = {l1, l2}
    None = None
    Base = 1
    Margin = 1
    MaxItems = 2
    MaxInFlight = 0
    MaxCrashes = 0
    MaxFailures = 0
SPECIFICATION Spec
INVARIANT HeldLinkIsKnown
CHECK_DEADLOCK FALSE
