CONSTANTS
    Logins = {l1, l2}
    Chars = {c1}
    Games = {g1, g2}
    None = None
    MaxMoves = 1
    MaxCuts = 1
    MaxFailures = 1
SPECIFICATION LiveSpec
INVARIANTS DataHasOwner GameHasData PlayerOwnsSession MoveBeforeEntry
PROPERTY KillEnds
CHECK_DEADLOCK FALSE
