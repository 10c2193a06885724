CONSTANTS
    Clients = {c1}
    Links = {l1, l2}
    None = None
    Width = 3
    Duration = 2
    MaxIssued = 2
SPECIFICATION LiveSpec
PROPERTIES RequestsEnd ClosedClientEnds
CHECK_DEADLOCK FALSE
