CONSTANTS
    Clients = {c1}
    Links = {l1}
    None = None
    Width = 3
    Duration = 1
    MaxIssued = 3
SPECIFICATION Spec
INVARIANT UnknownAnswerIsLogged
CHECK_DEADLOCK FALSE
