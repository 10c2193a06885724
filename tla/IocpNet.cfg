CONSTANTS
    Accepts = {a1, a2}
    Workers = {w1, w2}
    Sessions = {s1}
    None = None
    MaxConnects = 1
    MaxFailures = 1
SPECIFICATION LiveSpec
INVARIANTS CountIsTrue AcceptsArePending ListenerOutlivesAccepts ManagerOutlivesSessions PolicyOutlivesUse PolicyIsFreed
PROPERTY DestroyEnds
CHECK_DEADLOCK FALSE
