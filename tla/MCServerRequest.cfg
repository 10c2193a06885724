CONSTANTS
    Clients = {c1}
    Links = {l1, l2}
    None = None
    Width = 3
    Duration = 1
    MaxIssued = 3
SPECIFICATION Spec
SYMMETRY Symmetry
INVARIANTS TypeOK RefsAccounted NoDangling AnswerFindsItsRequest KeysInStep EmptyAfterRemoveAll MoveEndsWithAnswer
CHECK_DEADLOCK FALSE
