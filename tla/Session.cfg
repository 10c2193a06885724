CONSTANTS
    Sessions = {s1}
    Workers = {w1, w2}
    Users = {u1}
    NoSession = NoSession
    MaxSend = 2
SPECIFICATION LiveSpec
INVARIANTS IInv NoIoAfterDelete RecvBufferHasOneOwner SendInOrder
PROPERTIES NoSendAfterFin LifecycleSpec ClosedIsEliminated ResumedReceives
