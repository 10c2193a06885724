CONSTANTS
    PerPulse = 1
    MultiThread = TRUE
    Burst = 2
    MaxPackets = 12
SPECIFICATION LiveSpec
INVARIANTS OneThreadHandles InOrder
PROPERTIES NothingAfterRefusal SuspensionEnds ArrivedIsHandled
CHECK_DEADLOCK FALSE
