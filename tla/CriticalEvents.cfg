SPECIFICATION Spec
CONSTANTS
    N = 3
    MaxFaults = 1
    MaxPending = 2
    AckBatch = 2
INVARIANTS
    TypeOK
    AtMostOnce
    AckedOnlyIfClaimed
    NothingForgotten
PROPERTIES
    ClaimedInOrder
    Implements
CHECK_DEADLOCK FALSE
