SPECIFICATION Spec
CONSTANTS
    N = 1
    MaxFaults = 1
    MaxPending = 1
    AckBatch = 1
INVARIANT
    NothingMissed
CHECK_DEADLOCK FALSE
