SPECIFICATION FairSpec
CONSTANTS
    N = 2
    MaxFaults = 1
    MaxPending = 1
    AckBatch = 2
PROPERTIES
    DurableIsClaimed
    JournalDrains
CHECK_DEADLOCK FALSE
