SPECIFICATION FairSpec
CONSTANTS
    N = 5
    Declared = 4
    Window = 2
    MaxFaults = 3
    Faults <- FaultKinds
INVARIANTS
    TypeOK
    NothingLost
    WindowRespected
    NoGap
    NeverOutOfWindow
    VerifiedIsWhole
PROPERTIES
    UploadEnds
CHECK_DEADLOCK FALSE
