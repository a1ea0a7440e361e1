SPECIFICATION FairSpec
CONSTANTS
  CrashLoopMax = 2
  MaxOrders = 3
  MaxFaults = 5
INVARIANT TypeOK
INVARIANT AtRestIsDead
INVARIANT HeldStaysDown
INVARIANT AutoRestartsBounded
INVARIANT FilesAtRest
PROPERTY StopEnds
CHECK_DEADLOCK FALSE
