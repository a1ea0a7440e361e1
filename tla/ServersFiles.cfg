SPECIFICATION Spec
CONSTANTS
  CrashLoopMax = 1
  MaxOrders = 3
  MaxFaults = 0
INVARIANT FilesReplacedAtRest
CHECK_DEADLOCK FALSE
