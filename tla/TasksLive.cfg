SPECIFICATION FairSpec
CONSTANTS
  o1 = o1
  o2 = o2
  Orders = {o1}
  Scheduled = {"s1"}
  OrderPhases = {"ready"}
  MaxCancels = 0
  MaxFaults = 1
  Faults = {"cut", "crash", "restart"}
PROPERTY EveryTaskSettles
CHECK_DEADLOCK FALSE
