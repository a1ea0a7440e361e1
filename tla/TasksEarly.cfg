SPECIFICATION Spec
CONSTANTS
  o1 = o1
  o2 = o2
  Orders = {o1}
  Scheduled = {}
  OrderPhases = {"up", "listing", "ready"}
  MaxCancels = 0
  MaxFaults = 0
  Faults = {}
INVARIANT AgentAlwaysPrevails
CHECK_DEADLOCK FALSE
