SPECIFICATION Spec
CONSTANTS
  o1 = o1
  o2 = o2
  Orders = {o1, o2}
  Scheduled = {}
  OrderPhases = {"listing", "ready"}
  MaxCancels = 1
  MaxFaults = 1
  Faults = {"cut", "crash", "restart", "timeout"}
SYMMETRY OrderSymmetry
INVARIANT TypeOK
INVARIANT SuccessIsReal
INVARIANT ForgottenIsSettled
INVARIANT AgentPrevails
INVARIANT RunningIsWritten
INVARIANT OneOrderAtATime
PROPERTY FinalIsFinal
CHECK_DEADLOCK FALSE
