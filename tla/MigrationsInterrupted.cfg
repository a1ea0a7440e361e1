SPECIFICATION Spec
CONSTANTS
  m1 = m1
  m2 = m2
  Agents = {m1, m2}
  Home = m1
  MaxJobs = 1
  Requests <- MovesAndCopies
  Upsets = {"panel"}
  MaxUpsets = 1
  MaxWorld = 0
INVARIANT InterruptedStaysOnSource
CHECK_DEADLOCK FALSE
