SPECIFICATION Spec
CONSTANTS
  m1 = m1
  m2 = m2
  Agents = {m1, m2}
  Home = m1
  MaxJobs = 2
  Requests <- MovesAndCopies
  Upsets = {"panel", "agent", "cut", "order", "exit"}
  MaxUpsets = 1
  MaxWorld = 1
CONSTRAINT Apart
INVARIANT TypeOK
INVARIANT OwnerHasFiles
INVARIANT WorldFollows
INVARIANT CloneComplete
INVARIANT NeverStranded
INVARIANT CopyRowRemoved
CHECK_DEADLOCK FALSE
