SPECIFICATION FairSpec
CONSTANTS
  Versions = {1, 2, 3}
  First = 1
  Broken = {2}
  Runtimes = {1}
  BrokenRuntimes = {1}
  Upsets = {"blackout", "crash", "corrupt"}
  MaxUpsets = 1
  Readings = 2
CONSTRAINT Orderly
INVARIANT TypeOK
INVARIANT SettledIsProven
INVARIANT OutcomeIsTrue
INVARIANT LastOutcomeKept
PROPERTY Returns
