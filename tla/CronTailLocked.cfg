\* The re-read of an execution may fail, as it does when the ledger is locked.
CONSTANTS
  r1 = r1
  r2 = r2
  Runs <- TwoRuns
  Limit = 1
  MaxClock = 1
  MayFail = TRUE
SPECIFICATION Spec
SYMMETRY RunSymmetry
PROPERTIES
  NoEventTwice
CHECK_DEADLOCK FALSE
