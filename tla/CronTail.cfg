\* Two executions, answers with room for two cron events.
CONSTANTS
  r1 = r1
  r2 = r2
  Runs <- TwoRuns
  Limit = 2
  MaxClock = 3
  MayFail = FALSE
SPECIFICATION Spec
SYMMETRY RunSymmetry
INVARIANTS
  TypeOK
  NoGap
  OnlyOpenHeld
PROPERTIES
  NoEventTwice
  StartBeforeFinish
CHECK_DEADLOCK FALSE
