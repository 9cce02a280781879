\* Two executions, answers with room for one cron event, a polling client.
CONSTANTS
  r1 = r1
  r2 = r2
  Runs <- TwoRuns
  Limit = 1
  MaxClock = 1
  MayFail = FALSE
SPECIFICATION FairSpec
PROPERTIES
  EndsArrive
CHECK_DEADLOCK FALSE
