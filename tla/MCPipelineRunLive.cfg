SPECIFICATION LiveSpec
CONSTANTS
  NSteps = 2
  MaxRuns = 1
  Tasks = {t1, t2}
  MaxStarting = 1
  MaxCalls = 1
  MaxRestarts = 1
  Requests = {"pause", "resume", "cancel", "reject", "spawn"}
PROPERTIES
  RunEnds
CHECK_DEADLOCK FALSE
