SPECIFICATION Spec
CONSTANTS
  NSteps = 3
  MaxRuns = 1
  Tasks = {t1, t2}
  MaxStarting = 1
  MaxCalls = 2
  MaxRestarts = 1
  Requests = {"exit", "remove", "pause", "resume", "cancel", "reject", "spawn"}
SYMMETRY TaskSymmetry
INVARIANTS
  StepsBelowDone
  
  RunningIsServed
PROPERTIES
  StoppedStays
CHECK_DEADLOCK FALSE
