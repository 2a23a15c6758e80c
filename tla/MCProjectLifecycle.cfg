SPECIFICATION LiveSpec
CONSTANTS
  Projects = {"p", "q"}
  Clients = {c1, c2}
  Calls <- MCCalls
  None = None
  Requests <- MCRequests
  Scenarios <- MCScenarios
INVARIANTS
  OneConnection
  NoOrphans
PROPERTIES
  CallsReturn
CHECK_DEADLOCK FALSE
