SPECIFICATION Spec
CONSTANTS
  Pipelines = {"p", "q"}
  StepIds <- MCSteps
  Agents = {"a", "b"}
  Requests <- MCRequests
  Events = {"step_rejected", "step_completed"}
  Actions = {"redirect", "set_issue_status", "emit_event"}
  Statuses = {"Planned", "Finished"}
  NoTarget = NoTarget
  Scenarios <- MCScenarios
INVARIANTS
  RulesStay
  RejectedToTarget
PROPERTIES
  ImportRestores
CHECK_DEADLOCK FALSE
