SPECIFICATION LiveSpec
CONSTANTS
  Issues = {1, 2, 3}
  Projects = {1, 2}
  ProjectOf <- MCProjectOf
  TaskIds = {1, 2, 3, 4}
  MaxTasks = 2
  MaxOrder = 2
  Callers = {c1, c2}
  Worked = {1}
  MaxHooks = 1
  Scenarios = {{"status", "force", "fail"}, {"status", "tasks"}, {"force", "override"},
               {"tasks", "edits", "delete", "fail"}, {"blocks", "delete"},
               {"related", "delete", "archive"}}
  Adders = {a1, a2}
  NoIssue = 0
INVARIANTS
  CompletedOnce
  FinishIsAnnounced
  AllTasksAnnounced
  BlocksAcyclic
PROPERTIES
  CallsEnd
CHECK_DEADLOCK FALSE
