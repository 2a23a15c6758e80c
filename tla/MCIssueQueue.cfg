SPECIFICATION Spec
CONSTANTS
  Issues = {i1, i2, i3}
  Projects = {p1, p2}
  ProjectOf <- EachItsProject
  Rows = {e1, e2}
  Tasks = {t1, t2}
  None = None
  Requests = {"add", "remove", "force", "finished", "enable", "disable", "terminal", "restart"}
SYMMETRY QueueSymmetry
INVARIANTS
  OnePendingPerIssue
  TakenIsFirst
PROPERTIES
  AppendsAtTail
  ShownInOrder
  TakenIsConsumed
