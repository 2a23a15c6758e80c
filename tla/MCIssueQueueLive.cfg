SPECIFICATION FairSpec
CONSTANTS
  Issues = {i1, i2}
  Projects = {p1}
  ProjectOf <- OneProject
  Rows = {e1, e2}
  Tasks = {t1, t2}
  None = None
  Requests = {"add", "force", "finished", "enable"}
PROPERTIES
  HandlersEnd
  DispatcherServes
