SPECIFICATION Spec
CONSTANTS
  Projects = {"p1", "p2"}
  MaxStarts = 3
  Skills = {s1, s2}
  NoSkill = NoSkill
  SkillCalls = {c1, c2, c3}
  MaxEdits = 2
  Ids = {a, b}
  NoId = NoId
  Kept = {k1, k2}
  MaxFolder = 6
  Scenarios <- MCScenarios
INVARIANTS
  TwoStartsSeal
  SkillsAgree
  RightStays
CHECK_DEADLOCK FALSE
