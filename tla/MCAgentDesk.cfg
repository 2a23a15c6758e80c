SPECIFICATION LiveSpec
CONSTANTS
  Terms = {t1, t2, t3}
  MaxOutput = 2
  MaxBuffer = 1
  Absent = Absent
  None = None
  Sockets = {"w1", "w2"}
  Callers <- MCCallers
  Scenarios <- MCScenarios
  Asks = {q1, q2}
  Answers = {"yes", "no"}
  NoAnswer = NoAnswer
  Events = {e1, e2}
  Browsers = {"b1", "b2", "b3"}
  NoSocket = NoSocket
  Changes = {c1, c2}
INVARIANTS
  OutputKept
  OnePerPlace
  PendingIsAwaited
  HeardOnce
  ClientsHear
  ConfigFollows
  ShownIsCurrent
  ShownOnce
PROPERTIES
  ExitIsNoticed
CHECK_DEADLOCK FALSE
