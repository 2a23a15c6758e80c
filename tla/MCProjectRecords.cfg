SPECIFICATION RecordsSpec
CONSTANTS
  Memories = {m1, m2, m3}
  Files = {"call.ogg", "notes.txt", "logo.png"}
  KindOf <- MCKindOf
  Absent = Absent
  Ghost = Ghost
  NoMemory = NoMemory
  Linkers = {c1}
  Mixtures = {{"parents", "crash"}, {"parents", "list"}, {"links"},
              {"parents", "titles", "list", "crash", "two"}, {"links", "list", "crash", "two"},
              {"audio", "crash"}, {"document", "crash"}, {"image", "document"}}
SYMMETRY Symmetry
INVARIANTS
  ParentsAcyclic
  NothingDangles
  RamIsFiled
CHECK_DEADLOCK FALSE
