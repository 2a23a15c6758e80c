SPECIFICATION FairSpec
CONSTANTS
  Issues = {i}
  Memories = {m}
  Files = {}
  Heads = {h1}
  Texts = {t1}
  Blank = Blank
  None = None
  Deleted = Deleted
  BatchLimit = 2
  FlushLimit = 1
  MaxRetries = 2
  Marks = {"deleted"}
  Events = {"crash", "disk", "sqlite", "admin"}
PROPERTIES
  RefinesDurableStore
  WriterDrains
