SPECIFICATION ConversionsSpec
CONSTANTS
  t1 = t1
  t2 = t2
  NoCount = NoCount
  Everyone = Everyone
  Threads = {t1, t2}
  Keys = {"tif", "download"}
  Together = {"buildCog", "localize"}
  Often = {"localize"}
  MaxRuns = 2
  FirstCache = 1
  MaxCache = 2
SYMMETRY Symmetry
INVARIANTS
  ConversionsTypeOK
  HandlesClosed
  PublishedWhole
  OldOutputKept
  TempsRemoved
  ReturnsWhole
  CacheRestored
  LocksExclude
