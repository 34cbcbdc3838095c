SPECIFICATION MaintRunSpec
CONSTANTS
  Workers = {w1, w2}
  Names <- MaintNames
  Alike <- MaintAlike
  Paths <- MaintPaths
  Hashes = {h1, h2}
  Keys = {"note", "notes"}
  Singular = {"note"}
  Ids <- MaintIds
  Dumps <- MaintDumps
  None = None
  NoHash = NoHash
  MaxTime = 1
  MaxOps = 2
  MaxEvents = 1
SYMMETRY MaintSymmetry
CHECK_DEADLOCK FALSE
INVARIANTS
  MaintTypeOK
PROPERTIES
  SingularKeysStayUnique
  RecordsKeepTheirEntries
  FolderMovesKeepFiles
  EvictedOnlyIfDoubled
  ScansTellTheTruth
