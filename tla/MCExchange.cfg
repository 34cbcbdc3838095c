SPECIFICATION ExchangeRunSpec
CONSTANTS
  Clients = {c1, c2}
  Registry = Registry
  Files <- ExchangeFiles
  Folders <- ExchangeFolders
  Hashes = {h1, h2}
  Dir = Dir
  Ids = {i1}
  None = None
  MaxEdits = 2
  Fetching = {"DontMerge"}
  MaxJobs = 2
SYMMETRY ExchangeSymmetry
CHECK_DEADLOCK FALSE
INVARIANTS
  ExchangeTypeOK
  RegistryHasItsFiles
PROPERTIES
  ApplyReconciles
  PushedStampIsTheRegistrys
  RemovedOnlyIfSeen
  OursKept
