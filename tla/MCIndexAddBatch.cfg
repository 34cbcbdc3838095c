SPECIFICATION FairIndexSpec
CONSTANTS
  Adders = {a1}
  Files = {f1}
  Hashes = {h1, h2}
  Remover = Remover
  None = None
  Skipped = Skipped
  MaxPaths = 3
  MaxRetries = 1
  MaxTime = 2
  Coarse = FALSE
INVARIANTS
  CompletenessContract
PROPERTIES
  EntriesAreCommitted
  CallsReturn
