SPECIFICATION IndexSpec
CONSTANTS
  Adders = {a1}
  Files = {f1}
  Hashes = {h1, h2}
  Remover = Remover
  None = None
  Skipped = Skipped
  MaxPaths = 1
  MaxRetries = 1
  MaxTime = 2
  Coarse = FALSE
PROPERTIES
  ChangedFilesHeal
