SPECIFICATION IndexSpec
CONSTANTS
  Adders = {a1, a2}
  Files = {f1}
  Hashes = {h1, h2}
  Remover = Remover
  None = None
  Skipped = Skipped
  MaxPaths = 1
  MaxRetries = 1
  MaxTime = 3
  Coarse = FALSE
SYMMETRY IndexSymmetry
INVARIANTS
  IndexTypeOK
  StaleRowsShow
PROPERTIES
  RowsMoveForward
