\* The promise of the header, for the lock protocol alone (no eviction).
SPECIFICATION LockSpec
CONSTANTS
  Clients = {c1, c2, c3}
  Inodes = {i1, i2, i3}
  NoInode = NoInode
  Eviction = FALSE
SYMMETRY Symmetry
INVARIANT MutualExclusion
