\* Three clients with evictions: every property, liveness included, so no symmetry.
SPECIFICATION FairLockSpec
CONSTANTS
  Clients = {c1, c2, c3}
  Inodes = {i1, i2, i3}
  NoInode = NoInode
  Eviction = TRUE
INVARIANTS
  TypeOK
  KernelLockOfOne
  ExclusiveUnlessOrphaned
PROPERTIES
  RefusedOnlyWhileHeld
  ExclusiveLockUntilOrphaned
  NeverStuck
