\* What the comments in the dependency branch of buildInternal() say.
SPECIFICATION BuildSpec
CONSTANTS
  Clients = {b1, k1}
  Builders = {b1}
  Keepers = {k1}
  Inodes = {i1, i2}
  NoInode = NoInode
  Eviction = TRUE
  Type = "vector"
SYMMETRY BuildSymmetry
INVARIANT DependencyTriggersBuild
