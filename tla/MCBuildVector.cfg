\* A shapefile, with the files that belong to it: deferred builds, and liveness.
SPECIFICATION FairBuildSpec
CONSTANTS
  Clients = {b1, k1}
  Builders = {b1}
  Keepers = {k1}
  Inodes = {i1, i2}
  NoInode = NoInode
  Eviction = TRUE
  Type = "vector"
PROPERTIES
  LockSpec
  ReturnsWithOutput
  CallsEnd
