\* Two builders of a type that publishes by renaming, and one keeper.
SPECIFICATION BuildSpec
CONSTANTS
  Clients = {b1, b2, k1}
  Builders = {b1, b2}
  Keepers = {k1}
  Inodes = {i1, i2, i3}
  NoInode = NoInode
  Eviction = TRUE
  Type = "plain"
SYMMETRY BuildSymmetry
INVARIANTS
  BuildTypeOK
  TempInSection
PROPERTIES
  UndisturbedUnlessOrphaned
  ReturnsWithOutput
  ReplacedOnlyWhenReady
