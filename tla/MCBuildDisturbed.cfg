\* What the comment on removeOrphanTempFolders() says.
SPECIFICATION StableSpec
CONSTANTS
  Clients = {b1, b2, k1}
  Builders = {b1, b2}
  Keepers = {k1}
  Inodes = {i1, i2, i3}
  NoInode = NoInode
  Eviction = TRUE
  Type = "plain"
SYMMETRY BuildSymmetry
PROPERTY InProgressNeverDisturbed
