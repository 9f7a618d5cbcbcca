SPECIFICATION Spec
CONSTANTS
  NDir = 1
  Ptrs = 2
  BS = 2
  OffMod = 32
  NoVolume = NoVolume
  Volumes = {1, 2}
  Files = {1, 2}
  Blocks = 15
  Inode <- MCInode
  Table <- MCTable
  Sizes = {1, 3, 14}
  Failures = TRUE
INVARIANT DoubleIndirectMapped
