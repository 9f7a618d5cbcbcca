SPECIFICATION VolumeSpec
CONSTANTS
  NDir = 1
  Ptrs = 2
  BS = 2
  OffMod = 32
  NoVolume = NoVolume
  Volumes = {1, 2}
  Files = {1, 2}
  Blocks = 15
  Inode <- MCInode
  Table <- MCTable
  Sizes = {1, 3, 14}
  Failures = TRUE
  LastLba <- MCLastLba
  Modulus = 64
  CountModulus = 8
  MaxPtes = 3
  PerSector = 2
  Images <- MCDisks
  BehindTable <- MCJunk
  MaxTableAborts = 1
  Buses = 2
  Slots = 2
  Funcs = 3
  ProgIf = 2
  Drivers <- MCDrivers
  Types <- MCTypes
  Devices <- MCDevices
  Machines <- MCMachines
  Home <- MCHome
INVARIANTS HandsOverTheFile ReportsTheTable FailsOnlyForCause OffersEachOnce
PROPERTY ProbeReturns
