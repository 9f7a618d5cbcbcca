SPECIFICATION FairSpec
CONSTANTS
  Equipment <- MCEquipment
  Sectors <- MCSectors
  Mode <- MCMode
  Heads = 2
  Spt = 1
  LbaLimit = 8
  Asleep = {2}
  Partitions <- MCPartitions
  Reads <- MCReads
  Faulty = TRUE
  MaxAborts = 1
  MaxReads = 2
INVARIANTS RightSector NoCommandWhileBusy ShortOnlyIfFaulty
PROPERTY CallsReturn
