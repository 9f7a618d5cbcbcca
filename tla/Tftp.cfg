SPECIFICATION FairSpec
CONSTANTS
  Sizes <- MCSizes
  MaxBlksize = 2
  IdxMod = 3
  MaxRetries = 0
  ServerBlksizes = {0, 2, 3}
  ServerDups = {TRUE, FALSE}
  MaxSessions = 2
  MaxFaults = 1
INVARIANT PlainServerNeverFails
PROPERTIES ImplementsFileTransfer Terminates
