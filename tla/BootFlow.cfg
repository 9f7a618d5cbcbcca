SPECIFICATION Spec
CONSTANTS
  NParts = 2
  Volumes <- MCVolumes
  NetConfs <- MCNetConfs
  NoConf = NoConf
  MaxKeys = 1
INVARIANTS
  TypeOK NetworkTriedOnce ReadsAreMounted CleanHandOff BootsFirstConfig NetBootsItsConfig
  SpinsOnlyIfUnbootable
PROPERTY Settles
