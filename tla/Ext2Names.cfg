SPECIFICATION FairSpec
CONSTANTS
  Root <- MCRoot
  Inodes <- MCInodes
  Names <- MCNames
  Dir <- MCDir
  BigDirs = {3}
  Link <- MCLink
  Paths <- MCPaths
  Finds <- MCFinds
  MaxOpenFiles = 5
  MaxOpens = 3
INVARIANTS InodeTableSound OpensTheNamedFile
PROPERTY OpenReturns
