SPECIFICATION ReplaySpec
CONSTANTS
  MaxFiles = 2
  SlotsPerFile = 2
  Contents <- OwnContents
  FileStates <- AllFileStates
  MaxOpens = 1
  MaxReads = 5
  MaxCorrupted = 1
CHECK_DEADLOCK FALSE
INVARIANT SkipsOnlyDamage
