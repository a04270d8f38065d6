SPECIFICATION ReplaySpec
CONSTANTS
  MaxFiles = 2
  SlotsPerFile = 2
  Contents <- MCContents
  FileStates <- AllFileStates
  MaxOpens = 1
  MaxReads = 5
  MaxCorrupted = 1
CHECK_DEADLOCK FALSE
INVARIANTS
  ReplayComplete
  ReturnsInOrder
PROPERTIES
  ReplayTerminates
