SPECIFICATION Spec
CONSTANTS
  r1 = r1
  w1 = w1
  w2 = w2
  Readers <- OneReader
  Writers <- TwoWriters
  MaxSlots = 1
  MaxSections = 2
  MaxRegs = 2
  MaxVersions = 2
  MaxReclaims = 2
SYMMETRY Symmetry
CHECK_DEADLOCK FALSE
INVARIANTS
  ProtectedReads
  DeletedOnce
PROPERTIES
  ReclaimFreesAll
