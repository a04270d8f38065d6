SPECIFICATION Spec
CONSTANTS
  t1 = t1
  t2 = t2
  Threads <- TwoThreads
  SegmentRecords = 2
  MaxAppends = 2
  MaxOpens = 2
  MaxFlushes = 1
  MapMayFail = TRUE
  MayDie = TRUE
CHECK_DEADLOCK FALSE
INVARIANTS
  FaultOnlyInRaces
  AckedReplayed
  NoWastedSegments
  ReplayInSequence
PROPERTIES
  PlacesDisjoint
