SPECIFICATION TierSpec
CONSTANTS
  o1 = o1
  o2 = o2
  c1 = c1
  c2 = c2
  kNull = kNull
  Objects <- OneObject
  Tiers <- RamAndVram
  Controllers <- TwoControllers
  MaxClientCalls = 2
  MaxStarts = 2
  MaxPasses = 1
CHECK_DEADLOCK FALSE
INVARIANTS
  OneRequestPerObject
  StopOwnsWorker
  WorkConserved
PROPERTIES
  StopReturns
  RequestsSettled
