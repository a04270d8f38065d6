SPECIFICATION FairSpec
CONSTANTS
  p1 = p1
  p2 = p2
  Producers <- TwoProducers
  Capacity = 2
  MaxCalls = 3
INVARIANTS
  NoDataRace
PROPERTIES
  FullOnlyWhenFull
  ImplementsFifo
  EveryElementDelivered
