SPECIFICATION SpscFairSpec
CONSTANTS
  Capacity = 2
  MaxCalls = 6
INVARIANTS
  NoDataRace
  FrontIsOldest
PROPERTIES
  AnswersTrue
  ImplementsFifo
