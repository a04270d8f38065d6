CONSTANTS
  o1 = o1
  o2 = o2
  c1 = c1
  c2 = c2
  ObjectIds = {o1, o2}
  Callers = {c1, c2}
  Known <- MCKnown
  Decays <- MCDecays
  HotAccesses = 16
  u1 = u1
  u2 = u2
  FileUsers = {u1, u2}
  Junk <- MCJunk
  Ttl = 1
  MaxTime = 2
  MaxCalls = 3
SPECIFICATION FairSpec
INVARIANT ForecastAccounting
INVARIANT PatternAccounting
INVARIANT RestoresOneSnapshot
PROPERTY ColdForgotten
CHECK_DEADLOCK FALSE
