CONSTANTS
  r1 = r1
  r2 = r2
  Readers = {r1, r2}
  MaxSlots = 1
  MaxVersions = 3
  MaxBuffer = 3
SPECIFICATION FairSpec
INVARIANT NoUseAfterFree
INVARIANT SlotsExclusive
PROPERTY EventuallyReclaimed
