CONSTANTS
  Strings <- MCStrings
  Length <- MCLength
  ArenaCapacity = 5
  MaxHandles = 4
SPECIFICATION InternerSpec
CHECK_DEADLOCK FALSE
INVARIANT ViewsStayValid
