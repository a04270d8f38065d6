CONSTANTS
  t1 = t1
  t2 = t2
  o1 = o1
  o2 = o2
  Threads = {t1, t2}
  Objects = {o1, o2}
  Listeners <- MCListeners
  Filters <- MCFilters
  Size <- MCSize
  Moves <- MCMoves
  MaxTokens = 2
  MaxEvents = 3
  MaxClients = 1
  c1 = c1
  Clients = {c1}
  Bound <- Constants
  Tiers <- MCTiers
  Pids <- MCPids
  RamSizes <- MCRamSizes
  VramSizes <- MCVramSizes
  FreeSizes <- MCFreeSizes
  ClientSizes <- MCClientSizes
  Segments <- MCSegments
  MaxRam = 131072
  MaxVram = 16384
  MaxTicks = 7
  MaxCalls = 2
  MaxLines = 1
SPECIFICATION StatisticsSpec
PROPERTY EventsSettle
PROPERTY ScheduledKeepsVramPeak
INVARIANT AnalysisBooksExact
INVARIANT BooksAgree
INVARIANT DispatchSeesOneList
INVARIANT BestPlanFits
CHECK_DEADLOCK FALSE
