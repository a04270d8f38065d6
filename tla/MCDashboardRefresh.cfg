CONSTANTS
  c1 = c1
  Clients = {c1}
  Bound <- PageBindings
  Tiers <- MCTiers
  Pids <- MCPids
  RamSizes <- MCRamSizes
  VramSizes <- MCVramSizes
  FreeSizes <- MCFreeSizes
  ClientSizes <- MCClientSizes
  Segments <- MCSegments
  MaxRam = 131072
  MaxVram = 16384
  MaxTicks = 7
  MaxCalls = 2
  MaxLines = 2
SPECIFICATION DashboardFairSpec
PROPERTY RefreshLoop
CHECK_DEADLOCK FALSE
