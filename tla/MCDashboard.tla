----------------------------- MODULE MCDashboard -----------------------------
(* Seven ticks: two that allocate, one that frees; a client allocation     *)
(* that fits in VRAM and fills it.  Main.qml creates every page at once,   *)
(* so that all the properties of PageBindings are bound.                   *)
EXTENDS Dashboard

MCTiers == {"kRam", "kVram", "kNvme"}
MCPids == {1}
MCRamSizes == {63}
MCVramSizes == {1, 31}
MCFreeSizes == {15}
MCClientSizes == {2, 16384}
MCSegments == {<<"health", "other">>, <<"other">>, <<"short">>}
Constants == {"migrationRate", "simulationAccuracy"}
PageBindings ==
  Constants \cup
  {"systemHealth", "vramUsageRead", "ramUsageRead", "ssdUsageRead", "predictionAccuracy",
   "applications", "recommendations", "simulationPlans"}
=============================================================================
