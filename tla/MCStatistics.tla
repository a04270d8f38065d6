---------------------------- MODULE MCStatistics ----------------------------
(* One collector and the two programs that use one: the analysis pipeline, *)
(* with the analyzer subscribed to everything, and one more subscription,  *)
(* the analyzer's or a plain callback's, to new objects only; and the      *)
(* dashboard with its clients, where QML binds the two properties that     *)
(* take no lock, so that ticks return.  A behaviour is one program's, the  *)
(* other stays as it was constructed.                                      *)
EXTENDS AnalysisPipeline, MCDashboard

CONSTANTS o1, o2

VARIABLE program

MCListeners == {"analyzer", "callback"}
MCSize == [o \in Objects |-> IF o = o1 THEN 1 ELSE 2]
MCMoves == {<<"kRam", "kVram", 1, 1>>, <<"kVram", "kRam", 2, 0>>}
MCFilters == {[category |-> "kMemoryObject", type |-> "kObjectCreated", min_priority |-> 1]}

analysisOnly == <<dispatcherVars, analyzer, worldVars, clientVars, mishaps>>
dashboardOnly == <<adapterVars, http, clientsVars>>
statisticsVars == <<program, vars, dashboardVars>>

StatisticsInit == program \in {"analysis", "dashboard"} /\ Init /\ DashboardInit

Analysis(step) == program = "analysis" /\ step /\ UNCHANGED <<program, dashboardOnly>>

StatisticsNext ==
  \/ Analysis(Next)
  \/ program = "dashboard" /\ DashboardNext /\ UNCHANGED <<program, analysisOnly>>

StatisticsSpec ==
  /\ StatisticsInit /\ [][StatisticsNext]_statisticsVars
  /\ \A t \in Threads : WF_statisticsVars(Analysis(ThreadStep(t)))

(* UnflaggedBooksExact of the pipeline's own collector: what the analyzer  *)
(* does not count as out of order, it books right.                         *)
AnalysisBooksExact == program = "analysis" => UnflaggedBooksExact
=============================================================================
