----------------------------- MODULE Forecasting -----------------------------
(***************************************************************************)
(* Learning and prediction in one process: threads report accesses, decay, *)
(* save and restore the patterns, ask for predictions and report what came *)
(* true.  The process may die at any time and start again with an empty    *)
(* table and whatever is in the pattern file.                              *)
(***************************************************************************)
EXTENDS PredictionEngine

CONSTANTS
  MaxTime,     \* bound on the clock
  MaxCalls     \* bound on the calls of methods other than decay_patterns

VARIABLES
  calls,
  merged       \* history: a restore has changed this process's table

vars == <<dbVars, fileVars, predictionVars, now, calls, merged>>

ObservedTiers == {"kVram", "kRam", "kNvme"}

Init ==
  /\ LearningInit
  /\ PredictionInit
  /\ calls = 0
  /\ merged = FALSE

Call == calls < MaxCalls /\ calls' = calls + 1

Learn(o) ==
  /\ Call
  /\ learn_access(o)
  /\ UNCHANGED <<predictionVars, now, merged>>

Decay(d) ==
  /\ pattern_db # NoPatterns
  /\ decay_patterns(d)
  /\ UNCHANGED <<predictionVars, now, calls, merged>>

ResetLearning ==
  /\ Call
  /\ reset
  /\ merged' = FALSE
  /\ UNCHANGED <<predictionVars, now>>

Persist(u) ==
  /\ \/ Call /\ PersistCopy(u)
     \/ UNCHANGED calls /\ (PersistOpen(u) \/ PersistLine(u) \/ PersistClose(u))
  /\ UNCHANGED <<predictionVars, now, merged>>

Load(u) ==
  /\ \/ Call /\ RestoreOpen(u)
     \/ UNCHANGED calls /\ (RestoreLine(u) \/ RestoreEnd(u) \/ RestoreCutLine(u) \/ RestoreTorn(u))
  /\ UNCHANGED <<predictionVars, now, merged>>

Merge(u) ==
  /\ UNCHANGED calls
  /\ RestoreMerge(u)
  /\ merged' = TRUE
  /\ UNCHANGED <<predictionVars, now>>

Ask(c, o) ==
  /\ Call
  /\ get_prediction_Read(c, o)
  /\ UNCHANGED <<dbVars, fileVars, now, merged>>

Answer(c) ==
  /\ get_prediction_Return(c)
  /\ UNCHANGED <<dbVars, fileVars, now, calls, merged>>

Observe(o, tier) ==
  /\ Call
  /\ register_access_observation(o, tier)
  /\ UNCHANGED <<dbVars, fileVars, now, merged>>

Invalidate ==
  /\ \E o \in DOMAIN prediction_cache : Expired(o)
  /\ invalidate_expired_predictions
  /\ UNCHANGED <<dbVars, fileVars, now, calls, merged>>

ResetPredictions ==
  /\ Call
  /\ reset_predictions
  /\ UNCHANGED <<dbVars, fileVars, now, merged>>

Tick ==
  /\ now < MaxTime
  /\ now' = now + 1
  /\ UNCHANGED <<dbVars, fileVars, predictionVars, calls, merged>>

ProcessDies ==
  /\ LearningCrash
  /\ prediction_cache' = << >> /\ metrics' = NoMetrics /\ expired' = 0
  /\ asking' = [c \in Callers |-> NotAsking]
  /\ merged' = FALSE
  /\ UNCHANGED now

Crash == ProcessDies /\ UNCHANGED calls

RestoreAborts(u) == LoadThrows(u) /\ ProcessDies /\ UNCHANGED calls

Next ==
  \/ \E o \in ObjectIds : Learn(o)
  \/ \E d \in Decays : Decay(d)
  \/ \E c \in Callers, o \in ObjectIds : Ask(c, o)
  \/ \E c \in Callers : Answer(c)
  \/ \E o \in ObjectIds, tier \in ObservedTiers : Observe(o, tier)
  \/ \E u \in FileUsers : Persist(u) \/ Load(u) \/ Merge(u) \/ RestoreAborts(u)
  \/ ResetLearning \/ Invalidate \/ ResetPredictions
  \/ Tick \/ Crash

Spec == Init /\ [][Next]_vars

(* The owner of the engine keeps calling decay_patterns. *)
FairSpec == Spec /\ WF_vars(\E d \in Decays : Decay(d))

-----------------------------------------------------------------------------
(* Every prediction counted as issued is accounted for: it was observed    *)
(* (correct_predictions or false_positives), is still cached, or was       *)
(* dropped because it expired.  None is counted twice or replaced unseen,  *)
(* with several threads in get_prediction and crashes and resets between.  *)
ForecastAccounting ==
  metrics.predictions_issued =
    metrics.correct_predictions + metrics.false_positives
      + Cardinality(DOMAIN prediction_cache) + expired

(* The counters of the learning engine agree with its table, the patterns  *)
(* learned being those in the table and those forgotten.  A restore sets   *)
(* learned_patterns_count to the table's size, forgotten ones left out.    *)
PatternAccounting ==
  /\ active_patterns_count = Cardinality(DOMAIN pattern_db)
  /\ ~ merged => learned_patterns_count = active_patterns_count + forgotten_patterns_count

(* What restore is about to merge, when no persist truncated the file      *)
(* under it or under another persist, comes from one call of persist: all  *)
(* of the table that call copied if it had finished, and otherwise a part  *)
(* of it, exact but for the access_count of one pattern.  Threads persist  *)
(* and restore at the same time, and the process dies between the lines.   *)
RestoresOneSnapshot ==
  \A u \in FileUsers :
    fileCall[u].phase = "merge" /\ ~ fileCall[u].torn =>
      LET lines == fileCall[u].lines
          saved == fileCall[u].snapshot
      IN /\ DOMAIN lines \subseteq DOMAIN saved
         /\ \A o \in DOMAIN lines : lines[o] \in {saved[o], [saved[o] EXCEPT !.counted = FALSE]}
         /\ \A o, p \in DOMAIN lines : lines[o] # saved[o] /\ lines[p] # saved[p] => o = p
         /\ fileCall[u].whole => lines = saved

(* A pattern whose object is no longer accessed is forgotten: its scores   *)
(* fall with every decay until decay_patterns drops it.                    *)
ColdForgotten == \A o \in ObjectIds : (o \in DOMAIN pattern_db) ~> (o \notin DOMAIN pattern_db)
=============================================================================
