-------------------------- MODULE PredictionEngine --------------------------
(***************************************************************************)
(* PredictionEngine with HybridPredictor.  Each method holds mutex_ from   *)
(* start to end.  get_prediction reads the clock and the learned pattern   *)
(* on the way, and both move on meanwhile, so it takes two steps: up to    *)
(* the pattern it reads, and from the expiration it computes to its        *)
(* return.  Time is in units of the TTL's granularity, 5 s being Ttl.      *)
(***************************************************************************)
EXTENDS PatternLearning

CONSTANTS
  Callers,     \* threads that ask for predictions
  Ttl          \* lifetime of a prediction

VARIABLES
  now,
  prediction_cache,
  asking,      \* what each caller inside get_prediction has read
  metrics,
  expired      \* history: predictions dropped because their time was over

predictionVars == <<prediction_cache, asking, metrics, expired>>

NotAsking == [phase |-> "none"]

NoMetrics ==
  [predictions_issued |-> 0, correct_predictions |-> 0, false_positives |-> 0,
   false_negatives |-> 0]

PredictionInit ==
  /\ now = 1
  /\ prediction_cache = << >>
  /\ asking = [c \in Callers |-> NotAsking]
  /\ metrics = NoMetrics
  /\ expired = 0

Counted(m, field) == [m EXCEPT ![field] = @ + 1]
Without(cache, objects) == [o \in DOMAIN cache \ objects |-> cache[o]]

(* HybridPredictor::predict: the tiers it can forecast for a pattern. *)
predict(p) ==
  LET sequential == p.moving /\ p.confidence >= 14    \* > 0.7 or equal
      surely == p.moving /\ p.confidence > 14
      popular == p.accesses >= HotAccesses
  IN (IF sequential \/ popular THEN {"kVram"} ELSE {}) \cup
     (IF ~ surely /\ ~ popular /\ p.recency <= 4 THEN {"kNvme"} ELSE {}) \cup
     (IF ~ surely /\ ~ popular /\ p.recency >= 4 THEN {"kRam"} ELSE {})

Unlocked == \A c \in Callers : asking[c] = NotAsking

Expired(o) == now >= prediction_cache[o].expiration

(* A cached prediction that has not expired is returned and nothing        *)
(* changes; the two counters of hits and misses are left out.              *)

get_prediction_Read_Unlocked(c, o) ==
  /\ asking[c] = NotAsking
  /\ o \notin DOMAIN prediction_cache /\ o \in DOMAIN pattern_db
  /\ \E tier \in predict(pattern_db[o]) :
       asking' = [asking EXCEPT ![c] = [phase |-> "read", object |-> o, tier |-> tier]]
  /\ UNCHANGED <<prediction_cache, metrics, expired>>

get_prediction_Read(c, o) ==
  /\ Unlocked
  /\ o \in DOMAIN prediction_cache => Expired(o)
  /\ prediction_cache' = Without(prediction_cache, {o})
  /\ expired' = expired + Cardinality({o} \cap DOMAIN prediction_cache)
  /\ IF o \in DOMAIN pattern_db
     THEN \E tier \in predict(pattern_db[o]) :
            asking' = [asking EXCEPT ![c] = [phase |-> "read", object |-> o, tier |-> tier]]
     ELSE UNCHANGED asking
  /\ UNCHANGED metrics

get_prediction_Return(c) ==
  /\ asking[c].phase = "read"
  /\ prediction_cache' =
       Put(prediction_cache, asking[c].object,
           [expected_tier |-> asking[c].tier, expiration |-> now + Ttl])
  /\ metrics' = Counted(metrics, "predictions_issued")
  /\ asking' = [asking EXCEPT ![c] = NotAsking]
  /\ UNCHANGED expired

(* The expiration of the prediction is not looked at. *)
register_access_observation(o, actual_tier) ==
  /\ Unlocked
  /\ metrics' = Counted(metrics,
       IF o \notin DOMAIN prediction_cache THEN "false_negatives"
       ELSE IF prediction_cache[o].expected_tier = actual_tier THEN "correct_predictions"
       ELSE "false_positives")
  /\ prediction_cache' = Without(prediction_cache, {o})
  /\ UNCHANGED <<asking, expired>>

invalidate_expired_predictions ==
  LET gone == {o \in DOMAIN prediction_cache : Expired(o)}
  IN /\ Unlocked
     /\ prediction_cache' = Without(prediction_cache, gone)
     /\ expired' = expired + Cardinality(gone)
     /\ UNCHANGED <<asking, metrics>>

reset_predictions ==
  /\ Unlocked
  /\ prediction_cache' = << >>
  /\ metrics' = NoMetrics
  /\ expired' = 0
  /\ UNCHANGED asking
=============================================================================
