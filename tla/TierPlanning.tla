---------------------------- MODULE TierPlanning ----------------------------
(***************************************************************************)
(* The decisions about tiers as operators on a statistics snapshot:        *)
(* MemoryScheduler::schedule_allocation,                                   *)
(* MemoryPlacementEngine::plan_placement, HealthAdvisorRule::analyze with  *)
(* MemoryAdvisor::generate_report, and the digital twin's                  *)
(* simulate_strategies.  Ratios are compared as products, thresholds being *)
(* percentages; byte counts stay far below 2^64.                           *)
(***************************************************************************)
EXTENDS Integers, Sequences

Exceeds(amount, percent, peak) == peak > 0 /\ amount * 100 > percent * peak

(* schedule_allocation for the default SchedulingPolicy; hot stands for    *)
(* access_count >= vram_hot_access_count_threshold or kCritical priority.  *)
schedule_allocation_Unchecked(snap, size, hot) ==
  IF hot THEN "kVram"
  ELSE IF Exceeds(snap["ram"].current + size, 85, snap["ram"].peak) THEN "kNvme"
  ELSE "kRam"

schedule_allocation(snap, size, hot) ==
  IF hot
  THEN IF Exceeds(snap["vram"].current + size, 90, snap["vram"].peak) THEN "kRam" ELSE "kVram"
  ELSE IF Exceeds(snap["ram"].current + size, 85, snap["ram"].peak) THEN "kNvme"
  ELSE "kRam"

(* plan_placement: current_ram_, current_vram_ and current_ssd_ are never  *)
(* changed by the code, so they are the zero they start with.              *)
plan_placement(tier, size, max) ==
  IF size = 0 THEN "kInvalidArgument"
  ELSE IF size > max[tier] THEN "kCapacityExceeded" ELSE "kOk"

(* generate_report with the one rule the constructor registers; MiB is the *)
(* size below which a pool is left alone.                                  *)
analyze(snap, MiB) ==
  (IF snap["vram"].current > MiB /\ Exceeds(snap["vram"].current, 90, snap["vram"].peak)
   THEN {"kCritical"} ELSE {}) \cup
  (IF snap["ram"].current > MiB /\ Exceeds(snap["ram"].current, 85, snap["ram"].peak)
   THEN {"kWarning"} ELSE {})

generate_report(snap, MiB) ==
  LET found == analyze(snap, MiB)
  IN [severities |-> found,
      health_score |-> 100 - (IF "kCritical" \in found THEN 25 ELSE 0)
                           - (IF "kWarning" \in found THEN 5 ELSE 0)]

-----------------------------------------------------------------------------
(* The digital twin.  A context has the usage and the capacity of a tier,  *)
(* a capacity of 0 meaning that it is not limited.                         *)

Limited == {"kVram", "kRam", "kNvme"}

OverCapacity(tier, size, ctx) ==
  tier \in Limited /\ ctx[tier].max > 0 /\ ctx[tier].used + size > ctx[tier].max

(* latency in us, bandwidth in GB/s, cache hit ratio in percent *)
Estimate(tier) ==
  CASE tier = "kVram" -> [latency |-> 10, bandwidth |-> 250, hit |-> 98]
    [] tier = "kRam"  -> [latency |-> 80, bandwidth |-> 50, hit |-> 85]
    [] tier = "kNvme" -> [latency |-> 5000, bandwidth |-> 3, hit |-> 50]
    [] OTHER          -> [latency |-> 10000, bandwidth |-> 1, hit |-> 10]

(* overall_score times 2750, the least factor that makes it whole:         *)
(* 0.4 (100 - latency/110) + 0.3 bandwidth/3 + 0.3 hit, less 80 when over  *)
(* capacity, and at least 0.                                               *)
RawScore(tier) ==
  110000 - 10 * Estimate(tier).latency + 275 * Estimate(tier).bandwidth
    + 825 * Estimate(tier).hit

evaluate_plan_NoPenalty(tier, size, ctx) == RawScore(tier)

evaluate_plan(tier, size, ctx) ==
  LET score == RawScore(tier) - (IF OverCapacity(tier, size, ctx) THEN 220000 ELSE 0)
  IN IF score >= 0 THEN score ELSE 0

simulate_strategies(plans, size, ctx) ==
  [i \in 1 .. Len(plans) |->
     [tier |-> plans[i], overall_score |-> evaluate_plan(plans[i], size, ctx)]]

(* The first plan with the highest score. *)
selected_plan(evaluated) ==
  CHOOSE i \in 1 .. Len(evaluated) :
    /\ \A j \in 1 .. Len(evaluated) :
         evaluated[j].overall_score <= evaluated[i].overall_score
    /\ \A j \in 1 .. i - 1 : evaluated[j].overall_score < evaluated[i].overall_score
=============================================================================
