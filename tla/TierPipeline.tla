---------------------------- MODULE TierPipeline ----------------------------
(***************************************************************************)
(* The optimizer and the prefetch engine with their workers, sharing one   *)
(* placement engine with direct callers and with whoever carries the       *)
(* placements out.                                                         *)
(***************************************************************************)
EXTENDS MemoryOptimizer, PrefetchEngine

tierVars == <<placementVars, clientCalls, lifecycleVars, optimizerVars, prefetchVars>>

TierInit == PlacementInit /\ LifecycleInit /\ OptimizerInit /\ PrefetchInit

TierNext ==
  /\ ~ terminated
  /\ \/ PlacementStep /\ UNCHANGED <<lifecycleVars, optimizerVars, prefetchVars>>
     \/ /\ ControlStep
        /\ UNCHANGED <<placementVars, clientCalls, optimizerVars, prefetchVars>>
     \/ OptimizerStep /\ UNCHANGED prefetchVars
     \/ PrefetchStep /\ UNCHANGED optimizerVars

(* Threads that are inside a call or a worker loop keep running, and the   *)
(* worker gets mutex_ when callers leave it free.                          *)
TierFairness ==
  /\ WF_tierVars(PassStep /\ UNCHANGED prefetchVars)
  /\ WF_tierVars(OptimizerLoop /\ UNCHANGED prefetchVars)
  /\ WF_tierVars(PassBegin("worker") /\ UNCHANGED prefetchVars)
  /\ WF_tierVars(PrefetchWork /\ UNCHANGED optimizerVars)
  /\ \A c \in Controllers :
       WF_tierVars(/\ StopJoin(c)
                   /\ UNCHANGED <<placementVars, clientCalls, optimizerVars, prefetchVars>>)

TierSpec == TierInit /\ [][TierNext]_tierVars /\ TierFairness

(* Every variable stays in its type. *)
TierTypeOK ==
  /\ queue \in Seq(Objects)
  /\ pending_objects \subseteq Objects
  /\ is_running \in [Engines -> BOOLEAN]
  /\ worker \in [Engines -> {"none", "loop", "work", "ended"}]
  /\ joining \in [Controllers -> Engines \cup {"none"}]
  /\ \A o \in DOMAIN residency : residency[o] \in
       [tier : Tiers, temperature : {"cold", "warm", "hot"}]
  /\ turn \in 0 .. Len(migrations) + 1
  /\ hand \in {Request(o, x) : o \in Objects \cup {kNull}, x \in BOOLEAN}
               \cup {NoRequest}
  /\ history \in [Objects -> 0 .. 3]

(* No piece of work is lost or done twice on its way through the queues:   *)
(* neither a migration task of the optimizer, refused or not, nor a        *)
(* prefetch request, cancelled or not.                                     *)
WorkConserved == TasksConserved /\ RequestsConserved
=============================================================================
