-------------------------- MODULE MemoryOptimizer --------------------------
(***************************************************************************)
(* MemoryOptimizer (core/src/event/memory_optimizer.cpp): tracks the tier  *)
(* and the temperature of objects, and turns cold objects in VRAM and hot  *)
(* ones in RAM into migration tasks, which it hands to the placement       *)
(* engine.  A pass holds mutex_ from start to end; the placement engine    *)
(* has a mutex of its own, so others use it between two tasks of a pass.   *)
(*                                                                         *)
(* A temperature is "cold" (below 20), "hot" (above 80) or "warm".  An     *)
(* access adds 10, a pass takes a fraction of it away (any decay rate from *)
(* 0 to 1), so both may or may not change the class.                       *)
(***************************************************************************)
EXTENDS MemoryPlacement, WorkerLifecycle, Selection

CONSTANTS
  Tiers,        \* TierClass values
  MaxPasses     \* bound: passes before the worker begins another one

VARIABLES
  residency,        \* residency_map_: tier and temperature by object
  migrations,       \* pending_migrations_: object and target tier
  task_id_counter,  \* task_id_counter_
  turn,             \* the next task of the pass under way, 0 if none is
  passer,           \* who makes the pass: "worker" or "caller"
  migrated,         \* metrics_.migrations_completed
  passes            \* passes begun

optimizerVars == <<residency, migrations, task_id_counter, turn, passer,
                   migrated, passes>>

OptimizerInit ==
  /\ residency = << >> /\ migrations = << >> /\ task_id_counter = 0
  /\ turn = 0 /\ passer = "caller"
  /\ migrated = 0 /\ passes = 0

Warmer == [cold |-> {"cold", "warm"}, warm |-> {"warm", "hot"}, hot |-> {"hot"}]
Cooler == [cold |-> {"cold"}, warm |-> {"cold", "warm"},
           hot |-> {"cold", "warm", "hot"}]

(* Faulty variant of TaskRefused: drops the task that was refused. *)
TaskRefused_Drops ==
  /\ turn \in DOMAIN migrations /\ Refused(migrations[turn].object)
  /\ migrations' = Erased(migrations, turn)
  /\ UNCHANGED <<residency, task_id_counter, turn, passer, migrated, passes,
                 placementVars, clientCalls, lifecycleVars>>

(* A new object starts at 50 and is at 60 after the access. *)
RecordAccess(o, tier) ==
  /\ Called /\ ~ lock["optimizer"]
  /\ \E t \in IF o \in DOMAIN residency
                THEN Warmer[residency[o].temperature] ELSE {"warm"} :
       residency' = [x \in DOMAIN residency \cup {o} |->
         IF x = o THEN [tier |-> tier, temperature |-> t] ELSE residency[x]]
  /\ UNCHANGED <<migrations, task_id_counter, turn, passer, migrated, passes,
                 placementVars, lifecycleVars>>

NeedsMigration(r) ==
  \/ r.temperature = "cold" /\ r.tier = "vram"
  \/ r.temperature = "hot" /\ r.tier = "ram"

Task(o, r) == [object |-> o, target |-> IF r.tier = "vram" THEN "ram" ELSE "vram"]

(* Aging, and the new tasks in the order of the unordered map *)
PassBegin(by) ==
  /\ ~ lock["optimizer"]
  /\ IF by = "worker" THEN worker["optimizer"] = "work" /\ UNCHANGED clientCalls
                     ELSE Called
  /\ passes' = passes + 1
  /\ lock' = [lock EXCEPT !["optimizer"] = TRUE]
  /\ turn' = 1 /\ passer' = by
  /\ \E aged \in [DOMAIN residency -> {"cold", "warm", "hot"}] :
       /\ \A o \in DOMAIN aged : aged[o] \in Cooler[residency[o].temperature]
       /\ residency' = [o \in DOMAIN residency |->
                          [residency[o] EXCEPT !.temperature = aged[o]]]
  /\ \E order \in Listings({o \in DOMAIN residency : NeedsMigration(residency'[o])}) :
       /\ migrations' = migrations \o
            [i \in DOMAIN order |-> Task(order[i], residency'[order[i]])]
       /\ task_id_counter' = task_id_counter + Len(order)
  /\ UNCHANGED <<migrated, placementVars, is_running, worker, joining,
                 starts, terminated>>

TaskDone ==
  /\ turn \in DOMAIN migrations
  /\ LET task == migrations[turn] IN
     /\ Enqueue(task.object)
     /\ residency' = [residency EXCEPT ![task.object].tier = task.target]
  /\ migrations' = Erased(migrations, turn)
  /\ migrated' = migrated + 1
  /\ UNCHANGED <<task_id_counter, turn, passer, passes, clientCalls,
                 lifecycleVars>>

(* A task that is refused stays for the next pass. *)
TaskRefused ==
  /\ turn \in DOMAIN migrations /\ Refused(migrations[turn].object)
  /\ turn' = turn + 1
  /\ UNCHANGED <<residency, migrations, task_id_counter, passer, migrated, passes,
                 placementVars, clientCalls, lifecycleVars>>

PassEnd ==
  /\ turn = Len(migrations) + 1
  /\ turn' = 0 /\ passer' = "caller"
  /\ lock' = [lock EXCEPT !["optimizer"] = FALSE]
  /\ worker' = IF passer = "worker" THEN [worker EXCEPT !["optimizer"] = "loop"]
                                    ELSE worker
  /\ UNCHANGED <<residency, migrations, task_id_counter, migrated,
                 passes, placementVars, clientCalls, is_running, joining, starts,
                 terminated>>

OptimizerLoop ==
  /\ is_running["optimizer"] => passes < MaxPasses
  /\ WorkerTest("optimizer")
  /\ UNCHANGED <<optimizerVars, placementVars, clientCalls>>

PassStep == TaskDone \/ TaskRefused \/ PassEnd

OptimizerStep ==
  \/ \E o \in Objects \cup {kNull}, tier \in Tiers : RecordAccess(o, tier)
  \/ \E by \in {"worker", "caller"} : PassBegin(by)
  \/ PassStep
  \/ OptimizerLoop

-----------------------------------------------------------------------------
(* No task is lost: each one that a pass has made was accepted by the      *)
(* placement engine, once, or is pending.                                  *)
TasksConserved == task_id_counter = migrated + Len(migrations)
=============================================================================
