--------------------------- MODULE EventAnalyzer ---------------------------
(***************************************************************************)
(* EventAnalyzer: rebuilds the table of live allocations from the event    *)
(* stream and passes each allocation and free on to the statistics.        *)
(* process_event holds the analyzer's mutex_ throughout and touches the    *)
(* statistics once, at its end, so nobody can see the table and the        *)
(* statistics apart: the handler is one step.  The two counts that only    *)
(* repeat the size of active_map (active_allocations_count and             *)
(* total_leaks_detected) are not state of their own.                       *)
(***************************************************************************)
EXTENDS MemoryStatistics, TLC

VARIABLE analyzer

(* EventAnalyzer() and reset(). *)
NoAnalysis ==
  [active_map |-> << >>, active_bytes |-> 0, peak_bytes |-> 0,
   total_events_processed |-> 0, out_of_order_events |-> 0, last_timestamp |-> 0]

Noted_AnyOrder(a, e) ==
  [a EXCEPT !.total_events_processed = @ + 1, !.last_timestamp = e.timestamp]

(* The counting that comes before the switch on the event type. *)
Noted(a, e) ==
  [a EXCEPT
     !.total_events_processed = @ + 1,
     !.out_of_order_events = IF e.timestamp < a.last_timestamp THEN @ + 1 ELSE @,
     !.last_timestamp = IF e.timestamp < @ THEN @ ELSE e.timestamp]

Enter(map, o, r) == [x \in DOMAIN map \cup {o} |-> IF x = o THEN r ELSE map[x]]

handle_object_created(a, e) ==
  [a EXCEPT
     !.active_map =
        Enter(@, e.object, [size |-> e.size, tier |-> e.tier, pid |-> e.sequence_num,
                            allocated_timestamp |-> e.timestamp]),
     !.active_bytes = @ + e.size,
     !.peak_bytes = Larger(@, a.active_bytes + e.size)]

handle_object_destroyed(a, e) ==
  IF e.object \notin DOMAIN a.active_map
  THEN [a EXCEPT !.out_of_order_events = @ + 1]
  ELSE LET size == a.active_map[e.object].size
       IN [a EXCEPT
             !.active_map = [o \in DOMAIN @ \ {e.object} |-> @[o]],
             !.active_bytes = IF @ >= size THEN @ - size ELSE 0]

(* The target tier of the event is not looked at. *)
handle_migration_completed(a, e) ==
  IF e.object \in DOMAIN a.active_map
  THEN [a EXCEPT !.active_map[e.object].tier = "kRam"] ELSE a

process_event(a, e) ==
  CASE e.type = "kObjectCreated" -> handle_object_created(Noted(a, e), e)
    [] e.type = "kObjectDestroyed" -> handle_object_destroyed(Noted(a, e), e)
    [] e.type = "kMigrationCompleted" -> handle_migration_completed(Noted(a, e), e)
    [] OTHER -> Noted(a, e)

(* Whether the handler goes on to the statistics. *)
Reports(a, e) ==
  \/ e.type = "kObjectCreated"
  \/ e.type = "kObjectDestroyed" /\ e.object \in DOMAIN a.active_map

(* The statistics after that call, a being the analyzer before the event. *)
Reported(s, a, e) ==
  IF e.type = "kObjectCreated"
  THEN record_allocation(s, e.tier, e.size, e.sequence_num)
  ELSE LET alloc == a.active_map[e.object]
           lifetime == IF e.timestamp >= alloc.allocated_timestamp
                       THEN e.timestamp - alloc.allocated_timestamp ELSE 0
       IN record_free(s, alloc.tier, alloc.size, lifetime, alloc.pid)
=============================================================================
