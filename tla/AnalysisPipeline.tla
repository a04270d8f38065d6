-------------------------- MODULE AnalysisPipeline --------------------------
(***************************************************************************)
(* EventDispatcher -> EventAnalyzer -> StatisticsCollector, composed.  The *)
(* program creates, destroys and migrates objects and stamps an event for  *)
(* each; several threads dispatch the events, so two events can reach the  *)
(* analyzer in either order.  The clock may stand still between two        *)
(* events, which then carry the same timestamp.  The payload of an object  *)
(* event names kRam and its sequence_num is 0, whatever the object: the    *)
(* factory sets them so and nothing changes them afterwards; an object's   *)
(* tier is therefore no part of this model.  The statistics are also used  *)
(* directly, by whoever calls record_migration, and both parts can be      *)
(* reset.                                                                  *)
(***************************************************************************)
EXTENDS EventDispatcher, EventAnalyzer, FiniteSets, FiniteSetsExt

CONSTANTS
  Objects,
  Size,        \* of each object, in bytes
  Moves,       \* the calls of record_migration: <<from, to, size, pid>>
  MaxEvents,   \* bound on the number of events
  MaxClients   \* bound on subscription changes, resets and record_migrations

ASSUME PipelineAssumption ==
  /\ "kRam" \in Tiers
  /\ Size \in [Objects -> Nat]
  /\ Moves \subseteq Tiers \X Tiers \X Nat \X (Pids \cup {0})

VARIABLES
  live,        \* the objects that exist
  emitted,     \* events stamped so far (MaxEvents)
  clock,       \* the time of the latest one
  pending,     \* events stamped and not yet passed to dispatch
  moving,      \* record_migration between its two calls
  clients,     \* calls of clients so far (MaxClients)
  stamped,     \* history: the timestamp of each object's latest event
  mishaps      \* history: what happened that the books cannot follow

worldVars == <<live, emitted, clock, pending, stamped>>
clientVars == <<moving, clients>>
vars == <<dispatcherVars, stats, analyzer, worldVars, clientVars, mishaps>>

NotMoving == [bytes |-> 0]

Init ==
  /\ DispatcherInit(<<[token |-> 1, listener |-> "analyzer",
       filter |-> [category |-> "kUnknown", type |-> "kUnknown", min_priority |-> 0]]>>)
  /\ stats = NoStatistics
  /\ analyzer = NoAnalysis
  /\ live = {} /\ emitted = 0 /\ clock = 1 /\ pending = {}
  /\ moving = NotMoving /\ clients = 0
  /\ stamped = [o \in Objects |-> 0] /\ mishaps = {}

-----------------------------------------------------------------------------
(* The program: an event is stamped when the thing it reports happens. *)

create_object_event(id, timestamp, type, object, size) ==
  [id |-> id, timestamp |-> timestamp, type |-> type, category |-> "kMemoryObject",
   priority |-> 1, object |-> object, sequence_num |-> 0, size |-> size, tier |-> "kRam"]

create_migration_event(id, timestamp, type, object) ==
  [id |-> id, timestamp |-> timestamp, type |-> type, category |-> "kTierMigration",
   priority |-> 2, object |-> object, sequence_num |-> 0]

Emit(e) ==
  /\ emitted < MaxEvents
  /\ emitted' = emitted + 1
  /\ clock' = e.timestamp
  /\ pending' = pending \cup {e}
  /\ stamped' = [stamped EXCEPT ![e.object] = e.timestamp]
  /\ mishaps' = IF stamped[e.object] = e.timestamp THEN mishaps \cup {"tied"} ELSE mishaps
  /\ UNCHANGED <<dispatcherVars, stats, analyzer, clientVars>>

Now == {clock, clock + 1}

Create(o) ==
  /\ o \notin live
  /\ live' = live \cup {o}
  /\ \E now \in Now :
       Emit(create_object_event(emitted + 1, now, "kObjectCreated", o, Size[o]))

Destroy(o) ==
  /\ o \in live
  /\ live' = live \ {o}
  /\ \E now \in Now :
       Emit(create_object_event(emitted + 1, now, "kObjectDestroyed", o, Size[o]))

Migrate(o) ==
  /\ o \in live
  /\ UNCHANGED live
  /\ \E now \in Now : Emit(create_migration_event(emitted + 1, now, "kMigrationCompleted", o))

-----------------------------------------------------------------------------
(* The dispatching threads. *)

Dispatch(t) ==
  \E e \in pending :
    /\ DispatchBegin(t, e)
    /\ pending' = pending \ {e}
    /\ UNCHANGED <<stats, analyzer, live, emitted, clock, stamped, clientVars, mishaps>>

Scan(t) ==
  /\ DispatchScan(t)
  /\ UNCHANGED <<stats, analyzer, worldVars, clientVars, mishaps>>

RunCallback(t) ==
  /\ Calling(t, "callback")
  /\ CallbackReturns(t)
  /\ UNCHANGED <<stats, analyzer, worldVars, clientVars, mishaps>>

(* on_event -> process_event: see EventAnalyzer for why this is one step. *)
Analyze(t) ==
  LET e == thread[t].event IN
    /\ Calling(t, "analyzer")
    /\ CallbackReturns(t)
    /\ analyzer' = process_event(analyzer, e)
    /\ stats' = IF Reports(analyzer, e) THEN Reported(stats, analyzer, e) ELSE stats
    /\ UNCHANGED <<worldVars, clientVars, mishaps>>

HeardBy(t) ==
  Cardinality({i \in DOMAIN subscribers :
     /\ subscribers[i].listener = "analyzer"
     /\ matches(subscribers[i].filter, thread[t].event)})

(* An analyzer that is not subscribed, or twice, misses or repeats events. *)
Return(t) ==
  /\ DispatchReturn(t)
  /\ mishaps' = IF HeardBy(t) = 1 THEN mishaps ELSE mishaps \cup {"unheard"}
  /\ UNCHANGED <<stats, analyzer, worldVars, clientVars>>

-----------------------------------------------------------------------------
(* Subscribers and the other users of the statistics. *)

ClientCall == clients < MaxClients /\ clients' = clients + 1

Subscribe(listener, filter) ==
  /\ ClientCall
  /\ subscribe(listener, filter)
  /\ UNCHANGED <<stats, analyzer, worldVars, moving, mishaps>>

Unsubscribe(token) ==
  /\ ClientCall
  /\ unsubscribe(token)
  /\ UNCHANGED <<stats, analyzer, worldVars, moving, mishaps>>

ClearSubscribers ==
  /\ subscribers # << >>
  /\ ClientCall
  /\ clear
  /\ UNCHANGED <<stats, analyzer, worldVars, moving, mishaps>>

ResetAnalyzer ==
  /\ ClientCall
  /\ analyzer' = NoAnalysis
  /\ mishaps' = mishaps \cup {"reset"}
  /\ UNCHANGED <<dispatcherVars, stats, worldVars, moving>>

ResetStatistics ==
  /\ ClientCall
  /\ stats' = NoStatistics
  /\ mishaps' = mishaps \cup {"reset"}
  /\ UNCHANGED <<dispatcherVars, analyzer, worldVars, moving>>

(* record_migration is a free and then an allocation, each under the lock. *)
MigrationFree(from, to, size, pid) ==
  /\ moving = NotMoving
  /\ ClientCall
  /\ stats' = record_free(stats, from, size, 0, pid)
  /\ moving' = [bytes |-> size, to |-> to, pid |-> pid]
  /\ mishaps' = mishaps \cup {"moved"}
  /\ UNCHANGED <<dispatcherVars, analyzer, worldVars>>

MigrationAllocate ==
  /\ moving # NotMoving
  /\ stats' = record_allocation(stats, moving.to, moving.bytes, moving.pid)
  /\ moving' = NotMoving
  /\ UNCHANGED <<dispatcherVars, analyzer, worldVars, clients, mishaps>>

ThreadStep(t) ==
  Dispatch(t) \/ Scan(t) \/ RunCallback(t) \/ Analyze(t) \/ Return(t)

Next ==
  \/ \E o \in Objects : Create(o) \/ Destroy(o) \/ Migrate(o)
  \/ \E t \in Threads : ThreadStep(t)
  \/ \E l \in Listeners, f \in Filters : Subscribe(l, f)
  \/ \E token \in 1 .. MaxTokens : Unsubscribe(token)
  \/ ClearSubscribers
  \/ ResetAnalyzer
  \/ ResetStatistics
  \/ \E m \in Moves : MigrationFree(m[1], m[2], m[3], m[4])
  \/ MigrationAllocate

Spec == Init /\ [][Next]_vars

(* A thread that has events to dispatch, or a dispatch under way, goes on. *)
FairSpec == Spec /\ \A t \in Threads : WF_vars(ThreadStep(t))

-----------------------------------------------------------------------------
Settled == pending = {} /\ ExclusiveLock

BytesOf(objects) == MapThenSumSet(LAMBDA o : Size[o], objects)

(* Every event the analyzer's own out_of_order_events counter does not     *)
(* complain about is booked right: once the events are through, if the     *)
(* counter is still 0, each dispatch reached the analyzer once and no      *)
(* object had two events with one timestamp (which the counter cannot tell *)
(* apart), the table holds exactly the objects that exist with their       *)
(* bytes, and the statistics count them, all in the RAM pool.              *)
UnflaggedBooksExact ==
  (Settled /\ analyzer.out_of_order_events = 0 /\ mishaps = {}) =>
    /\ DOMAIN analyzer.active_map = live
    /\ \A o \in live : analyzer.active_map[o].size = Size[o]
    /\ analyzer.active_bytes = BytesOf(live)
    /\ snapshot(stats).active_allocations_count = Cardinality(live)
    /\ stats.pool["ram"].current = BytesOf(live)
    /\ stats.pool["vram"].current = 0 /\ stats.pool["ssd"].current = 0

(* Whatever the order of events, resets and half-done migrations, the      *)
(* books of the statistics agree with each other: the VRAM and SSD pools   *)
(* equal their tier's book, a peak is never below its current amount, and  *)
(* no byte leaves the pools that was not recorded as freed.                *)
BooksAgree ==
  /\ \A p \in DOMAIN stats.pool : stats.pool[p].peak >= stats.pool[p].current
  /\ "kVram" \in Tiers => stats.pool["vram"].current = stats.tier["kVram"].current
  /\ "kNvme" \in Tiers => stats.pool["ssd"].current = stats.tier["kNvme"].current
  /\ HeldBytes(stats) >= stats.total_bytes_allocated - stats.total_bytes_freed

(* Every stamped event is dispatched and every dispatch returns, however   *)
(* subscribe, unsubscribe and clear contend for the lock.                  *)
EventsSettle == (pending # {}) ~> Settled
=============================================================================
