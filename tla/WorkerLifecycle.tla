-------------------------- MODULE WorkerLifecycle --------------------------
(***************************************************************************)
(* start and stop of MemoryOptimizer and PrefetchEngine, which are the     *)
(* same code (core/src/event/memory_optimizer.cpp and prefetch_engine.cpp).*)
(* stop clears is_running_ under mutex_ and joins the worker after it has  *)
(* released it, so other calls of start and stop may come in between.      *)
(* Assigning a new thread to a worker_thread_ that is still joinable calls *)
(* std::terminate.                                                         *)
(***************************************************************************)
EXTENDS Integers, FiniteSets

CONSTANTS
  Controllers,  \* threads that call start and stop
  MaxStarts     \* bound: workers started

Engines == {"optimizer", "prefetch"}

VARIABLES
  is_running,  \* is_running_ of each engine
  worker,      \* worker_thread_: "none"; "loop" before the test of
               \* is_running_, "work" after it; "ended" but not joined
  lock,        \* whether mutex_ is held over several steps
  joining,     \* per controller: the engine whose worker it joins, or "none"
  starts,      \* workers started so far
  terminated   \* std::terminate was called

lifecycleVars == <<is_running, worker, lock, joining, starts, terminated>>

LifecycleInit ==
  /\ is_running = [e \in Engines |-> FALSE]
  /\ worker = [e \in Engines |-> "none"]
  /\ lock = [e \in Engines |-> FALSE]
  /\ joining = [c \in Controllers |-> "none"]
  /\ starts = 0
  /\ terminated = FALSE

Ready(c, e) == joining[c] = "none" /\ ~ lock[e]

(* Faulty variants of StopFlag and StopJoin. *)

(* Returns without joining the worker. *)
StopFlag_NoJoin(c, e) ==
  /\ Ready(c, e) /\ is_running[e]
  /\ is_running' = [is_running EXCEPT ![e] = FALSE]
  /\ UNCHANGED <<worker, lock, joining, starts, terminated>>

(* Joins the worker with mutex_ held: the worker may need it to go on. *)
StopFlag_KeepsLock(c, e) ==
  /\ Ready(c, e) /\ is_running[e]
  /\ is_running' = [is_running EXCEPT ![e] = FALSE]
  /\ joining' = [joining EXCEPT ![c] = e]
  /\ lock' = [lock EXCEPT ![e] = TRUE]
  /\ UNCHANGED <<worker, starts, terminated>>

(* A start of an engine that runs is refused and changes nothing. *)
Start(c, e) ==
  /\ Ready(c, e) /\ ~ is_running[e] /\ worker[e] = "none" /\ starts < MaxStarts
  /\ starts' = starts + 1
  /\ is_running' = [is_running EXCEPT ![e] = TRUE]
  /\ worker' = [worker EXCEPT ![e] = "loop"]
  /\ UNCHANGED <<lock, joining, terminated>>

StartTerminates(c, e) ==
  /\ Ready(c, e) /\ ~ is_running[e] /\ worker[e] # "none" /\ starts < MaxStarts
  /\ terminated' = TRUE
  /\ UNCHANGED <<is_running, worker, lock, joining, starts>>

(* A stop of an engine that does not run returns at once. *)
StopFlag(c, e) ==
  /\ Ready(c, e) /\ is_running[e]
  /\ is_running' = [is_running EXCEPT ![e] = FALSE]
  /\ joining' = [joining EXCEPT ![c] = e]
  /\ UNCHANGED <<worker, lock, starts, terminated>>

StopJoin(c) ==
  /\ joining[c] # "none" /\ worker[joining[c]] = "ended"
  /\ worker' = [worker EXCEPT ![joining[c]] = "none"]
  /\ joining' = [joining EXCEPT ![c] = "none"]
  /\ UNCHANGED <<is_running, lock, starts, terminated>>

(* The test of is_running_ at the head of worker_loop, without mutex_ *)
WorkerTest(e) ==
  /\ worker[e] = "loop"
  /\ worker' = [worker EXCEPT ![e] = IF is_running[e] THEN "work" ELSE "ended"]
  /\ UNCHANGED <<is_running, lock, joining, starts, terminated>>

ControlStep ==
  \E c \in Controllers :
    \/ \E e \in Engines : Start(c, e) \/ StartTerminates(c, e) \/ StopFlag(c, e)
    \/ StopJoin(c)

-----------------------------------------------------------------------------
(* A worker that was told to stop is going to be joined by exactly one     *)
(* stop.  So start calls std::terminate only while a stop of the same      *)
(* engine is under way, and never when one thread makes both calls.        *)
StopOwnsWorker ==
  \A e \in Engines :
    worker[e] # "none" /\ ~ is_running[e] =>
      Cardinality({c \in Controllers : joining[c] = e}) = 1

(* Every stop returns: the worker takes mutex_ in its loop, and stop does  *)
(* not hold it while it waits.                                             *)
StopReturns ==
  \A c \in Controllers : joining[c] # "none" ~> joining[c] = "none" \/ terminated
=============================================================================
