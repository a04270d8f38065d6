--------------------------- MODULE PrefetchEngine ---------------------------
(***************************************************************************)
(* PrefetchEngine (core/src/event/prefetch_engine.cpp): turns accesses     *)
(* with a constant stride into prefetch requests, and a worker hands them  *)
(* one by one to the placement engine.  The worker takes a request from    *)
(* the queue under mutex_ and deals with it after it has released it.      *)
(*                                                                         *)
(* Of the addresses of an object only their number is kept, up to three:   *)
(* the code keeps five and compares the two strides between the last       *)
(* three, which may or may not be equal.  Whether a request has expired    *)
(* depends on the clock.                                                   *)
(***************************************************************************)
EXTENDS MemoryPlacement, WorkerLifecycle, Selection

VARIABLES
  prefetch_queue,  \* prefetch_queue_: object, and whether it can expire
  history,         \* the length of access_history_ of each object, up to 3
  hand,            \* the request the worker has taken, or NoRequest
  prefetch_ids,    \* request_id_counter_
  prefetched       \* metrics_: issued, cancelled, hits, misses

prefetchVars == <<prefetch_queue, history, hand, prefetch_ids, prefetched>>

NoRequest == [object |-> kNull, expires |-> FALSE, none |-> TRUE]
Request(o, x) == [object |-> o, expires |-> x, none |-> FALSE]

PrefetchInit ==
  /\ prefetch_queue = << >> /\ prefetch_ids = 0
  /\ history = [o \in Objects |-> 0]
  /\ hand = NoRequest
  /\ prefetched = [issued |-> 0, cancelled |-> 0, hits |-> 0, misses |-> 0]

(* record_access with analyze_locality *)
RecordAddress(o) ==
  /\ history' = [history EXCEPT ![o] = IF @ = 3 THEN 3 ELSE @ + 1]
  /\ \/ /\ history'[o] # history[o]
        /\ UNCHANGED <<prefetch_queue, prefetch_ids, clientCalls>>
     \/ /\ history'[o] = 3 /\ Called
        /\ prefetch_ids' = prefetch_ids + 1
        /\ prefetch_queue' = Append(prefetch_queue, Request(o, TRUE))
  /\ UNCHANGED <<hand, prefetched, placementVars, lifecycleVars>>

SubmitPrefetches(requests) ==
  /\ Called
  /\ prefetch_ids' = prefetch_ids + Len(requests)
  /\ prefetch_queue' = prefetch_queue \o requests
  /\ UNCHANGED <<history, hand, prefetched, placementVars, lifecycleVars>>

CancelPrefetch(o) ==
  LET others == {i \in DOMAIN prefetch_queue : prefetch_queue[i].object # o} IN
  /\ others # DOMAIN prefetch_queue
  /\ prefetch_queue' \in KeptAt(prefetch_queue, others)
  /\ prefetched' = [prefetched EXCEPT
       !.cancelled = @ + Len(prefetch_queue) - Len(prefetch_queue')]
  /\ UNCHANGED <<history, hand, prefetch_ids, placementVars, clientCalls,
                 lifecycleVars>>

-----------------------------------------------------------------------------
(* worker_loop *)

Working == worker["prefetch"] = "work"
NextTurn ==
  /\ worker' = [worker EXCEPT !["prefetch"] = "loop"]
  /\ UNCHANGED <<is_running, lock, joining, starts, terminated>>

PrefetchLoop ==
  /\ WorkerTest("prefetch")
  /\ UNCHANGED <<prefetchVars, placementVars, clientCalls>>

TakeRequest ==
  /\ Working /\ hand = NoRequest /\ prefetch_queue # << >>
  /\ hand' = Head(prefetch_queue)
  /\ prefetch_queue' = Tail(prefetch_queue)
  /\ UNCHANGED <<history, prefetch_ids, prefetched,
                 placementVars, clientCalls, lifecycleVars>>

(* Faulty variant of NothingToDo: the worker ends when there is no work. *)
NothingToDo_Ends ==
  /\ Working /\ hand = NoRequest /\ prefetch_queue = << >>
  /\ worker' = [worker EXCEPT !["prefetch"] = "ended"]
  /\ UNCHANGED <<is_running, lock, joining, starts, terminated>>
  /\ UNCHANGED <<prefetchVars, placementVars, clientCalls>>

NothingToDo ==
  /\ Working /\ hand = NoRequest /\ prefetch_queue = << >>
  /\ NextTurn
  /\ UNCHANGED <<prefetchVars, placementVars, clientCalls>>

Settled(field) ==
  /\ hand' = NoRequest
  /\ prefetched' = [prefetched EXCEPT ![field] = @ + 1]
  /\ NextTurn
  /\ UNCHANGED <<prefetch_queue, history, prefetch_ids>>

ExpiredRequest ==
  /\ Working /\ hand.expires
  /\ Settled("cancelled")
  /\ UNCHANGED <<placementVars, clientCalls>>

Issue ==
  /\ Working /\ hand # NoRequest
  /\ Enqueue(hand.object)
  /\ hand' = NoRequest
  /\ prefetched' = [prefetched EXCEPT !.issued = @ + 1, !.hits = @ + 1]
  /\ NextTurn
  /\ UNCHANGED <<prefetch_queue, history, prefetch_ids, clientCalls>>

Miss ==
  /\ Working /\ hand # NoRequest /\ Refused(hand.object)
  /\ Settled("misses")
  /\ UNCHANGED <<placementVars, clientCalls>>

PrefetchWork == PrefetchLoop \/ TakeRequest \/ NothingToDo \/ ExpiredRequest \/ Issue \/ Miss

PrefetchStep ==
  \/ \E o \in Objects : RecordAddress(o)
  \/ \E o \in Objects \cup {kNull} : CancelPrefetch(o)
  \/ \E o \in Objects \cup {kNull}, x \in BOOLEAN :
       \/ SubmitPrefetches(<<Request(o, x)>>)
       \/ SubmitPrefetches(<<Request(o, x), Request(o, FALSE)>>)
  \/ PrefetchWork

-----------------------------------------------------------------------------
AllSettled == prefetched.cancelled + prefetched.hits + prefetched.misses

(* No request is lost or counted twice, also when it is cancelled while    *)
(* the worker has just taken it: each is in the queue, in the worker's     *)
(* hand, or counted as cancelled, hit or miss.                             *)
RequestsConserved ==
  /\ prefetch_ids = Len(prefetch_queue) + (IF hand = NoRequest THEN 0 ELSE 1)
                    + AllSettled
  /\ prefetched.issued = prefetched.hits

(* As long as the worker is not stopped, every request is settled: once    *)
(* clients make no more of them, the queue is emptied.                     *)
RequestsSettled ==
  is_running["prefetch"]
    ~> \/ prefetch_queue = << >> /\ hand = NoRequest
       \/ ~ is_running["prefetch"] \/ terminated
=============================================================================
