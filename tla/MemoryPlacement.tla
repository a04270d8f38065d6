-------------------------- MODULE MemoryPlacement --------------------------
(***************************************************************************)
(* MemoryPlacementEngine (core/src/event/memory_placement.cpp): a queue of *)
(* placement requests, at most one per object, filled by the optimizer,    *)
(* the prefetch worker and direct callers, and emptied by whoever carries  *)
(* placements out.  Every operation holds mutex_ from start to end.  Of a  *)
(* request only the object is kept: nothing here looks at its number, its  *)
(* time or the decision it carries.                                        *)
(***************************************************************************)
EXTENDS Integers, Sequences

CONSTANTS
  Objects,      \* object ids
  kNull,        \* ObjectId::kNull
  MaxClientCalls      \* bound: calls by clients of the three engines

VARIABLES
  queue,              \* queue_: the object of each request
  pending_objects,    \* pending_objects_
  clientCalls               \* calls by clients so far

placementVars == <<queue, pending_objects>>

PlacementInit ==
  /\ queue = << >> /\ pending_objects = {}
  /\ clientCalls = 0

Called == clientCalls < MaxClientCalls /\ clientCalls' = clientCalls + 1

(* Faulty variant of ClearQueue: forgets the set of pending objects. *)
ClearQueue_KeepsPending ==
  /\ queue # << >>
  /\ queue' = << >>
  /\ UNCHANGED <<pending_objects, clientCalls>>

(* enqueue_request refuses the null object and an object that is queued. *)
Refused(o) == o = kNull \/ o \in pending_objects

Enqueue(o) ==
  /\ ~ Refused(o)
  /\ queue' = Append(queue, o)
  /\ pending_objects' = pending_objects \cup {o}

EnqueueRequest(o) ==
  /\ Called
  /\ Enqueue(o)

DequeueRequest ==
  /\ queue # << >>
  /\ queue' = Tail(queue)
  /\ pending_objects' = pending_objects \ {Head(queue)}
  /\ UNCHANGED clientCalls

ClearQueue ==
  /\ queue # << >>
  /\ queue' = << >> /\ pending_objects' = {}
  /\ UNCHANGED clientCalls

PlacementStep ==
  \/ \E o \in Objects : EnqueueRequest(o)
  \/ DequeueRequest
  \/ ClearQueue

-----------------------------------------------------------------------------
(* memory_placement.h:51, "Prevents duplicate ObjectIds in queue": however *)
(* the callers interleave, an object has at most one request in the queue, *)
(* and it is refused exactly as long as it has one.                        *)
OneRequestPerObject ==
  /\ pending_objects = {queue[i] : i \in DOMAIN queue}
  /\ \A i, j \in DOMAIN queue : queue[i] = queue[j] => i = j
=============================================================================
