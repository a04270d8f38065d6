---------------------------- MODULE BoundedFifo ----------------------------
(***************************************************************************)
(* What the lock-free queues promise their users: a first-in first-out     *)
(* queue that never holds more than Capacity elements, loses none,         *)
(* duplicates none and reorders none.  The queue is written as the two     *)
(* histories a client can observe: the elements accepted by the producer   *)
(* side and the elements delivered by the consumer side.                   *)
(***************************************************************************)
EXTENDS Integers, Sequences

CONSTANTS
  Items,     \* what producers may hand to the queue
  Capacity   \* template parameter Capacity of the queues

VARIABLES
  accepted,  \* elements in the order the queue took them in
  delivered  \* elements in the order the consumer received them

vars == <<accepted, delivered>>

Init ==
  /\ accepted = << >>
  /\ delivered = << >>

(* A full queue accepts nothing. *)
Accept(item) ==
  /\ Len(accepted) - Len(delivered) < Capacity
  /\ accepted' = Append(accepted, item)
  /\ UNCHANGED delivered

(* The oldest element not yet delivered is the next one out. *)
Deliver ==
  /\ Len(delivered) < Len(accepted)
  /\ delivered' = Append(delivered, accepted[Len(delivered) + 1])
  /\ UNCHANGED accepted

Next == (\E item \in Items : Accept(item)) \/ Deliver

Spec == Init /\ [][Next]_vars
=============================================================================
