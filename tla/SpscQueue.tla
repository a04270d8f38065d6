----------------------------- MODULE SpscQueue -----------------------------
(***************************************************************************)
(* LockFreeSpscQueue<T, Capacity> (core/include/ume/concurrency/           *)
(* spsc_queue.h): one producer pushes at head_, one consumer pops at       *)
(* tail_, and each keeps a cached copy of the other's index that it        *)
(* refreshes only when the copy says "full" (or "empty").                  *)
(*                                                                         *)
(* One step is one access to memory the other thread uses.  Each index has *)
(* one writer, whose own relaxed load of it reads its last store.  Both    *)
(* push overloads are the same code.                                       *)
(***************************************************************************)
EXTENDS Integers, Sequences

CONSTANTS
  Capacity,  \* template parameter
  MaxCalls   \* bound: push calls

\* The two static_asserts of the class.
ASSUME CapacityPositive == Capacity \in Nat \ {0}
ASSUME CapacityPowerOfTwo == \E k \in 0 .. Capacity : Capacity = 2 ^ k

ASSUME MaxCallsNat == MaxCalls \in Nat

VARIABLES
  head,         \* head_, written by the producer
  cached_tail,  \* the producer's copy of tail_
  tail,         \* tail_, written by the consumer
  cached_head,  \* the consumer's copy of head_
  buffer,       \* buffer_
  ppc,          \* where the producer is in push
  calls,        \* push calls started; the last one pushes the element calls
  cpc,          \* where the consumer is in pop, or after front
  observer,     \* a thread in approx_size: its h, and its last result
  accepted,     \* history: elements whose push stored head_
  delivered     \* history: elements pop has moved out

ring == <<head, tail, buffer>>
producer == <<cached_tail, ppc, calls>>
consumer == <<cached_head, cpc>>
spscVars == <<ring, producer, consumer, observer, accepted, delivered>>

Slots == 0 .. Capacity - 1

(* n & kMask, Capacity being a power of two *)
Slot(n) == n % Capacity

Items == 1 .. MaxCalls
NoItem == 0    \* a default-constructed or moved-from element

SpscInit ==
  /\ head = 0 /\ cached_tail = 0
  /\ tail = 0 /\ cached_head = 0
  /\ buffer = [i \in Slots |-> NoItem]
  /\ ppc = "idle" /\ calls = 0
  /\ cpc = "idle"
  /\ observer = [at |-> "h", h |-> 0, size |-> 0]
  /\ accepted = << >>
  /\ delivered = << >>

-----------------------------------------------------------------------------
(* Faulty variants of the actions below, with which each property fails.   *)

(* Compares with > : one push too many against the cached tail. *)
PushRoom_OffByOne ==
  /\ ppc \in {"idle", "full"} /\ calls < MaxCalls
  /\ head - cached_tail <= Capacity
  /\ calls' = calls + 1
  /\ ppc' = "write"
  /\ UNCHANGED <<ring, cached_tail, consumer, observer, accepted, delivered>>

(* Answers "full" from the cached tail, without looking at tail_. *)
PushFull_TrustsCache ==
  /\ ppc \in {"idle", "full"} /\ calls < MaxCalls
  /\ head - cached_tail >= Capacity
  /\ calls' = calls + 1
  /\ ppc' = "full"
  /\ UNCHANGED <<ring, cached_tail, consumer, observer, accepted, delivered>>

(* Takes a cell after the reload without comparing again. *)
PopReload_NoRecheck ==
  /\ cpc \in {"idle", "empty"}
  /\ cached_head = tail
  /\ cached_head' = head
  /\ cpc' = "move"
  /\ UNCHANGED <<ring, producer, observer, accepted, delivered>>

(* Returns the address of the cell without looking at head_. *)
Front_Unchecked ==
  /\ cpc \in {"idle", "empty"}
  /\ cpc' = "peek"
  /\ UNCHANGED <<ring, producer, cached_head, observer, accepted, delivered>>

-----------------------------------------------------------------------------
(* push.  "full" is a producer whose last call returned false.             *)

PushRoom ==
  /\ ppc \in {"idle", "full"} /\ calls < MaxCalls
  /\ head - cached_tail < Capacity
  /\ calls' = calls + 1
  /\ ppc' = "write"
  /\ UNCHANGED <<ring, cached_tail, consumer, observer, accepted, delivered>>

(* The cached tail says full, and so does tail_. *)
PushFull ==
  /\ ppc \in {"idle", "full"} /\ calls < MaxCalls
  /\ head - cached_tail >= Capacity
  /\ head - tail >= Capacity
  /\ cached_tail' = tail
  /\ calls' = calls + 1
  /\ ppc' = "full"
  /\ UNCHANGED <<ring, consumer, observer, accepted, delivered>>

(* The cached tail says full, but the consumer has moved on since. *)
PushReload ==
  /\ ppc \in {"idle", "full"} /\ calls < MaxCalls
  /\ head - cached_tail >= Capacity
  /\ head - tail < Capacity
  /\ cached_tail' = tail
  /\ calls' = calls + 1
  /\ ppc' = "write"
  /\ UNCHANGED <<ring, consumer, observer, accepted, delivered>>

PushWrite ==
  /\ ppc = "write"
  /\ buffer' = [buffer EXCEPT ![Slot(head)] = calls]
  /\ ppc' = "publish"
  /\ UNCHANGED <<head, tail, cached_tail, calls, consumer, observer, accepted,
                 delivered>>

PushPublish ==
  /\ ppc = "publish"
  /\ head' = head + 1
  /\ accepted' = Append(accepted, calls)
  /\ ppc' = "idle"
  /\ UNCHANGED <<tail, buffer, cached_tail, calls, consumer, observer,
                 delivered>>

-----------------------------------------------------------------------------
(* pop and front.  "empty" is a consumer whose last pop returned false or  *)
(* whose last front returned nullptr; "peek" is one that holds the pointer *)
(* front gave it.                                                          *)

PopReady ==
  /\ cpc \in {"idle", "empty"}
  /\ cached_head # tail
  /\ cpc' = "move"
  /\ UNCHANGED <<ring, producer, cached_head, observer, accepted, delivered>>

PopEmpty ==
  /\ cpc \in {"idle", "empty"}
  /\ cached_head = tail
  /\ head = tail
  /\ cached_head' = head
  /\ cpc' = "empty"
  /\ UNCHANGED <<ring, producer, observer, accepted, delivered>>

PopReload ==
  /\ cpc \in {"idle", "empty"}
  /\ cached_head = tail
  /\ head # tail
  /\ cached_head' = head
  /\ cpc' = "move"
  /\ UNCHANGED <<ring, producer, observer, accepted, delivered>>

PopMove ==
  /\ cpc = "move"
  /\ delivered' = Append(delivered, buffer[Slot(tail)])
  /\ buffer' = [buffer EXCEPT ![Slot(tail)] = NoItem]
  /\ cpc' = "advance"
  /\ UNCHANGED <<head, tail, producer, cached_head, observer, accepted>>

PopAdvance ==
  /\ cpc = "advance"
  /\ tail' = tail + 1
  /\ cpc' = "idle"
  /\ UNCHANGED <<head, buffer, producer, cached_head, observer, accepted,
                 delivered>>

Front ==
  /\ cpc \in {"idle", "empty"}
  /\ head # tail
  /\ cpc' = "peek"
  /\ UNCHANGED <<ring, producer, cached_head, observer, accepted, delivered>>

FrontEmpty ==
  /\ cpc \in {"idle", "empty"}
  /\ head = tail
  /\ cpc' = "empty"
  /\ UNCHANGED <<ring, producer, cached_head, observer, accepted, delivered>>

(* The consumer is done with the pointer before it calls the queue again.  *)
FrontDone ==
  /\ cpc = "peek"
  /\ cpc' = "idle"
  /\ UNCHANGED <<ring, producer, cached_head, observer, accepted, delivered>>

-----------------------------------------------------------------------------
(* approx_size, and empty, which compares its answer with 0, from any      *)
(* thread: two loads, one after the other.                                 *)

ApproxSizeHead ==
  /\ observer.at = "h"
  /\ observer' = [observer EXCEPT !.at = "t", !.h = head]
  /\ UNCHANGED <<ring, producer, consumer, accepted, delivered>>

ApproxSizeTail ==
  /\ observer.at = "t"
  /\ observer' = [at |-> "h", h |-> 0,
                  size |-> IF observer.h >= tail THEN observer.h - tail ELSE 0]
  /\ UNCHANGED <<ring, producer, consumer, accepted, delivered>>

PushStep == PushWrite \/ PushPublish
PopStep == PopReady \/ PopEmpty \/ PopReload \/ PopMove \/ PopAdvance

SpscNext ==
  \/ PushRoom \/ PushFull \/ PushReload \/ PushStep
  \/ PopStep
  \/ Front \/ FrontEmpty \/ FrontDone
  \/ ApproxSizeHead \/ ApproxSizeTail

SpscSpec == SpscInit /\ [][SpscNext]_spscVars

(* A push that has begun to write ends, the consumer gives up the pointer  *)
(* of front, and it calls pop again and again: pop is enabled between      *)
(* calls only, and front calls may come in between, hence strong fairness. *)
Fairness ==
  /\ WF_spscVars(PushStep)
  /\ WF_spscVars(FrontDone)
  /\ SF_spscVars(PopStep)

SpscFairSpec == SpscSpec /\ Fairness

-----------------------------------------------------------------------------
(* Properties *)

(* Every variable stays in its type. *)
SpscTypeOK ==
  /\ head \in Nat /\ cached_tail \in Nat
  /\ tail \in Nat /\ cached_head \in Nat
  /\ buffer \in [Slots -> Items \cup {NoItem}]
  /\ ppc \in {"idle", "full", "write", "publish"}
  /\ calls \in 0 .. MaxCalls
  /\ cpc \in {"idle", "empty", "move", "advance", "peek"}
  /\ observer \in [at : {"h", "t"}, h : Nat, size : Nat]
  /\ accepted \in Seq(Items)
  /\ delivered \in Seq(Items \cup {NoItem})

(* No data race on a cell: the producer never writes the cell the consumer *)
(* is moving an element out of, or reading through front's pointer.        *)
NoDataRace ==
  ppc = "write" /\ cpc \in {"move", "peek"} => Slot(head) # Slot(tail)

(* As long as the consumer holds the pointer front gave it, the cell holds *)
(* the oldest element of the queue, whatever the producer does.            *)
FrontIsOldest ==
  cpc = "peek" => /\ Len(delivered) < Len(accepted)
                  /\ buffer[Slot(tail)] = accepted[Len(delivered) + 1]

(* push returns false only at an instant when Capacity elements are in the *)
(* queue (spsc_queue.h:39, "Queue is full"), however old cached_tail_ is.  *)
FullOnlyWhenFull ==
  [][calls' # calls /\ ppc' = "full" => head - tail = Capacity]_spscVars

(* pop returns false, and front nullptr, only at an instant when every     *)
(* accepted element is out (spsc_queue.h:69), however old cached_head_ is. *)
EmptyOnlyWhenEmpty ==
  [][cpc' = "empty" /\ cpc # "empty" => delivered = accepted]_spscVars

(* Both answers are true when they are given. *)
AnswersTrue == FullOnlyWhenFull /\ EmptyOnlyWhenEmpty

(* approx_size reads the indices at different times; the answer is still   *)
(* one the queue could have.                                               *)
ApproxSizeBound == observer.size <= Capacity

(* The ring implements a bounded FIFO, an element being in from the store  *)
(* of head_ until pop moves it out.                                        *)
Fifo == INSTANCE BoundedFifo WITH
  Items <- Items, Capacity <- Capacity, accepted <- accepted, delivered <- delivered
ImplementsFifo == Fifo!Spec

(* Every element pushed reaches the consumer. *)
EveryElementDelivered ==
  \A n \in 1 .. MaxCalls : Len(accepted) >= n ~> Len(delivered) >= n

-----------------------------------------------------------------------------
(* The inductive invariant behind these properties. *)

(* The indices, their cached copies and the histories. *)
IndexInv ==
  /\ cached_tail <= tail /\ tail <= cached_head /\ cached_head <= head
  /\ head - cached_tail <= Capacity
  /\ ppc \in {"write", "publish"} =>
       head - cached_tail < Capacity /\ calls > 0
  /\ cpc \in {"move", "advance"} => tail < cached_head
  /\ cpc = "peek" => tail < head
  /\ Len(accepted) = head
  /\ Len(delivered) = IF cpc = "advance" THEN tail + 1 ELSE tail

(* Every element in the queue is in the cell of its position. *)
CellInv ==
  /\ \A n \in Len(delivered) .. head - 1 : buffer[Slot(n)] = accepted[n + 1]
  /\ ppc = "publish" => buffer[Slot(head)] = calls

(* What came out is what went in, in the same order. *)
DeliveredPrefix ==
  \A i \in 1 .. Len(delivered) : delivered[i] = accepted[i]

ObserverInv ==
  /\ observer.at = "t" => observer.h <= head
  /\ observer.size <= Capacity

(* The inductive invariant: the conjunction of the parts above. *)
IInv ==
  /\ SpscTypeOK
  /\ IndexInv
  /\ CellInv
  /\ DeliveredPrefix
  /\ ObserverInv
=============================================================================
