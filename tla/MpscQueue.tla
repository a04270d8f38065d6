----------------------------- MODULE MpscQueue -----------------------------
(***************************************************************************)
(* LockFreeMpscQueue<T, Capacity> (core/include/ume/concurrency/           *)
(* mpsc_queue.h): a ring of cells, each with a sequence number that says   *)
(* whose turn the cell is.  Producers claim a position by a CAS on         *)
(* enqueue_cursor_, write the cell and publish it; the only consumer reads *)
(* the cell, gives it back for the next lap and advances dequeue_cursor_.  *)
(*                                                                         *)
(* One step is one access to shared memory.  The relaxed loads of          *)
(* enqueue_cursor_ may return an old value, though never an older one than *)
(* the thread has already seen.  Both enqueue overloads are the same code. *)
(***************************************************************************)
EXTENDS Integers, Sequences, FiniteSets

CONSTANTS
  Producers,  \* threads that call enqueue
  Capacity,   \* template parameter
  MaxCalls    \* bound: enqueue calls per producer

\* The two static_asserts of the class.
ASSUME CapacityPositive == Capacity \in Nat \ {0}
ASSUME CapacityPowerOfTwo == \E k \in 0 .. Capacity : Capacity = 2 ^ k

ASSUME MaxCallsNat == MaxCalls \in Nat

VARIABLES
  sequence,        \* buffer_[i].sequence
  data,            \* buffer_[i].data
  enqueue_cursor,
  dequeue_cursor,
  pc,              \* where each producer is in enqueue
  pos,             \* its local pos; between calls, the newest cursor it saw
  calls,           \* number of enqueue calls each producer has started
  cpc,             \* where the consumer is in dequeue
  observer,        \* a thread in approx_size: its head, and its last result
  accepted,        \* history: elements in the order of the successful CASs
  delivered        \* history: elements dequeue has handed to the consumer

shared == <<sequence, data, enqueue_cursor, dequeue_cursor>>
history == <<accepted, delivered>>
vars == <<shared, pc, pos, calls, cpc, observer, history>>

Slots == 0 .. Capacity - 1

(* pos & kMask, Capacity being a power of two *)
Slot(n) == n % Capacity

(* Every call carries an element of its own. *)
Item(p) == <<p, calls[p]>>
Items == Producers \X (1 .. MaxCalls)
NoItem == <<>>

Init ==
  /\ sequence = [i \in Slots |-> i]
  /\ data = [i \in Slots |-> NoItem]
  /\ enqueue_cursor = 0
  /\ dequeue_cursor = 0
  /\ pc = [p \in Producers |-> "idle"]
  /\ pos = [p \in Producers |-> 0]
  /\ calls = [p \in Producers |-> 0]
  /\ cpc = "idle"
  /\ observer = [at |-> "head", head |-> 0, size |-> 0]
  /\ accepted = << >>
  /\ delivered = << >>

-----------------------------------------------------------------------------
(* Faulty variants of the actions below, with which each property fails.   *)

(* Answers "full" whenever the position is not its own. *)
EnqueueFull_AnyMismatch(p) ==
  /\ pc[p] = "check"
  /\ sequence[Slot(pos[p])] # pos[p]
  /\ pc' = [pc EXCEPT ![p] = "full"]
  /\ UNCHANGED <<shared, pos, calls, cpc, observer, history>>

(* Publishes pos instead of pos + 1. *)
EnqueuePublish_OffByOne(p) ==
  /\ pc[p] = "publish"
  /\ sequence' = [sequence EXCEPT ![Slot(pos[p])] = pos[p]]
  /\ pos' = [pos EXCEPT ![p] = @ + 1]
  /\ pc' = [pc EXCEPT ![p] = "idle"]
  /\ UNCHANGED <<data, enqueue_cursor, dequeue_cursor, calls, cpc, observer,
                 history>>

(* Takes a cell that is claimed but not yet published. *)
DequeueTurn_OffByOne ==
  /\ cpc \in {"idle", "empty"}
  /\ dequeue_cursor < enqueue_cursor
  /\ cpc' = "move"
  /\ UNCHANGED <<shared, pc, pos, calls, observer, history>>

-----------------------------------------------------------------------------
(* enqueue.  "full" is a producer whose last call returned false.          *)

(* The values a relaxed load of enqueue_cursor_ by p may return. *)
Visible(p) == pos[p] .. enqueue_cursor

EnqueueCall(p) ==
  /\ pc[p] \in {"idle", "full"}
  /\ calls[p] < MaxCalls
  /\ calls' = [calls EXCEPT ![p] = @ + 1]
  /\ \E n \in Visible(p) : pos' = [pos EXCEPT ![p] = n]
  /\ pc' = [pc EXCEPT ![p] = "check"]
  /\ UNCHANGED <<shared, cpc, observer, history>>

(* diff == 0: the cell waits for this position. *)
EnqueueTurn(p) ==
  /\ pc[p] = "check"
  /\ sequence[Slot(pos[p])] = pos[p]
  /\ pc' = [pc EXCEPT ![p] = "cas"]
  /\ UNCHANGED <<shared, pos, calls, cpc, observer, history>>

(* diff < 0: the cell still holds the element of the previous lap. *)
EnqueueFull(p) ==
  /\ pc[p] = "check"
  /\ sequence[Slot(pos[p])] < pos[p]
  /\ pc' = [pc EXCEPT ![p] = "full"]
  /\ UNCHANGED <<shared, pos, calls, cpc, observer, history>>

(* diff > 0: another producer took the position; load the cursor again.    *)
(* Sequences only grow, so the test still holds when the cursor is read.   *)
EnqueueReload(p) ==
  /\ pc[p] = "check"
  /\ sequence[Slot(pos[p])] > pos[p]
  /\ \E n \in Visible(p) : pos' = [pos EXCEPT ![p] = n]
  /\ UNCHANGED <<shared, pc, calls, cpc, observer, history>>

EnqueueCas(p) ==
  /\ pc[p] = "cas"
  /\ enqueue_cursor = pos[p]
  /\ enqueue_cursor' = pos[p] + 1
  /\ accepted' = Append(accepted, Item(p))
  /\ pc' = [pc EXCEPT ![p] = "write"]
  /\ UNCHANGED <<sequence, data, dequeue_cursor, pos, calls, cpc, observer,
                 delivered>>

(* compare_exchange_weak fails, spuriously or not, and reloads pos. *)
EnqueueCasFail(p) ==
  /\ pc[p] = "cas"
  /\ \E n \in Visible(p) : pos' = [pos EXCEPT ![p] = n]
  /\ pc' = [pc EXCEPT ![p] = "check"]
  /\ UNCHANGED <<shared, calls, cpc, observer, history>>

EnqueueWrite(p) ==
  /\ pc[p] = "write"
  /\ data' = [data EXCEPT ![Slot(pos[p])] = Item(p)]
  /\ pc' = [pc EXCEPT ![p] = "publish"]
  /\ UNCHANGED <<sequence, enqueue_cursor, dequeue_cursor, pos, calls, cpc,
                 observer, history>>

(* The release store; enqueue returns true.  The CAS made the producer see *)
(* pos + 1 as the cursor's value.                                          *)
EnqueuePublish(p) ==
  /\ pc[p] = "publish"
  /\ sequence' = [sequence EXCEPT ![Slot(pos[p])] = pos[p] + 1]
  /\ pos' = [pos EXCEPT ![p] = @ + 1]
  /\ pc' = [pc EXCEPT ![p] = "idle"]
  /\ UNCHANGED <<data, enqueue_cursor, dequeue_cursor, calls, cpc, observer,
                 history>>

EnqueueStep(p) ==
  \/ EnqueueTurn(p) \/ EnqueueFull(p) \/ EnqueueReload(p)
  \/ EnqueueCas(p) \/ EnqueueCasFail(p)
  \/ EnqueueWrite(p) \/ EnqueuePublish(p)

-----------------------------------------------------------------------------
(* dequeue.  Only the consumer writes dequeue_cursor_, so its local pos is *)
(* the cursor.  "empty" is a consumer whose last call returned false.      *)

DequeueTurn ==
  /\ cpc \in {"idle", "empty"}
  /\ sequence[Slot(dequeue_cursor)] = dequeue_cursor + 1
  /\ cpc' = "move"
  /\ UNCHANGED <<shared, pc, pos, calls, observer, history>>

DequeueEmpty ==
  /\ cpc \in {"idle", "empty"}
  /\ sequence[Slot(dequeue_cursor)] # dequeue_cursor + 1
  /\ cpc' = "empty"
  /\ UNCHANGED <<shared, pc, pos, calls, observer, history>>

DequeueMove ==
  /\ cpc = "move"
  /\ delivered' = Append(delivered, data[Slot(dequeue_cursor)])
  /\ cpc' = "free"
  /\ UNCHANGED <<shared, pc, pos, calls, observer, accepted>>

DequeueFree ==
  /\ cpc = "free"
  /\ sequence' = [sequence EXCEPT
                    ![Slot(dequeue_cursor)] = dequeue_cursor + Capacity]
  /\ cpc' = "advance"
  /\ UNCHANGED <<data, enqueue_cursor, dequeue_cursor, pc, pos, calls,
                 observer, history>>

DequeueAdvance ==
  /\ cpc = "advance"
  /\ dequeue_cursor' = dequeue_cursor + 1
  /\ cpc' = "idle"
  /\ UNCHANGED <<sequence, data, enqueue_cursor, pc, pos, calls, observer,
                 history>>

DequeueStep ==
  DequeueTurn \/ DequeueEmpty \/ DequeueMove \/ DequeueFree \/ DequeueAdvance

-----------------------------------------------------------------------------
(* approx_size, from any thread: two loads, one after the other. *)

ApproxSizeHead ==
  /\ observer.at = "head"
  /\ observer' = [observer EXCEPT !.at = "tail", !.head = enqueue_cursor]
  /\ UNCHANGED <<shared, pc, pos, calls, cpc, history>>

ApproxSizeTail ==
  /\ observer.at = "tail"
  /\ observer' = [at |-> "head", head |-> 0,
                  size |-> IF observer.head >= dequeue_cursor
                             THEN observer.head - dequeue_cursor ELSE 0]
  /\ UNCHANGED <<shared, pc, pos, calls, cpc, history>>

Next ==
  \/ \E p \in Producers : EnqueueCall(p) \/ EnqueueStep(p)
  \/ DequeueStep
  \/ ApproxSizeHead \/ ApproxSizeTail

Spec == Init /\ [][Next]_vars

(* A producer that has claimed a position is not suspended forever before  *)
(* it publishes, and the consumer keeps polling dequeue.                   *)
Fairness ==
  /\ \A p \in Producers : WF_vars(EnqueueWrite(p)) /\ WF_vars(EnqueuePublish(p))
  /\ WF_vars(DequeueStep)

FairSpec == Spec /\ Fairness

-----------------------------------------------------------------------------
(* Properties *)

(* The cells given back to the producers, counted in positions: the cell   *)
(* is free before dequeue_cursor_ says so.                                 *)
Freed == IF cpc = "advance" THEN dequeue_cursor + 1 ELSE dequeue_cursor

(* Every variable stays in its type. *)
TypeOK ==
  /\ sequence \in [Slots -> Nat]
  /\ data \in [Slots -> Items \cup {NoItem}]
  /\ enqueue_cursor \in Nat
  /\ dequeue_cursor \in Nat
  /\ pc \in [Producers ->
              {"idle", "full", "check", "cas", "write", "publish"}]
  /\ pos \in [Producers -> Nat]
  /\ calls \in [Producers -> 0 .. MaxCalls]
  /\ cpc \in {"idle", "empty", "move", "free", "advance"}
  /\ observer \in [at : {"head", "tail"}, head : Nat, size : Nat]
  /\ accepted \in Seq(Items)
  /\ delivered \in Seq(Items \cup {NoItem})

(* A claimed position is not more than a lap ahead of the consumer: no     *)
(* cell is claimed while it holds an element dequeue has not taken (the    *)
(* Capacity of mpsc_queue.h:18).                                           *)
NoOverrun == enqueue_cursor - Freed <= Capacity

(* No data race on a cell's data: the cell a producer is about to write is *)
(* neither written by another producer nor read by the consumer.           *)
NoDataRace ==
  \A p \in Producers : pc[p] = "write" =>
    /\ \A q \in Producers \ {p} :
         pc[q] = "write" => Slot(pos[q]) # Slot(pos[p])
    /\ cpc = "move" => Slot(dequeue_cursor) # Slot(pos[p])

(* Elements of one producer come out in the order it enqueued them, each   *)
(* at most once.                                                           *)
ProducerOrder ==
  \A i, j \in 1 .. Len(delivered) :
    i < j /\ delivered[i][1] = delivered[j][1]
      => delivered[i][2] < delivered[j][2]

(* enqueue returns false only at an instant when every cell was taken      *)
(* (mpsc_queue.h:42, "false if the queue is full").                        *)
FullOnlyWhenFull ==
  [][\A p \in Producers :
       pc'[p] = "full" /\ pc[p] # "full" => enqueue_cursor - Freed = Capacity
    ]_vars

(* approx_size reads the two cursors at different times and the consumer   *)
(* frees a cell before it moves its cursor, yet the answer is never below  *)
(* zero and never exceeds the capacity by more than one.                   *)
ApproxSizeBound == 0 <= observer.size /\ observer.size <= Capacity + 1

(* The ring implements a bounded FIFO, an element being in from the CAS    *)
(* that claims its position until dequeue moves it out.                    *)
Fifo == INSTANCE BoundedFifo WITH
  Items <- Items, Capacity <- Capacity, accepted <- accepted, delivered <- delivered
ImplementsFifo == Fifo!Spec

(* Every element whose position was claimed reaches the consumer. *)
EveryElementDelivered ==
  \A n \in 1 .. MaxCalls * Cardinality(Producers) :
    Len(accepted) >= n ~> Len(delivered) >= n

-----------------------------------------------------------------------------
(* The inductive invariant behind these properties, for Capacity > 1.      *)

Claimed(p) == pc[p] \in {"write", "publish"}

(* A producer in enqueue has counted its call. *)
CallInv == \A p \in Producers : pc[p] # "idle" => calls[p] > 0

(* The cursors delimit the elements in the ring, and count the histories. *)
CursorInv ==
  /\ Freed <= enqueue_cursor
  /\ enqueue_cursor <= Freed + Capacity
  /\ Len(accepted) = enqueue_cursor
  /\ Len(delivered) = IF cpc \in {"free", "advance"}
                        THEN dequeue_cursor + 1 ELSE dequeue_cursor
  /\ \A p \in Producers : pos[p] <= enqueue_cursor

(* A producer about to CAS at the cursor's value has seen a free cell. *)
CasInv ==
  \A p \in Producers :
    pc[p] = "cas" /\ pos[p] = enqueue_cursor
      => enqueue_cursor < Freed + Capacity

(* The sequence number of each cell of the current lap tells its state. *)
CellInv ==
  \A n \in Freed .. Freed + Capacity - 1 :
    /\ n >= enqueue_cursor => sequence[Slot(n)] = n
    /\ n < enqueue_cursor => sequence[Slot(n)] \in {n, n + 1}
    /\ n < enqueue_cursor /\ sequence[Slot(n)] = n + 1
         => data[Slot(n)] = accepted[n + 1]

(* A cell is never behind a position that has been claimed on it. *)
LapInv == \A n \in 0 .. enqueue_cursor - 1 : sequence[Slot(n)] >= n

(* A claimed position belongs to one producer until it is published. *)
OwnerInv ==
  /\ \A p \in Producers : Claimed(p) =>
       /\ Freed <= pos[p] /\ pos[p] < enqueue_cursor
       /\ sequence[Slot(pos[p])] = pos[p]
       /\ accepted[pos[p] + 1] = Item(p)
       /\ pc[p] = "publish" => data[Slot(pos[p])] = Item(p)
  /\ \A p, q \in Producers :
       p # q /\ Claimed(p) /\ Claimed(q) => pos[p] # pos[q]

(* The consumer holds a published cell from its test until it frees it. *)
ConsumerInv ==
  cpc \in {"move", "free"} =>
    /\ dequeue_cursor < enqueue_cursor
    /\ sequence[Slot(dequeue_cursor)] = dequeue_cursor + 1

(* What came out is what went in, in the same order. *)
DeliveredPrefix ==
  \A i \in 1 .. Len(delivered) : delivered[i] = accepted[i]

(* A producer's accepted elements come from its finished calls, or from    *)
(* the call it has claimed a position in.                                  *)
AcceptedCalls ==
  \A i \in 1 .. Len(accepted) : \A p \in Producers : accepted[i][1] = p =>
    /\ accepted[i][2] <= calls[p]
    /\ pc[p] \in {"check", "cas"} => accepted[i][2] < calls[p]

(* Each producer's elements were accepted in the order of its calls. *)
AcceptedOrder ==
  \A i, j \in 1 .. Len(accepted) :
    i < j /\ accepted[i][1] = accepted[j][1]
      => accepted[i][2] < accepted[j][2]

ObserverInv ==
  /\ observer.at = "tail" => observer.head <= enqueue_cursor
  /\ ApproxSizeBound

(* The inductive invariant: the conjunction of the parts above. *)
IInv ==
  /\ TypeOK
  /\ CallInv
  /\ CursorInv
  /\ CasInv
  /\ CellInv
  /\ LapInv
  /\ OwnerInv
  /\ ConsumerInv
  /\ DeliveredPrefix
  /\ AcceptedCalls
  /\ AcceptedOrder
  /\ ObserverInv
=============================================================================
