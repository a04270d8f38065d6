---------------------------- MODULE EventProofs ----------------------------
(***************************************************************************)
(* The way of the events: the queue that hands them from thread to thread  *)
(* (MpscQueue), and the journal they are read back from (ReplayEngine).    *)
(*                                                                         *)
(* MpscQueue, for every capacity above one, every set of producers and     *)
(* every number of calls.  IInv is inductive: there is one lemma per       *)
(* action (or per pair of actions that change the same things), and the    *)
(* theorems after them follow from the invariant.  With Capacity = 1 a     *)
(* cell published for its next consumer looks like a cell freed for its    *)
(* next producer; the proof needs Capacity > 1 in EnqueueTurnInv only.     *)
(*                                                                         *)
(* What read_next and a replay find in any number of segment files of any  *)
(* size and with any damage.                                               *)
(***************************************************************************)
EXTENDS MpscQueue, ReplayEngine, TLAPS

-----------------------------------------------------------------------------
(* Which positions of an unbounded counter share a cell of a ring of C.    *)

(* Multiples of C that differ are at least C apart. *)
LEMMA MultiplesApart ==
  ASSUME NEW C \in Nat, NEW a \in Int, NEW b \in Int, a < b
  PROVE  C * a + C <= C * b
  <1>1. b - a - 1 >= 0
    OBVIOUS
  <1>2. C * (b - a - 1) >= 0
    BY <1>1
  <1>3. C * (b - a - 1) = C * b - C * a - C
    OBVIOUS
  <1> QED
    BY <1>2, <1>3

(* Quotient and remainder are determined by the number they make up. *)
LEMMA DivisionUnique ==
  ASSUME NEW C \in Nat \ {0},
         NEW q \in Nat, NEW r \in Nat, NEW s \in Nat, NEW t \in Nat,
         r < C, t < C, C * q + r = C * s + t
  PROVE  q = s /\ r = t
  <1>1. ~ (q < s)
    <2> SUFFICES ASSUME q < s PROVE FALSE
      BY Zenon
    <2>1. C * q + C <= C * s
      BY MultiplesApart
    <2> QED
      BY <2>1
  <1>2. ~ (s < q)
    <2> SUFFICES ASSUME s < q PROVE FALSE
      BY Zenon
    <2>1. C * s + C <= C * q
      BY MultiplesApart
    <2> QED
      BY <2>1
  <1>3. q = s
    BY <1>1, <1>2
  <1> QED
    BY <1>3

(* Quotient and remainder of a natural number. *)
LEMMA Division ==
  ASSUME NEW C \in Nat \ {0}, NEW n \in Nat
  PROVE  /\ n \div C \in Nat
         /\ n % C \in 0 .. C - 1
         /\ n = C * (n \div C) + (n % C)
  OBVIOUS

(* A lap later the counter is on the same cell. *)
LEMMA SameCellAfterLap ==
  ASSUME NEW C \in Nat \ {0}, NEW n \in Nat
  PROVE  (n + C) % C = n % C
  <1> DEFINE q == (n + C) \div C
             r == (n + C) % C
             s == n \div C
             t == n % C
  <1>1. n + C = C * q + r /\ q \in Nat /\ r \in 0 .. C - 1
    BY Division, n + C \in Nat, Zenon
  <1>2. n = C * s + t /\ s \in Nat /\ t \in 0 .. C - 1
    BY Division, Zenon
  <1> HIDE DEF q, r, s, t
  <1>3. C * (s + 1) = C * s + C
    BY <1>2
  <1>4. C * q + r = C * (s + 1) + t
    BY <1>1, <1>2, <1>3
  <1>5. r = t
    BY <1>1, <1>2, <1>4, s + 1 \in Nat, DivisionUnique
  <1> QED
    BY <1>5, Zenon DEF r, t

(* Counters less than a lap apart are on different cells. *)
LEMMA CellsDifferWithinLap ==
  ASSUME NEW C \in Nat \ {0}, NEW m \in Nat, NEW n \in Nat, m < n, n < m + C
  PROVE  m % C # n % C
  <1> SUFFICES ASSUME m % C = n % C PROVE FALSE
    BY Zenon
  <1>1. m = C * (m \div C) + (m % C) /\ m \div C \in Nat
    BY Division, Zenon
  <1>2. n = C * (n \div C) + (n % C) /\ n \div C \in Nat
    BY Division, Zenon
  <1>3. C * (m \div C) < C * (n \div C)
    BY <1>1, <1>2
  <1>4. CASE m \div C < n \div C
    <2>1. C * (m \div C) + C <= C * (n \div C)
      BY <1>1, <1>2, <1>4, MultiplesApart
    <2> QED
      BY <1>1, <1>2, <2>1
  <1>5. CASE n \div C <= m \div C
    <2>1. C * (n \div C) <= C * (m \div C)
      BY <1>1, <1>2, <1>5, MultiplesApart
    <2> QED
      BY <1>3, <2>1
  <1> QED
    BY <1>1, <1>2, <1>4, <1>5

-----------------------------------------------------------------------------
(* MpscQueue *)

(* A position falls on a cell of the ring. *)
LEMMA SlotType == \A n \in Nat : Slot(n) \in Slots
  BY CapacityPositive, Division, Zenon DEF Slot, Slots

(* One lap later the position falls on the same cell. *)
LEMMA SlotLap == \A n \in Nat : Slot(n + Capacity) = Slot(n)
  BY CapacityPositive, SameCellAfterLap, Zenon DEF Slot

(* Positions less than a lap apart fall on different cells. *)
LEMMA SlotInjective ==
  \A m, n \in Nat : m < n /\ n < m + Capacity => Slot(m) # Slot(n)
  BY CapacityPositive, CellsDifferWithinLap, Zenon DEF Slot

(* Each position of the first lap is its own cell. *)
LEMMA SlotFirstLap == \A n \in Slots : Slot(n) = n
  BY CapacityPositive DEF Slot, Slots

(* The constructor establishes the invariant. *)
LEMMA InitInv == Init => IInv
  <1> SUFFICES ASSUME Init PROVE IInv
    BY Zenon
  <1> USE CapacityPositive, MaxCallsNat DEF Init
  <1>1. TypeOK
    BY DEF TypeOK, Slots, Items, NoItem
  <1>2. CellInv
    BY SlotFirstLap DEF CellInv, Freed, Slots
  <1>3. CallInv /\ CursorInv /\ CasInv
    BY DEF CallInv, CursorInv, CasInv, Freed
  <1>4. LapInv /\ OwnerInv /\ ConsumerInv
    BY DEF LapInv, OwnerInv, ConsumerInv, Claimed
  <1>5. DeliveredPrefix /\ AcceptedCalls /\ AcceptedOrder /\ ObserverInv
    BY DEF DeliveredPrefix, AcceptedCalls, AcceptedOrder, ObserverInv,
           ApproxSizeBound
  <1> QED
    BY <1>1, <1>2, <1>3, <1>4, <1>5, Zenon DEF IInv

(* Each accepted element names its producer and one of its calls. *)
LEMMA AcceptedType ==
  ASSUME TypeOK
  PROVE  \A i \in 1 .. Len(accepted) :
           accepted[i][1] \in Producers /\ accepted[i][2] \in Nat
  <1> SUFFICES ASSUME NEW i \in 1 .. Len(accepted)
               PROVE  accepted[i][1] \in Producers /\ accepted[i][2] \in Nat
    BY Zenon
  <1>1. accepted[i] \in Items
    BY DEF TypeOK
  <1> QED
    BY <1>1, MaxCallsNat DEF Items

(* A step that leaves the ring, the histories and the producers that own a *)
(* cell alone keeps everything the invariant says about the ring.          *)
LEMMA RingUntouched ==
  ASSUME IInv, UNCHANGED <<shared, history, cpc>>,
         \A q \in Producers : Claimed(q)' =>
           pc'[q] = pc[q] /\ pos'[q] = pos[q] /\ calls'[q] = calls[q]
  PROVE  /\ CellInv' /\ LapInv' /\ OwnerInv' /\ ConsumerInv'
         /\ DeliveredPrefix' /\ AcceptedOrder'
  <1> USE DEF IInv, shared, history, Freed
  <1>1. CellInv' /\ LapInv'
    BY Zenon DEF CellInv, LapInv
  <1>2. OwnerInv'
    BY SMTT(90) DEF OwnerInv, Claimed, Item
  <1>3. ConsumerInv' /\ DeliveredPrefix' /\ AcceptedOrder'
    BY Zenon DEF ConsumerInv, DeliveredPrefix, AcceptedOrder
  <1> QED
    BY <1>1, <1>2, <1>3, Zenon

(* Starting a call changes the producer only. *)
LEMMA EnqueueCallInv ==
  ASSUME IInv, NEW p \in Producers, EnqueueCall(p)
  PROVE  IInv'
  <1> USE MaxCallsNat DEF IInv
  <1>1. PICK n \in Visible(p) : pos' = [pos EXCEPT ![p] = n]
    BY Zenon DEF EnqueueCall
  <1>2. n \in Nat /\ n <= enqueue_cursor
    BY DEF Visible, TypeOK
  <1>3. TypeOK'
    BY <1>1, <1>2, SMTT(30), Zenon DEF EnqueueCall, TypeOK, shared, history
  <1>4. CallInv' /\ CasInv'
    BY DEF EnqueueCall, TypeOK, CallInv, CasInv, shared, Freed
  <1>5. CursorInv' /\ ObserverInv'
    BY <1>1, <1>2, Zenon DEF EnqueueCall, TypeOK, CursorInv, ObserverInv,
       ApproxSizeBound, shared, history, Freed
  <1>6. AcceptedCalls'
    <2> SUFFICES ASSUME NEW i \in 1 .. Len(accepted), NEW q \in Producers,
                        accepted[i][1] = q
                 PROVE  /\ accepted[i][2] <= calls'[q]
                        /\ pc'[q] \in {"check", "cas"}
                             => accepted[i][2] < calls'[q]
      BY Zenon DEF EnqueueCall, AcceptedCalls, history
    <2>1. accepted[i][2] \in Nat /\ accepted[i][2] <= calls[q]
      BY AcceptedType, Zenon DEF AcceptedCalls
    <2>2. CASE q = p
      BY <2>1, <2>2, SMTT(30), Zenon DEF EnqueueCall, TypeOK
    <2>3. CASE q # p
      BY <2>1, <2>3, Zenon DEF EnqueueCall, TypeOK, AcceptedCalls
    <2> QED
      BY <2>2, <2>3, Zenon
  <1> QED
    BY <1>3, <1>4, <1>5, <1>6, RingUntouched, Zenon
    DEF EnqueueCall, TypeOK, Claimed

(* A producer that finds its turn has found a free cell. *)
LEMMA EnqueueTurnInv ==
  ASSUME Capacity > 1, IInv, NEW p \in Producers, EnqueueTurn(p)
  PROVE  IInv'
  <1> USE CapacityPositive DEF IInv
  <1>1. TypeOK' /\ CallInv' /\ CursorInv' /\ ObserverInv'
    BY Zenon DEF EnqueueTurn, TypeOK, CallInv, CursorInv, ObserverInv,
       ApproxSizeBound, shared, history, Freed
  <1>2. CasInv'
    <2>1. pos[p] = enqueue_cursor => enqueue_cursor < Freed + Capacity
      \* A full ring shows the previous lap's sequence number.
      <3> SUFFICES ASSUME pos[p] = enqueue_cursor,
                          enqueue_cursor = Freed + Capacity
                   PROVE  FALSE
        BY DEF CursorInv, TypeOK, Freed
      <3>0. Freed \in Nat
        BY DEF TypeOK, Freed
      <3>1. Slot(enqueue_cursor) = Slot(Freed)
        BY <3>0, SlotLap, Zenon
      <3>2. sequence[Slot(Freed)] \in {Freed, Freed + 1}
        BY <3>0 DEF CellInv
      <3> QED
        BY <3>0, <3>1, <3>2 DEF EnqueueTurn
    <2> QED
      BY <2>1, Zenon DEF EnqueueTurn, CasInv, TypeOK, shared, Freed
  <1>3. AcceptedCalls'
    BY Zenon DEF EnqueueTurn, TypeOK, AcceptedCalls, history
  <1> QED
    BY <1>1, <1>2, <1>3, RingUntouched, Zenon DEF EnqueueTurn, TypeOK, Claimed

(* Answering "full" changes nothing but the producer. *)
LEMMA EnqueueFullInv ==
  ASSUME IInv, NEW p \in Producers, EnqueueFull(p)
  PROVE  IInv'
  <1> USE DEF IInv, EnqueueFull
  <1>1. TypeOK' /\ CallInv' /\ CursorInv' /\ CasInv' /\ ObserverInv'
    BY Zenon DEF TypeOK, CallInv, CursorInv, CasInv, ObserverInv, ApproxSizeBound,
       shared, history, Freed
  <1>2. AcceptedCalls'
    BY Zenon DEF TypeOK, AcceptedCalls, history
  <1> QED
    BY <1>1, <1>2, RingUntouched, Zenon DEF TypeOK, Claimed

(* Loading the cursor again, or losing the CAS, changes the producer only. *)
LEMMA EnqueueReloadInv ==
  ASSUME IInv, NEW p \in Producers,
         EnqueueReload(p) \/ EnqueueCasFail(p)
  PROVE  IInv'
  <1> USE DEF IInv
  <1>1. PICK n \in Visible(p) : pos' = [pos EXCEPT ![p] = n]
    BY Zenon DEF EnqueueReload, EnqueueCasFail
  <1>2. n \in Nat /\ n <= enqueue_cursor
    BY DEF Visible, TypeOK
  <1>3. /\ pc[p] \in {"check", "cas"}
        /\ pc' = [pc EXCEPT ![p] = "check"]
        /\ UNCHANGED <<shared, calls, cpc, observer, history>>
    BY Zenon DEF EnqueueReload, EnqueueCasFail, TypeOK
  <1>4. TypeOK'
    BY <1>1, <1>2, <1>3, Zenon DEF TypeOK, shared, history
  <1>5. CallInv' /\ CasInv'
    BY <1>1, <1>3, Zenon DEF TypeOK, CallInv, CasInv, shared, Freed
  <1>6. CursorInv' /\ ObserverInv'
    BY <1>1, <1>2, <1>3, Zenon DEF TypeOK, CursorInv, ObserverInv, ApproxSizeBound,
       shared, history, Freed
  <1>7. AcceptedCalls'
    BY <1>3, Zenon DEF TypeOK, AcceptedCalls, history
  <1> QED
    BY <1>1, <1>3, <1>4, <1>5, <1>6, <1>7, RingUntouched, Zenon DEF TypeOK, Claimed

(* In a call, a producer carries an element of its own. *)
LEMMA CallItemType ==
  ASSUME TypeOK, CallInv, NEW p \in Producers, pc[p] # "idle"
  PROVE  Item(p) \in Items
  <1>1. calls[p] \in 0 .. MaxCalls /\ calls[p] > 0
    BY Zenon DEF TypeOK, CallInv
  <1>2. calls[p] \in 1 .. MaxCalls
    BY <1>1, MaxCallsNat
  <1> QED
    BY <1>2, Zenon DEF Item, Items

(* The CAS makes the producer the owner of the next position. *)
LEMMA EnqueueCasInv ==
  ASSUME IInv, NEW p \in Producers, EnqueueCas(p)
  PROVE  IInv'
  <1> USE CapacityPositive DEF IInv, EnqueueCas
  <1> DEFINE E == enqueue_cursor
  <1>1. /\ Freed \in Nat /\ Freed' = Freed
        /\ E \in Nat /\ E < Freed + Capacity
        /\ sequence[Slot(E)] = E
    BY DEF TypeOK, Freed, CasInv, CellInv, CursorInv
  <1>0. Item(p) \in Items
    BY CallItemType, Zenon
  <1>2. /\ accepted' = Append(accepted, Item(p))
        /\ Len(accepted) = E /\ Len(accepted') = E + 1
        /\ accepted'[E + 1] = Item(p)
        /\ \A i \in 1 .. E : accepted'[i] = accepted[i]
    BY <1>0 DEF TypeOK, CursorInv
  <1>3. TypeOK'
    BY <1>0, <1>2 DEF TypeOK
  <1>4. CallInv' /\ CasInv'
    BY <1>1 DEF TypeOK, CallInv, CasInv, CursorInv
  <1>5. CursorInv'
    BY <1>1, <1>2 DEF TypeOK, CursorInv
  <1>6. CellInv'
    <2> SUFFICES ASSUME NEW n \in Freed .. Freed + Capacity - 1
                 PROVE  /\ n >= E + 1 => sequence[Slot(n)] = n
                        /\ n < E + 1 => sequence[Slot(n)] \in {n, n + 1}
                        /\ n < E + 1 /\ sequence[Slot(n)] = n + 1
                             => data[Slot(n)] = accepted'[n + 1]
      BY <1>1, Zenon DEF CellInv
    <2>1. CASE n = E
      BY <1>1, <2>1
    <2>2. CASE n < E
      <3>1. n + 1 \in 1 .. E
        BY <1>1, <2>2
      <3> QED
        BY <1>1, <1>2, <2>2, <3>1, SMTT(90) DEF CellInv
    <2>3. CASE n > E
      BY <1>1, <2>3 DEF CellInv
    <2>4. n = E \/ n < E \/ n > E
      BY <1>1
    <2> QED
      BY <2>1, <2>2, <2>3, <2>4, Zenon
  <1>7. LapInv'
    BY <1>1, SMTT(30) DEF TypeOK, LapInv
  <1>8. OwnerInv'
    <2>1. ASSUME NEW q \in Producers, Claimed(q)', q # p
          PROVE  Claimed(q) /\ pc'[q] = pc[q] /\ pos[q] < E
      BY <2>1, Zenon DEF TypeOK, Claimed, OwnerInv
    <2>2. pc'[p] = "write" /\ pos[p] = E
      BY Zenon DEF TypeOK
    <2>3. ASSUME NEW q \in Producers, Claimed(q)'
          PROVE  /\ Freed' <= pos'[q] /\ pos'[q] < enqueue_cursor'
                 /\ sequence'[Slot(pos'[q])] = pos'[q]
                 /\ accepted'[pos'[q] + 1] = Item(q)'
                 /\ pc'[q] = "publish" => data'[Slot(pos'[q])] = Item(q)'
      <3>1. CASE q = p
        BY <1>1, <1>2, <2>2, <3>1 DEF Item, CursorInv
      <3>2. CASE q # p
        BY <1>1, <1>2, <2>1, <2>3, <3>2, SMTT(30), Zenon DEF TypeOK, OwnerInv, Item
      <3> QED
        BY <3>1, <3>2, Zenon
    <2>4. ASSUME NEW q \in Producers, NEW r \in Producers, q # r,
                 Claimed(q)', Claimed(r)'
          PROVE  pos'[q] # pos'[r]
      <3>1. CASE q = p
        BY <1>1, <2>1, <2>2, <2>4, <3>1 DEF TypeOK
      <3>2. CASE r = p
        BY <1>1, <2>1, <2>2, <2>4, <3>2 DEF TypeOK
      <3>3. CASE q # p /\ r # p
        BY <2>1, <2>4, <3>3, Zenon DEF OwnerInv
      <3> QED
        BY <3>1, <3>2, <3>3, Zenon
    <2> QED
      BY <2>3, <2>4, Zenon DEF OwnerInv
  <1>9. ConsumerInv' /\ ObserverInv'
    BY SMTT(30), Zenon DEF TypeOK, ConsumerInv, ObserverInv, ApproxSizeBound
  <1>10. DeliveredPrefix'
    BY <1>1, <1>2, SMTT(30), Zenon DEF TypeOK, DeliveredPrefix, CursorInv, Freed, ConsumerInv
  <1>11. AcceptedCalls'
    <2> SUFFICES ASSUME NEW i \in 1 .. E + 1, NEW q \in Producers,
                        accepted'[i][1] = q
                 PROVE  /\ accepted'[i][2] <= calls[q]
                        /\ pc'[q] \in {"check", "cas"}
                             => accepted'[i][2] < calls[q]
      BY <1>2, Zenon DEF AcceptedCalls
    <2>1. CASE i = E + 1
      BY <1>2, <2>1 DEF TypeOK, Item
    <2>2. CASE i # E + 1
      <3>1. i \in 1 .. Len(accepted) /\ accepted'[i] = accepted[i]
        BY <1>1, <1>2, <2>2
      <3>2. /\ accepted[i][2] <= calls[q]
            /\ pc[q] \in {"check", "cas"} => accepted[i][2] < calls[q]
        BY <3>1, Zenon DEF AcceptedCalls
      <3> QED
        BY <3>1, <3>2, Zenon DEF TypeOK
    <2> QED
      BY <2>1, <2>2, Zenon
  <1>12. AcceptedOrder'
    <2> SUFFICES ASSUME NEW i \in 1 .. E + 1, NEW j \in 1 .. E + 1, i < j,
                        accepted'[i][1] = accepted'[j][1]
                 PROVE  accepted'[i][2] < accepted'[j][2]
      BY <1>2, Zenon DEF AcceptedOrder
    <2>1. i \in 1 .. Len(accepted) /\ accepted'[i] = accepted[i]
      BY <1>1, <1>2
    <2>2. CASE j = E + 1
      <3>1. accepted[i][1] = p /\ accepted'[j][2] = calls[p]
        BY <1>2, <2>1, <2>2 DEF Item
      <3> QED
        BY <2>1, <3>1, Zenon DEF AcceptedCalls
    <2>3. CASE j # E + 1
      <3>1. j \in 1 .. Len(accepted) /\ accepted'[j] = accepted[j]
        BY <1>1, <1>2, <2>3
      <3> QED
        BY <2>1, <3>1, Zenon DEF AcceptedOrder
    <2> QED
      BY <2>2, <2>3, Zenon
  <1> QED
    BY <1>3, <1>4, <1>5, <1>6, <1>7, <1>8, <1>9, <1>10, <1>11, <1>12, Zenon

(* The cells of the positions in the ring are all different. *)
LEMMA SlotsInWindow ==
  ASSUME NEW F \in Nat,
         NEW m \in F .. F + Capacity - 1, NEW n \in F .. F + Capacity - 1,
         Slot(m) = Slot(n)
  PROVE  m = n
  BY CapacityPositive, SlotInjective

(* Writing the data touches no cell but the owned one. *)
LEMMA EnqueueWriteInv ==
  ASSUME IInv, NEW p \in Producers, EnqueueWrite(p)
  PROVE  IInv'
  <1> USE CapacityPositive DEF IInv
  <1> DEFINE E == enqueue_cursor
             F == Freed
             c == Slot(pos[p])
  <1>1. /\ F \in Nat /\ E \in Nat /\ E <= F + Capacity /\ F' = F
        /\ pos[p] \in Nat /\ c \in Slots
    <2>1. F \in Nat /\ F' = F
      BY DEF TypeOK, Freed, EnqueueWrite
    <2> QED
      BY <2>1, SlotType, Zenon DEF TypeOK, CursorInv
  <1>2. Claimed(p) /\ F <= pos[p] /\ pos[p] < E /\ sequence[c] = pos[p]
    BY Zenon DEF EnqueueWrite, Claimed, OwnerInv
  <1>3. /\ data' = [data EXCEPT ![c] = Item(p)]
        /\ pc' = [pc EXCEPT ![p] = "publish"]
        /\ UNCHANGED <<sequence, enqueue_cursor, dequeue_cursor, pos, calls,
                       cpc, observer, history>>
    BY Zenon DEF EnqueueWrite
  <1>4. Item(p) \in Items
    BY <1>2, CallItemType, Zenon DEF Claimed
  <1>5. TypeOK'
    BY <1>1, <1>3, <1>4, Zenon DEF TypeOK, history
  <1>6. CallInv' /\ CasInv' /\ CursorInv' /\ ObserverInv' /\ ConsumerInv'
    BY <1>1, <1>3, <1>2, Zenon DEF CallInv, CasInv, CursorInv, ObserverInv,
       ConsumerInv, ApproxSizeBound, history, TypeOK, Claimed
  <1>7. CellInv'
    <2> SUFFICES ASSUME NEW n \in F .. F + Capacity - 1,
                        n < E, sequence[Slot(n)] = n + 1
                 PROVE  data'[Slot(n)] = accepted[n + 1]
      BY <1>1, <1>3, Zenon DEF CellInv, history
    <2>1. Slot(n) # c
      BY <1>1, <1>2, SlotsInWindow
    <2>2. Slot(n) \in Slots
      BY <1>1, SlotType
    <2> QED
      BY <1>3, <2>1, <2>2, Zenon DEF CellInv, TypeOK
  <1>8. LapInv' /\ DeliveredPrefix' /\ AcceptedOrder'
    BY <1>3, Zenon DEF LapInv, DeliveredPrefix, AcceptedOrder, history
  <1>9. OwnerInv'
    <2>1. ASSUME NEW q \in Producers, Claimed(q)'
          PROVE  Claimed(q)
      BY <1>2, <1>3, <2>1, Zenon DEF Claimed, TypeOK
    <2>2. ASSUME NEW q \in Producers, pc'[q] = "publish"
          PROVE  data'[Slot(pos[q])] = Item(q)
      <3>1. CASE q = p
        BY <1>1, <1>3, <3>1, Zenon DEF TypeOK
      <3>2. CASE q # p
        <4>1. pc[q] = "publish" /\ Claimed(q)
          BY <1>3, <2>2, <3>2, Zenon DEF TypeOK, Claimed
        <4>2. pos[q] # pos[p] /\ F <= pos[q] /\ pos[q] < E /\ pos[q] \in Nat
          BY <1>2, <3>2, <4>1, Zenon DEF OwnerInv, TypeOK
        <4>3. Slot(pos[q]) # c
          BY <1>1, <1>2, <4>2, SlotsInWindow, SMTT(30)
        <4> QED
          BY <1>3, <4>1, <4>2, <4>3, SlotType, Zenon DEF OwnerInv, TypeOK
      <3> QED
        BY <3>1, <3>2, Zenon
    <2> QED
      BY <1>1, <1>3, <2>1, <2>2, Zenon DEF OwnerInv, Item, history
  <1>10. AcceptedCalls'
    BY <1>3, Zenon DEF TypeOK, AcceptedCalls, history
  <1> QED
    BY <1>5, <1>6, <1>7, <1>8, <1>9, <1>10, Zenon

(* Publishing hands the owned cell over to the consumer. *)
LEMMA EnqueuePublishInv ==
  ASSUME IInv, NEW p \in Producers, EnqueuePublish(p)
  PROVE  IInv'
  <1> USE CapacityPositive DEF IInv
  <1> DEFINE E == enqueue_cursor
             F == Freed
             c == Slot(pos[p])
  <1>1. /\ F \in Nat /\ E \in Nat /\ E <= F + Capacity /\ F' = F
        /\ pos[p] \in Nat /\ c \in Slots
    <2>1. F \in Nat /\ F' = F
      BY DEF TypeOK, Freed, EnqueuePublish
    <2> QED
      BY <2>1, SlotType, Zenon DEF TypeOK, CursorInv
  <1>2. /\ Claimed(p) /\ F <= pos[p] /\ pos[p] < E /\ sequence[c] = pos[p]
        /\ accepted[pos[p] + 1] = Item(p) /\ data[c] = Item(p)
    BY Zenon DEF EnqueuePublish, Claimed, OwnerInv
  <1>3. /\ sequence' = [sequence EXCEPT ![c] = pos[p] + 1]
        /\ pos' = [pos EXCEPT ![p] = pos[p] + 1]
        /\ pc' = [pc EXCEPT ![p] = "idle"]
        /\ UNCHANGED <<data, enqueue_cursor, dequeue_cursor, calls, cpc,
                       observer, history>>
    BY Zenon DEF EnqueuePublish, TypeOK
  <1>4. TypeOK'
    BY <1>1, <1>3 DEF TypeOK, history
  <1>5. CallInv' /\ CasInv' /\ CursorInv' /\ ObserverInv'
    BY <1>1, <1>3, <1>2, SMTT(30), Zenon DEF CallInv, CasInv, CursorInv, ObserverInv,
       ApproxSizeBound, history, TypeOK
  <1>6. ASSUME NEW n \in F .. F + Capacity - 1, n # pos[p]
        PROVE  Slot(n) \in Slots /\ sequence'[Slot(n)] = sequence[Slot(n)]
    <2>1. Slot(n) # c /\ n \in Nat
      BY <1>1, <1>2, <1>6, SlotsInWindow
    <2> QED
      BY <1>3, <2>1, SlotType, Zenon DEF TypeOK
  <1>7. sequence'[c] = pos[p] + 1
    BY <1>1, <1>3, Zenon DEF TypeOK
  <1>8. CellInv'
    <2> SUFFICES ASSUME NEW n \in F .. F + Capacity - 1
                 PROVE  /\ n >= E => sequence'[Slot(n)] = n
                        /\ n < E => sequence'[Slot(n)] \in {n, n + 1}
                        /\ n < E /\ sequence'[Slot(n)] = n + 1
                             => data[Slot(n)] = accepted[n + 1]
      BY <1>1, <1>3, ZenonT(30), SMT DEF CellInv, history
    <2>1. CASE n = pos[p]
      BY <1>1, <1>2, <1>7, <2>1, SMTT(30)
    <2>2. CASE n # pos[p]
      BY <1>6, <2>2, Zenon DEF CellInv
    <2> QED
      BY <2>1, <2>2, Zenon
  <1>9. LapInv'
    <2> SUFFICES ASSUME NEW n \in 0 .. E - 1
                 PROVE  sequence'[Slot(n)] >= n
      BY <1>3, Zenon DEF LapInv
    <2>1. sequence[Slot(n)] >= n /\ Slot(n) \in Slots
      BY <1>1, SlotType DEF LapInv
    <2>2. CASE Slot(n) = c
      BY <1>1, <1>2, <1>7, <2>1, <2>2
    <2>3. CASE Slot(n) # c
      BY <1>3, <2>1, <2>3, Zenon DEF TypeOK
    <2> QED
      BY <2>2, <2>3, Zenon
  <1>10. OwnerInv'
    <2>1. ASSUME NEW q \in Producers, Claimed(q)'
          PROVE  /\ q # p /\ Claimed(q) /\ pc'[q] = pc[q] /\ pos'[q] = pos[q]
                 /\ pos[q] # pos[p] /\ pos[q] \in F .. F + Capacity - 1
      BY <1>1, <1>2, <1>3, <2>1, SMTT(30), Zenon DEF TypeOK, Claimed, OwnerInv
    <2>2. ASSUME NEW q \in Producers, Claimed(q)'
          PROVE  sequence'[Slot(pos[q])] = pos[q]
      BY <1>6, <2>1, <2>2, Zenon DEF OwnerInv
    <2>3. ASSUME NEW q \in Producers, Claimed(q)'
          PROVE  /\ Freed' <= pos'[q] /\ pos'[q] < enqueue_cursor'
                 /\ sequence'[Slot(pos'[q])] = pos'[q]
                 /\ accepted'[pos'[q] + 1] = Item(q)'
                 /\ pc'[q] = "publish" => data'[Slot(pos'[q])] = Item(q)'
      BY <1>1, <1>3, <2>1, <2>2, <2>3, ZenonT(30) DEF OwnerInv, Item, history
    <2>4. ASSUME NEW q \in Producers, NEW r \in Producers, q # r,
                 Claimed(q)', Claimed(r)'
          PROVE  pos'[q] # pos'[r]
      BY <2>1, <2>4, ZenonT(30), SMT DEF OwnerInv
    <2> QED
      BY <2>3, <2>4, Zenon DEF OwnerInv
  <1>11. ConsumerInv'
    <2> SUFFICES ASSUME cpc \in {"move", "free"}
                 PROVE  /\ dequeue_cursor < E
                        /\ sequence'[Slot(dequeue_cursor)]
                              = dequeue_cursor + 1
      BY <1>3, Zenon DEF ConsumerInv
    <2>1. dequeue_cursor = F
      BY Zenon DEF Freed
    <2>2. /\ dequeue_cursor < E
          /\ sequence[Slot(dequeue_cursor)] = dequeue_cursor + 1
      BY Zenon DEF ConsumerInv
    <2>3. dequeue_cursor # pos[p]
      BY <1>1, <1>2, <2>1, <2>2, SMTT(30)
    <2> QED
      BY <1>1, <1>6, <2>1, <2>2, <2>3
  <1>12. DeliveredPrefix' /\ AcceptedOrder'
    BY <1>3, Zenon DEF DeliveredPrefix, AcceptedOrder, history
  <1>13. AcceptedCalls'
    BY <1>3, Zenon DEF TypeOK, AcceptedCalls, history
  <1> QED
    BY <1>4, <1>5, <1>8, <1>9, <1>10, <1>11, <1>12, <1>13, Zenon

(* The consumer's test and its answer "empty" change nothing but cpc. *)
LEMMA DequeueTestInv ==
  ASSUME IInv, DequeueTurn \/ DequeueEmpty
  PROVE  IInv'
  <1> USE CapacityPositive DEF IInv
  <1>1. /\ cpc \in {"idle", "empty"} /\ cpc' \in {"move", "empty"}
        /\ cpc' = "move" =>
             sequence[Slot(dequeue_cursor)] = dequeue_cursor + 1
        /\ UNCHANGED <<shared, pc, pos, calls, observer, history>>
    BY Zenon DEF DequeueTurn, DequeueEmpty
  <1>2. Freed' = Freed /\ Freed = dequeue_cursor
    BY <1>1, Zenon DEF Freed, shared
  <1>3. TypeOK' /\ CallInv' /\ CasInv' /\ CursorInv' /\ ObserverInv'
    BY <1>1, <1>2, Zenon DEF TypeOK, CallInv, CasInv, CursorInv, ObserverInv,
       ApproxSizeBound, shared, history
  <1>4. CellInv' /\ LapInv'
    BY <1>1, <1>2, Zenon DEF CellInv, LapInv, shared, history
  <1>5. OwnerInv' /\ AcceptedCalls'
    BY <1>1, <1>2, Zenon DEF OwnerInv, AcceptedCalls, Claimed, Item, shared, history
  <1>6. ConsumerInv'
    BY <1>1, <1>2 DEF ConsumerInv, CellInv, CursorInv, TypeOK, shared
  <1>7. DeliveredPrefix' /\ AcceptedOrder'
    BY <1>1, Zenon DEF DeliveredPrefix, AcceptedOrder, shared, history
  <1> QED
    BY <1>3, <1>4, <1>5, <1>6, <1>7, Zenon

(* The element moved out is the oldest one not yet delivered. *)
LEMMA DequeueMoveInv ==
  ASSUME IInv, DequeueMove
  PROVE  IInv'
  <1> USE CapacityPositive DEF IInv
  <1> DEFINE D == dequeue_cursor
  <1>1. /\ cpc = "move" /\ cpc' = "free"
        /\ delivered' = Append(delivered, data[Slot(D)])
        /\ UNCHANGED <<shared, pc, pos, calls, observer, accepted>>
    BY Zenon DEF DequeueMove
  <1>2. /\ Freed' = Freed /\ Freed = D /\ D \in Nat
        /\ D < enqueue_cursor /\ sequence[Slot(D)] = D + 1
    BY <1>1, Zenon DEF Freed, ConsumerInv, TypeOK, shared
  <1>3. data[Slot(D)] = accepted[D + 1]
    BY <1>2 DEF CellInv, CursorInv
  <1>4. accepted[D + 1] \in Items
    BY <1>2 DEF TypeOK, CursorInv
  <1>5. /\ delivered \in Seq(Items \cup {NoItem}) /\ Len(delivered) = D
        /\ delivered' = Append(delivered, accepted[D + 1])
    BY <1>1, <1>3, Zenon DEF TypeOK, CursorInv
  <1>6. /\ delivered' \in Seq(Items \cup {NoItem})
        /\ Len(delivered') = D + 1 /\ delivered'[D + 1] = accepted[D + 1]
        /\ \A i \in 1 .. D : delivered'[i] = delivered[i]
    BY <1>2, <1>4, <1>5
  <1>7. TypeOK' /\ CallInv' /\ CasInv' /\ CursorInv' /\ ObserverInv'
    BY <1>1, <1>2, <1>6, Zenon DEF TypeOK, CallInv, CasInv, CursorInv, ObserverInv,
       ApproxSizeBound, shared
  <1>8. CellInv' /\ LapInv' /\ ConsumerInv' /\ AcceptedOrder'
    BY <1>1, <1>2, Zenon DEF CellInv, LapInv, ConsumerInv, AcceptedOrder, shared
  <1>9. OwnerInv' /\ AcceptedCalls'
    BY <1>1, <1>2, Zenon DEF OwnerInv, AcceptedCalls, Claimed, Item, shared
  <1>10. DeliveredPrefix'
    <2> SUFFICES ASSUME NEW i \in 1 .. D + 1
                 PROVE  delivered'[i] = accepted[i]
      BY <1>1, <1>6, Zenon DEF DeliveredPrefix
    <2>1. CASE i = D + 1
      BY <1>6, <2>1, Zenon
    <2>2. CASE i \in 1 .. D
      BY <1>5, <1>6, <2>2, Zenon DEF DeliveredPrefix
    <2> QED
      BY <1>2, <2>1, <2>2
  <1> QED
    BY <1>7, <1>8, <1>9, <1>10, Zenon

(* Freeing a cell opens the last position of the next lap. *)
LEMMA DequeueFreeInv ==
  ASSUME IInv, DequeueFree
  PROVE  IInv'
  <1> USE CapacityPositive DEF IInv
  <1> DEFINE D == dequeue_cursor
             E == enqueue_cursor
             c == Slot(D)
  <1>1. /\ cpc = "free" /\ cpc' = "advance"
        /\ sequence' = [sequence EXCEPT ![c] = D + Capacity]
        /\ UNCHANGED <<data, enqueue_cursor, dequeue_cursor, pc, pos, calls,
                       observer, history>>
    BY Zenon DEF DequeueFree
  <1>2. /\ Freed' = D + 1 /\ Freed = D /\ D \in Nat /\ E \in Nat
        /\ D < E /\ E <= D + Capacity /\ sequence[c] = D + 1 /\ c \in Slots
    BY <1>1, SlotType, Zenon DEF Freed, ConsumerInv, CursorInv, TypeOK
  <1>3. sequence'[c] = D + Capacity
    BY <1>1, <1>2, Zenon DEF TypeOK
  <1>4. ASSUME NEW n \in D + 1 .. D + Capacity - 1
        PROVE  Slot(n) \in Slots /\ sequence'[Slot(n)] = sequence[Slot(n)]
    <2>1. Slot(n) # c /\ Slot(n) \in Slots
      BY <1>2, SlotInjective, SlotType
    <2> QED
      BY <1>1, <2>1, Zenon DEF TypeOK
  <1>5. TypeOK' /\ CallInv' /\ CasInv' /\ CursorInv' /\ ObserverInv'
    BY <1>1, <1>2, SMTT(30), Zenon DEF TypeOK, CallInv, CasInv, CursorInv, ObserverInv,
       ApproxSizeBound, history
  <1>6. CellInv'
    <2> SUFFICES ASSUME NEW n \in D + 1 .. D + Capacity
                 PROVE  /\ n >= E => sequence'[Slot(n)] = n
                        /\ n < E => sequence'[Slot(n)] \in {n, n + 1}
                        /\ n < E /\ sequence'[Slot(n)] = n + 1
                             => data[Slot(n)] = accepted[n + 1]
      BY <1>1, <1>2 DEF CellInv, history
    <2>1. CASE n = D + Capacity
      <3>1. Slot(n) = c
        BY <1>2, <2>1, SlotLap, Zenon
      <3> QED
        BY <1>2, <1>3, <2>1, <3>1
    <2>2. CASE n # D + Capacity
      <3>1. n \in D + 1 .. D + Capacity - 1
        BY <1>2, <2>2
      <3> QED
        BY <1>2, <1>4, <3>1 DEF CellInv
    <2> QED
      BY <2>1, <2>2, Zenon
  <1>7. LapInv'
    <2> SUFFICES ASSUME NEW n \in 0 .. E - 1
                 PROVE  sequence'[Slot(n)] >= n
      BY <1>1, Zenon DEF LapInv
    <2>1. sequence[Slot(n)] >= n /\ Slot(n) \in Slots
      BY <1>2, SlotType DEF LapInv
    <2>2. CASE Slot(n) = c
      BY <1>2, <1>3, <2>1, <2>2
    <2>3. CASE Slot(n) # c
      BY <1>1, <2>1, <2>3, Zenon DEF TypeOK
    <2> QED
      BY <2>2, <2>3, Zenon
  <1>8. OwnerInv'
    <2>1. ASSUME NEW q \in Producers, Claimed(q)
          PROVE  pos[q] \in D + 1 .. D + Capacity - 1
      BY <1>2, <2>1, SMTT(30) DEF OwnerInv, TypeOK
    <2>2. ASSUME NEW q \in Producers, Claimed(q)
          PROVE  sequence'[Slot(pos[q])] = pos[q]
      BY <1>4, <2>1, <2>2, Zenon DEF OwnerInv
    <2>3. ASSUME NEW q \in Producers
          PROVE  Claimed(q)' = Claimed(q) /\ Item(q)' = Item(q)
      BY <1>1, Zenon DEF Claimed, Item
    <2>4. ASSUME NEW q \in Producers, Claimed(q)'
          PROVE  /\ Freed' <= pos'[q] /\ pos'[q] < enqueue_cursor'
                 /\ sequence'[Slot(pos'[q])] = pos'[q]
                 /\ accepted'[pos'[q] + 1] = Item(q)'
                 /\ pc'[q] = "publish" => data'[Slot(pos'[q])] = Item(q)'
      <3>1. Claimed(q)
        BY <2>3, <2>4, Zenon
      <3>2. Freed' <= pos[q] /\ sequence'[Slot(pos[q])] = pos[q]
        BY <1>2, <2>1, <2>2, <3>1, SMTT(30)
      <3> QED
        BY <1>1, <2>3, <3>1, <3>2, Zenon DEF OwnerInv, history
    <2>5. ASSUME NEW q \in Producers, NEW u \in Producers,
                 q # u, Claimed(q)', Claimed(u)'
          PROVE  pos'[q] # pos'[u]
      <3>1. Claimed(q) /\ Claimed(u)
        BY <2>3, <2>5, Zenon
      <3> QED
        BY <1>1, <2>5, <3>1, Zenon DEF OwnerInv
    <2> QED
      BY <2>4, <2>5, Zenon DEF OwnerInv
  <1>9. ConsumerInv' /\ DeliveredPrefix' /\ AcceptedCalls' /\ AcceptedOrder'
    BY <1>1, Zenon DEF ConsumerInv, DeliveredPrefix, AcceptedCalls, AcceptedOrder,
       history
  <1> QED
    BY <1>5, <1>6, <1>7, <1>8, <1>9, Zenon

(* The cursor catches up with the cell already freed. *)
LEMMA DequeueAdvanceInv ==
  ASSUME IInv, DequeueAdvance
  PROVE  IInv'
  <1> USE CapacityPositive DEF IInv
  <1>1. /\ cpc = "advance" /\ cpc' = "idle"
        /\ dequeue_cursor' = dequeue_cursor + 1
        /\ UNCHANGED <<sequence, data, enqueue_cursor, pc, pos, calls,
                       observer, history>>
    BY Zenon DEF DequeueAdvance
  <1>2. Freed' = Freed /\ Freed = dequeue_cursor + 1
    BY <1>1, Zenon DEF Freed
  <1>3. TypeOK' /\ CallInv' /\ CasInv' /\ CursorInv' /\ ObserverInv'
    BY <1>1, <1>2, SMTT(30) DEF TypeOK, CallInv, CasInv, CursorInv, ObserverInv,
       ApproxSizeBound, history
  <1>4. CellInv' /\ LapInv' /\ ConsumerInv'
    BY <1>1, <1>2, Zenon DEF CellInv, LapInv, ConsumerInv, history
  <1>5. OwnerInv'
    BY <1>1, <1>2, Zenon DEF OwnerInv, Claimed, Item, history
  <1>6. DeliveredPrefix' /\ AcceptedCalls' /\ AcceptedOrder'
    BY <1>1, Zenon DEF DeliveredPrefix, AcceptedCalls, AcceptedOrder, history
  <1> QED
    BY <1>3, <1>4, <1>5, <1>6, Zenon

(* approx_size changes nothing but its own locals. *)
LEMMA ApproxSizeInv ==
  ASSUME IInv, ApproxSizeHead \/ ApproxSizeTail
  PROVE  IInv'
  <1> USE CapacityPositive DEF IInv
  <1>1. UNCHANGED <<shared, pc, pos, calls, cpc, history>>
    BY Zenon DEF ApproxSizeHead, ApproxSizeTail
  <1>2. observer' \in [at : {"head", "tail"}, head : Nat, size : Nat]
        /\ ObserverInv'
    <2>1. enqueue_cursor \in Nat /\ dequeue_cursor \in Nat
          /\ enqueue_cursor <= dequeue_cursor + 1 + Capacity
      BY DEF TypeOK, CursorInv, Freed
    <2>2. CASE ApproxSizeHead
      <3>1. observer.size \in Nat /\ observer.size <= Capacity + 1
        BY Zenon DEF TypeOK, ObserverInv, ApproxSizeBound
      <3>2. observer' = [at |-> "tail", head |-> enqueue_cursor,
                         size |-> observer.size]
        BY <2>2, Zenon DEF ApproxSizeHead, TypeOK
      <3>3. enqueue_cursor' = enqueue_cursor
        BY <1>1, Zenon DEF shared
      <3> QED
        BY <2>1, <3>1, <3>2, <3>3 DEF ObserverInv, ApproxSizeBound
    <2>3. CASE ApproxSizeTail
      <3>1. observer.head \in Nat /\ observer.head <= enqueue_cursor
        BY <2>3, Zenon DEF ApproxSizeTail, TypeOK, ObserverInv
      <3> DEFINE s == IF observer.head >= dequeue_cursor
                        THEN observer.head - dequeue_cursor ELSE 0
      <3>2. s \in Nat /\ s <= Capacity + 1
        BY <2>1, <3>1
      <3>3. observer' = [at |-> "head", head |-> 0, size |-> s]
        BY <2>3, Zenon DEF ApproxSizeTail
      <3> HIDE DEF s
      <3> QED
        BY <3>2, <3>3 DEF ObserverInv, ApproxSizeBound
    <2> QED
      BY <2>2, <2>3, Zenon
  <1>3. TypeOK' /\ CallInv' /\ CasInv' /\ CursorInv'
    BY <1>1, <1>2, Zenon DEF TypeOK, CallInv, CasInv, CursorInv, shared, history,
       Freed
  <1>4. AcceptedCalls'
    BY <1>1, Zenon DEF AcceptedCalls, history
  <1> QED
    BY <1>1, <1>2, <1>3, <1>4, RingUntouched, Zenon

(* Every step of the queue keeps the invariant. *)
LEMMA NextInv ==
  ASSUME Capacity > 1, IInv, [Next]_vars
  PROVE  IInv'
  <1>1. ASSUME NEW p \in Producers, EnqueueCall(p) \/ EnqueueStep(p)
        PROVE  IInv'
    BY <1>1, EnqueueCallInv, EnqueueTurnInv, EnqueueFullInv, EnqueueReloadInv,
       EnqueueCasInv, EnqueueWriteInv, EnqueuePublishInv, Zenon DEF EnqueueStep
  <1>2. CASE DequeueStep
    BY <1>2, DequeueTestInv, DequeueMoveInv, DequeueFreeInv,
       DequeueAdvanceInv, Zenon DEF DequeueStep
  <1>3. CASE ApproxSizeHead \/ ApproxSizeTail
    BY <1>3, ApproxSizeInv, Zenon
  <1>4. CASE UNCHANGED vars
    <2>1. UNCHANGED <<shared, history, cpc, pc, pos, calls, observer>>
      BY <1>4, Zenon DEF vars
    <2>2. TypeOK' /\ CallInv' /\ CasInv' /\ CursorInv' /\ ObserverInv'
      BY <2>1, Zenon DEF IInv, TypeOK, CallInv, CasInv, CursorInv, ObserverInv,
         ApproxSizeBound, shared, history, Freed
    <2>3. AcceptedCalls'
      BY <2>1, Zenon DEF IInv, AcceptedCalls, history
    <2> QED
      BY <2>1, <2>2, <2>3, RingUntouched, Zenon DEF IInv
  <1> QED
    BY <1>1, <1>2, <1>3, <1>4, Zenon DEF Next

(* For every capacity above one, every number of producers and every       *)
(* number of calls, the invariant IInv holds in every reachable state.     *)
THEOREM Invariance ==
  ASSUME Capacity > 1
  PROVE  Spec => []IInv
  <1>1. Init => IInv
    BY InitInv, Zenon
  <1>2. IInv /\ [Next]_vars => IInv'
    BY NextInv, Zenon
  <1> QED
    BY <1>1, <1>2, PTL DEF Spec

(* The type invariant holds for every capacity above one. *)
THEOREM TypeCorrect ==
  ASSUME Capacity > 1
  PROVE  Spec => []TypeOK
  <1>1. IInv => TypeOK
    BY Zenon DEF IInv
  <1> QED
    BY <1>1, Invariance, PTL

(* No cell is claimed by a producer before the consumer has given it back. *)
THEOREM NeverOverrun ==
  ASSUME Capacity > 1
  PROVE  Spec => []NoOverrun
  <1>1. IInv => NoOverrun
    BY CapacityPositive DEF IInv, CursorInv, NoOverrun, TypeOK, Freed
  <1> QED
    BY <1>1, Invariance, PTL

(* A cell's data is never written by one thread while another writes or    *)
(* reads it, although only its sequence number is atomic.                  *)
THEOREM DataRaceFree ==
  ASSUME Capacity > 1
  PROVE  Spec => []NoDataRace
  <1>1. ASSUME IInv PROVE NoDataRace
    <2> USE <1>1 DEF IInv
    <2> SUFFICES ASSUME NEW p \in Producers, pc[p] = "write"
                 PROVE  /\ \A q \in Producers \ {p} : pc[q] = "write"
                             => Slot(pos[q]) # Slot(pos[p])
                        /\ cpc = "move" => Slot(dequeue_cursor) # Slot(pos[p])
      BY Zenon DEF NoDataRace
    <2>1. /\ Freed \in Nat /\ pos[p] \in Freed .. Freed + Capacity - 1
          /\ sequence[Slot(pos[p])] = pos[p]
      BY CapacityPositive, SMTT(30) DEF TypeOK, Freed, OwnerInv, CursorInv, Claimed
    <2>2. ASSUME NEW q \in Producers \ {p}, pc[q] = "write"
          PROVE  Slot(pos[q]) # Slot(pos[p])
      <3>1. pos[q] # pos[p] /\ pos[q] \in Freed .. Freed + Capacity - 1
        BY <2>2, CapacityPositive, SMTT(30) DEF TypeOK, Freed, OwnerInv, CursorInv,
           Claimed
      <3> QED
        BY <2>1, <3>1, SlotsInWindow, Zenon
    <2>3. ASSUME cpc = "move"
          PROVE  Slot(dequeue_cursor) # Slot(pos[p])
      <3>1. Freed = dequeue_cursor
            /\ sequence[Slot(dequeue_cursor)] = dequeue_cursor + 1
        BY <2>3, Zenon DEF Freed, ConsumerInv
      <3>2. dequeue_cursor \in Nat
            /\ dequeue_cursor \in Freed .. Freed + Capacity - 1
        BY <2>1, <3>1, CapacityPositive
      <3>3. ASSUME Slot(dequeue_cursor) = Slot(pos[p]) PROVE FALSE
        <4>1. dequeue_cursor = pos[p]
          BY <2>1, <3>2, <3>3, SlotsInWindow, Zenon
        <4> QED
          BY <2>1, <3>1, <3>2, <4>1
      <3> QED
        BY <3>3, Zenon
    <2> QED
      BY <2>2, <2>3, Zenon
  <1> QED
    BY <1>1, Invariance, PTL

(* Elements of one producer are delivered in the order of its calls. *)
THEOREM DeliveredInProducerOrder ==
  ASSUME Capacity > 1
  PROVE  Spec => []ProducerOrder
  <1>1. ASSUME IInv PROVE ProducerOrder
    <2> USE <1>1 DEF IInv
    <2>1. Len(delivered) \in Nat /\ Len(delivered) <= Len(accepted)
      BY DEF TypeOK, CursorInv, ConsumerInv, Freed
    <2> SUFFICES ASSUME NEW i \in 1 .. Len(delivered),
                        NEW j \in 1 .. Len(delivered),
                        i < j, delivered[i][1] = delivered[j][1]
                 PROVE  delivered[i][2] < delivered[j][2]
      BY Zenon DEF ProducerOrder
    <2>2. delivered[i] = accepted[i] /\ delivered[j] = accepted[j]
      BY Zenon DEF DeliveredPrefix
    <2>3. i \in 1 .. Len(accepted) /\ j \in 1 .. Len(accepted)
      BY <2>1 DEF TypeOK
    <2> QED
      BY <2>2, <2>3, Zenon DEF AcceptedOrder
  <1> QED
    BY <1>1, Invariance, PTL

(* enqueue answers "full" only at an instant when the ring is full. *)
THEOREM FullAnswersAreTrue ==
  ASSUME Capacity > 1
  PROVE  Spec => FullOnlyWhenFull
  <1>1. ASSUME IInv, [Next]_vars
        PROVE  [\A p \in Producers : pc'[p] = "full" /\ pc[p] # "full"
                  => enqueue_cursor - Freed = Capacity]_vars
    <2> SUFFICES ASSUME Next, NEW p \in Producers,
                        pc'[p] = "full", pc[p] # "full"
                 PROVE  enqueue_cursor - Freed = Capacity
      BY <1>1, Zenon
    <2> USE <1>1, CapacityPositive DEF IInv
    <2>1. EnqueueFull(p)
      BY ZenonT(30), SMT DEF Next, EnqueueStep, DequeueStep, EnqueueCall, EnqueueTurn,
         EnqueueFull, EnqueueReload, EnqueueCas, EnqueueCasFail, EnqueueWrite,
         EnqueuePublish, DequeueTurn, DequeueEmpty, DequeueMove, DequeueFree,
         DequeueAdvance, ApproxSizeHead, ApproxSizeTail, TypeOK
    <2>2. /\ Freed \in Nat /\ enqueue_cursor \in Nat
          /\ pos[p] \in Nat /\ pos[p] <= enqueue_cursor
          /\ Freed <= enqueue_cursor /\ enqueue_cursor <= Freed + Capacity
      BY DEF TypeOK, Freed, CursorInv
    <2>3. sequence[Slot(pos[p])] \in Nat /\ sequence[Slot(pos[p])] < pos[p]
      BY <2>1, <2>2, SlotType, Zenon DEF EnqueueFull, TypeOK
    <2>4. pos[p] = enqueue_cursor
      BY <2>2, <2>3 DEF LapInv
    <2> QED
      BY <2>2, <2>3, <2>4 DEF CellInv
  <1> QED
    BY <1>1, Invariance, PTL DEF Spec, FullOnlyWhenFull

(* approx_size answers at most Capacity + 1. *)
THEOREM ApproxSizeBounded ==
  ASSUME Capacity > 1
  PROVE  Spec => []ApproxSizeBound
  <1>1. IInv => ApproxSizeBound
    BY Zenon DEF IInv, ObserverInv
  <1> QED
    BY <1>1, Invariance, PTL

(* The ring implements the bounded FIFO. *)
THEOREM Refinement ==
  ASSUME Capacity > 1
  PROVE  Spec => ImplementsFifo
  <1>1. Init => Fifo!Init
    BY Zenon DEF Init, Fifo!Init
  <1>2. ASSUME IInv, [Next]_vars
        PROVE  [Fifo!Next]_(Fifo!vars)
    <2> USE <1>2, CapacityPositive DEF IInv
    <2>1. ASSUME NEW p \in Producers, EnqueueCas(p)
          PROVE  Fifo!Next
      <3>1. Item(p) \in Items
        BY <2>1, CallItemType, Zenon DEF EnqueueCas
      <3>2. Len(accepted) - Len(delivered) < Capacity
        BY <2>1, SMTT(30), Zenon DEF EnqueueCas, CasInv, CursorInv, TypeOK, Freed
      <3>3. accepted' = Append(accepted, Item(p)) /\ delivered' = delivered
        BY <2>1, Zenon DEF EnqueueCas
      <3> QED
        BY <3>1, <3>2, <3>3, Zenon DEF Fifo!Next, Fifo!Accept
    <2>2. ASSUME DequeueMove
          PROVE  Fifo!Next
      <3>1. /\ Len(delivered) = dequeue_cursor
            /\ dequeue_cursor < Len(accepted)
            /\ data[Slot(dequeue_cursor)] = accepted[dequeue_cursor + 1]
        BY <2>2 DEF DequeueMove, CursorInv, ConsumerInv, CellInv, TypeOK,
           Freed
      <3>2. /\ delivered' = Append(delivered, data[Slot(dequeue_cursor)])
            /\ accepted' = accepted
        BY <2>2, Zenon DEF DequeueMove
      <3> QED
        BY <3>1, <3>2, Zenon DEF Fifo!Next, Fifo!Deliver
    <2>3. \/ \E p \in Producers : EnqueueCas(p)
          \/ DequeueMove
          \/ UNCHANGED history
      BY Zenon DEF Next, EnqueueStep, DequeueStep, EnqueueCall, EnqueueTurn,
         EnqueueFull, EnqueueReload, EnqueueCasFail, EnqueueWrite,
         EnqueuePublish, DequeueTurn, DequeueEmpty, DequeueFree,
         DequeueAdvance, ApproxSizeHead, ApproxSizeTail, vars
    <2> QED
      BY <2>1, <2>2, <2>3, Zenon DEF history, Fifo!vars
  <1> QED
    BY <1>1, <1>2, Invariance, PTL DEF Spec, ImplementsFifo, Fifo!Spec

-----------------------------------------------------------------------------
(* The journal and its replay. *)

FileSlots == 1 .. SlotsPerFile
At(p, i) == files[segment_paths[p]].records[i]

OneFile ==
  [state : FileStates, records : [FileSlots -> SlotContents], sizes : [FileSlots -> Nat]]

FilesOK ==
  /\ \E n \in Nat : files \in [1 .. n -> OneFile]
  /\ segment_paths \in Seq(DOMAIN files)

(* A failed load leaves the old mapping, none, or the new file at the old  *)
(* offset; segment_index moves on all the same.                            *)
PositionOK ==
  /\ segment_index \in Nat \ {0}
  /\ mapped \in 0 .. Len(segment_paths) /\ mapped <= segment_index
  /\ offset \in Nat

(* The reader is not in front of the record r, and behind its first word   *)
(* if record sizes move it on; it is behind the whole of r.                *)
Reached(r) ==
  \/ r[1] < mapped
  \/ /\ r[1] = mapped /\ RecordWords * (r[2] - 1) <= offset
     /\ SizesPositive => RecordWords * (r[2] - 1) < offset
Passed(r) == r[1] < mapped \/ (r[1] = mapped /\ RecordWords * r[2] <= offset)

IsPlace(r) == r \in (DOMAIN segment_paths) \X FileSlots
IsValid(r) == IsPlace(r) /\ At(r[1], r[2]) = "valid"

NotAfter(a, b) == Before(a, b) \/ (~ SizesPositive /\ a = b)

OutOK ==
  /\ out \in Seq(Nat \X Nat)
  /\ \A i \in 1 .. Len(out) :
       /\ IsValid(out[i])
       /\ out[i][1] <= segment_index
       /\ mapped # 0 => Reached(out[i])
  /\ \A i, j \in 1 .. Len(out) : i < j => NotAfter(out[i], out[j])

(* What a replay is certain to find: in files with a good header, behind   *)
(* slots whose record header is good.                                      *)
Clean(p, k) == \A j \in 1 .. k : At(p, j) \in {"valid", "badpayload", "refused"}
Wanted(r) ==
  /\ IsValid(r) /\ Clean(r[1], r[2] - 1)
  /\ \A p \in 1 .. r[1] : files[segment_paths[p]].state = "ok"

(* The slots behind the reader are clean, and if it is inside a slot that  *)
(* one is damaged.                                                         *)
ScanOK ==
  \E k \in 0 .. SlotsPerFile, m \in 0 .. 3 :
    /\ offset = RecordWords * k + m /\ Clean(mapped, k)
    /\ m # 0 => k < SlotsPerFile /\ At(mapped, k + 1) \in {"badmagic", "badcrc"}

OnTheWay ==
  /\ mapped = segment_index /\ mapped # 0
  /\ \A p \in 1 .. mapped : files[segment_paths[p]].state = "ok"
  /\ ScanOK
  /\ \A r : Wanted(r) /\ Passed(r) => r \in Returned
  /\ \A r \in Returned : Wanted(r)

Complete == \A r : Wanted(r) <=> r \in Returned

ReplayOK ==
  /\ rpc = "open" => out = << >> /\ dispatched = << >>
  /\ rpc \in {"call", "read", "dispatch"} /\ OwnSizes => OnTheWay
  /\ rpc \in {"call", "read", "finish", "done"} => dispatched = out
  /\ rpc = "dispatch" => out = Append(dispatched, out[Len(out)])
  /\ rpc \in {"finish", "done"} /\ OwnSizes => Complete

CountsOK ==
  /\ stats \in [segments : Nat, records : Nat, corrupted : Nat]
  /\ replay_stats \in [segments : Nat, events : Nat, corrupted : Nat]
  /\ rpc # "direct" => stats.records = Len(out) /\ replay_stats.events = Len(dispatched)
  /\ dispatched \in Seq(Nat \X Nat)
  /\ rpc \in {"open", "call", "read", "dispatch", "finish", "done", "failed", "direct"}

RInv == FilesOK /\ PositionOK /\ OutOK /\ ReplayOK /\ CountsOK

-----------------------------------------------------------------------------
(* The kinds of slot contents, as read_next tells them apart. *)
LEMMA Kinds ==
  ASSUME NEW c \in SlotContents
  PROVE  /\ KindOf(c) = "valid" <=> c = "valid"
         /\ KindOf(c) \notin {"zero", "damaged"} <=> c \in {"valid", "badpayload", "refused"}
  BY Zenon DEF KindOf, SlotContents

(* Files and slots, typed. *)
LEMMA Typed ==
  ASSUME FilesOK
  PROVE  /\ SlotsPerFile \in Nat \ {0} /\ Len(segment_paths) \in Nat
         /\ DOMAIN segment_paths = 1 .. Len(segment_paths)
         /\ \A p \in 1 .. Len(segment_paths) :
              /\ files[segment_paths[p]] \in OneFile
              /\ \A i \in FileSlots :
                   At(p, i) \in SlotContents /\ files[segment_paths[p]].sizes[i] \in Nat
<1>1. SlotsPerFile \in Nat \ {0}
  BY BoundsAssumption, Zenon
<1>2. PICK n \in Nat : files \in [1 .. n -> OneFile]
  BY Zenon DEF FilesOK
<1>3. segment_paths \in Seq(1 .. n)
  BY <1>2, Zenon DEF FilesOK
<1>4. Len(segment_paths) \in Nat /\ DOMAIN segment_paths = 1 .. Len(segment_paths)
      /\ \A p \in 1 .. Len(segment_paths) : segment_paths[p] \in 1 .. n
  BY <1>3
<1>5. \A f \in OneFile : \A i \in FileSlots : f.records[i] \in SlotContents /\ f.sizes[i] \in Nat
  BY Zenon DEF OneFile
<1>6. \A p \in 1 .. Len(segment_paths) : files[segment_paths[p]] \in OneFile
  BY <1>2, <1>4, ZenonT(30), SMT
<1> QED BY <1>1, <1>4, <1>5, <1>6, Zenon DEF At

(* The journal of JournalFormat that these files are. *)
LEMMA JournalIs ==
  ASSUME FilesOK, NEW p \in 1 .. Len(segment_paths)
  PROVE  /\ Journal[p].header <=> files[segment_paths[p]].state = "ok"
         /\ DOMAIN Journal[p].records = FileSlots
         /\ \A i \in FileSlots : Journal[p].records[i] = KindOf(At(p, i))
<1>1. DOMAIN segment_paths = 1 .. Len(segment_paths)
  BY Typed, Zenon
<1>2. Journal[p] = [header |-> files[segment_paths[p]].state = "ok",
                    records |-> [i \in FileSlots |-> KindOf(At(p, i))]]
  BY <1>1, Zenon DEF Journal, At, FileSlots
<1>3. PICK h : h = (files[segment_paths[p]].state = "ok")
  BY Zenon
<1>4. Journal[p] = [header |-> h, records |-> [i \in FileSlots |-> KindOf(At(p, i))]]
  BY <1>2, <1>3, ZenonT(30)
<1>5. Journal[p].header = h
  <2>1. PICK f : Journal[p] = [header |-> h, records |-> f]
    BY <1>4, Zenon
  <2> QED BY <2>1, SMTT(30), Zenon
<1>6. Journal[p].header <=> files[segment_paths[p]].state = "ok"
  <2>1. CASE files[segment_paths[p]].state = "ok"
    <3>1. h = TRUE
      BY <1>3, <2>1, Zenon
    <3>2. Journal[p].header = TRUE
      BY <1>5, <3>1, Zenon
    <3> QED BY <2>1, <3>2, Zenon
  <2>2. CASE files[segment_paths[p]].state # "ok"
    <3>1. h = FALSE
      BY <1>3, <2>2, Zenon
    <3>2. Journal[p].header = FALSE
      BY <1>5, <3>1, Zenon
    <3> QED BY <2>2, <3>2, Zenon
  <2> QED BY <2>1, <2>2, Zenon
<1> QED BY <1>4, <1>6

(* A place of that journal is a path and a slot. *)
LEMMA PlacesAre ==
  ASSUME FilesOK, NEW r
  PROVE  r \in Places(Journal) <=> IsPlace(r)
<1>1. DOMAIN Journal = DOMAIN segment_paths /\ DOMAIN segment_paths = 1 .. Len(segment_paths)
  BY Typed, Zenon DEF Journal
<1>2. \A p \in DOMAIN segment_paths : DOMAIN Journal[p].records = FileSlots
  BY <1>1, JournalIs, Zenon
<1>3. r \in Places(Journal) <=> \E p \in DOMAIN segment_paths : r \in {p} \X DOMAIN Journal[p].records
  BY <1>1, Zenon DEF Places
<1>4. r \in Places(Journal) <=> \E p \in DOMAIN segment_paths : r \in {p} \X FileSlots
  BY <1>2, <1>3, Zenon
<1>5. (\E p \in DOMAIN segment_paths : r \in {p} \X FileSlots) <=> r \in (DOMAIN segment_paths) \X FileSlots
  BY Zenon
<1> QED BY <1>4, <1>5, Zenon DEF IsPlace

(* The definitions of JournalFormat, in terms of the files. *)
LEMMA InJournal ==
  ASSUME FilesOK, NEW r
  PROVE  /\ r \in ValidRecords(Journal) <=> IsValid(r)
         /\ r \in Replayed(Journal) <=> Wanted(r)
         /\ Wanted(r) => r \in PromisedRecords(Journal)
<1>0. r \in Places(Journal) <=> IsPlace(r)
  BY PlacesAre, Zenon
<1>1. CASE ~ IsPlace(r)
  BY <1>0, <1>1, Zenon DEF ValidRecords, PromisedRecords, Replayed, IsValid, Wanted
<1>2. CASE IsPlace(r)
  <2>1. /\ r[1] \in 1 .. Len(segment_paths) /\ r[2] \in FileSlots /\ Len(segment_paths) \in Nat
        /\ DOMAIN Journal = 1 .. Len(segment_paths) /\ SlotsPerFile \in Nat
    BY <1>2, Typed, Zenon DEF IsPlace, Journal
  <2>2. /\ \A p \in 1 .. Len(segment_paths) : Journal[p].header <=> files[segment_paths[p]].state = "ok"
        /\ DOMAIN Journal[r[1]].records = FileSlots
        /\ \A i \in FileSlots : Journal[r[1]].records[i] = KindOf(At(r[1], i))
    BY <2>1, JournalIs, ZenonT(30)
  <2>3. \A i \in FileSlots :
          /\ Journal[r[1]].records[i] = "valid" <=> At(r[1], i) = "valid"
          /\ Journal[r[1]].records[i] \notin {"zero", "damaged"} <=>
               At(r[1], i) \in {"valid", "badpayload", "refused"}
    BY <2>1, <2>2, Typed, Kinds
  <2>4. r \in ValidRecords(Journal) <=> IsValid(r)
    <3>1. r \in ValidRecords(Journal) <=> Journal[r[1]].records[r[2]] = "valid"
      BY <1>0, <1>2, Zenon DEF ValidRecords
    <3>2. Journal[r[1]].records[r[2]] = "valid" <=> At(r[1], r[2]) = "valid"
      BY <2>1, <2>3, Zenon
    <3> QED BY <1>2, <3>1, <3>2, Zenon DEF IsValid
  <2>5. (\A s \in DOMAIN Journal : s <= r[1] => Journal[s].header)
          <=> \A p \in 1 .. r[1] : files[segment_paths[p]].state = "ok"
    BY <2>1, <2>2
  <2>6. (\A j \in FileSlots : j < r[2] => Journal[r[1]].records[j] \notin {"zero", "damaged"})
          <=> Clean(r[1], r[2] - 1)
    <3>1. \A j : (j \in FileSlots /\ j < r[2]) <=> j \in 1 .. r[2] - 1
      BY <2>1 DEF FileSlots
    <3>2. ASSUME NEW j \in FileSlots
          PROVE  Journal[r[1]].records[j] \notin {"zero", "damaged"}
                   <=> At(r[1], j) \in {"valid", "badpayload", "refused"}
      BY <2>3, Zenon
    <3> QED BY <3>1, <3>2, Zenon DEF Clean
  <2>7. r \in Replayed(Journal) <=>
          /\ \A s \in DOMAIN Journal : s <= r[1] => Journal[s].header
          /\ \A j \in FileSlots : j < r[2] => Journal[r[1]].records[j] \notin {"zero", "damaged"}
          /\ Journal[r[1]].records[r[2]] = "valid"
    <3>1. r \in Replayed(Journal) <=>
            /\ r \in ValidRecords(Journal)
            /\ \A s \in DOMAIN Journal : s <= r[1] => Journal[s].header
            /\ ~ SomeBefore(Journal, r, {"zero"}) /\ ~ SomeBefore(Journal, r, {"damaged"})
      BY Zenon DEF Replayed, PromisedRecords
    <3>2. (~ SomeBefore(Journal, r, {"zero"}) /\ ~ SomeBefore(Journal, r, {"damaged"})) <=>
            \A j \in FileSlots : j < r[2] => Journal[r[1]].records[j] \notin {"zero", "damaged"}
      BY <2>2, Zenon DEF SomeBefore
    <3>3. r \in ValidRecords(Journal) <=> Journal[r[1]].records[r[2]] = "valid"
      BY <1>0, <1>2, Zenon DEF ValidRecords
    <3> QED BY <3>1, <3>2, <3>3, Zenon
  <2>8. Journal[r[1]].records[r[2]] = "valid" <=> At(r[1], r[2]) = "valid"
    BY <2>1, <2>3, Zenon
  <2>9. r \in Replayed(Journal) <=> Wanted(r)
    BY <1>2, <2>5, <2>6, <2>7, <2>8, Zenon DEF Wanted, IsValid
  <2>10. r \in Replayed(Journal) => r \in PromisedRecords(Journal)
    BY Zenon DEF Replayed
  <2> QED BY <2>4, <2>9, <2>10, Zenon
<1> QED BY <1>1, <1>2, Zenon

-----------------------------------------------------------------------------
(* An offset is a slot and a word of it. *)
LEMMA SlotOf ==
  ASSUME NEW w \in Nat, NEW k \in Nat, NEW m \in 0 .. 4, w = RecordWords * k + m
  PROVE  SlotAt(w) = k + 1 /\ w % RecordWords = m
  BY DEF SlotAt, RecordWords

(* While there is a whole record to read a file is mapped, and the slot is *)
(* one of its.                                                             *)
LEMMA InsideFile ==
  ASSUME FilesOK, PositionOK, ~ AtEnd, NEW k \in Nat, NEW m \in 0 .. 4, offset = RecordWords * k + m
  PROVE  /\ mapped \in 1 .. Len(segment_paths) /\ k + 1 \in FileSlots /\ k < SlotsPerFile
         /\ Content(mapped, offset) = At(mapped, k + 1)
<1>1. SlotsPerFile \in Nat /\ Len(segment_paths) \in Nat /\ offset \in Nat
      /\ mapped \in 0 .. Len(segment_paths)
  BY Typed, Zenon DEF PositionOK
<1>2. mapped # 0
  BY <1>1 DEF AtEnd, MappedWords, RecordWords
<1>3. k < SlotsPerFile
  BY <1>1, <1>2 DEF AtEnd, MappedWords, RecordWords
<1>4. SlotAt(offset) = k + 1
  BY <1>1, SlotOf, Zenon
<1>5. mapped \in 1 .. Len(segment_paths) /\ k + 1 \in FileSlots
  BY <1>1, <1>2, <1>3 DEF FileSlots
<1> QED BY <1>3, <1>4, <1>5, Zenon DEF Content, At

(* A record header is seen at the first word of a slot only. *)
LEMMA AtRecord ==
  ASSUME FilesOK, PositionOK, ~ AtEnd, WordAt(mapped, offset) = "RECD"
  PROVE  \E k \in Nat : /\ offset = RecordWords * k /\ k + 1 \in FileSlots /\ k < SlotsPerFile
                        /\ mapped \in 1 .. Len(segment_paths)
                        /\ SlotAt(offset) = k + 1
                        /\ Content(mapped, offset) = At(mapped, k + 1)
                        /\ SizeAt(mapped, offset) \in Nat
                        /\ SizesPositive => SizeAt(mapped, offset) > 0
                        /\ OwnSizes => SizeAt(mapped, offset) = RecordWords
<1>1. offset \in Nat
  BY Zenon DEF PositionOK
<1>2. offset % RecordWords = 0
  BY Zenon DEF WordAt
<1>3. PICK k \in Nat : offset = RecordWords * k + 0
  BY <1>1, <1>2 DEF RecordWords
<1>4. PICK m \in 0 .. 4 : m = 0
  OBVIOUS
<1>5. SlotAt(offset) = k + 1
  BY <1>1, <1>3, <1>4, SlotOf, Zenon
<1>6. /\ mapped \in 1 .. Len(segment_paths) /\ k + 1 \in FileSlots /\ k < SlotsPerFile
      /\ Content(mapped, offset) = At(mapped, k + 1)
  BY <1>3, <1>4, InsideFile, Zenon
<1>7. offset = RecordWords * k
  BY <1>3 DEF RecordWords
<1>8. SizeAt(mapped, offset) = files[segment_paths[mapped]].sizes[k + 1]
  BY <1>5, Zenon DEF SizeAt
<1>9. segment_paths[mapped] \in DOMAIN files
  <2>1. segment_paths \in Seq(DOMAIN files)
    BY Zenon DEF FilesOK
  <2> QED BY <1>6, <2>1
<1>10. /\ SizeAt(mapped, offset) \in Nat
       /\ SizesPositive => SizeAt(mapped, offset) > 0
       /\ OwnSizes => SizeAt(mapped, offset) = RecordWords
  BY <1>6, <1>8, <1>9, Typed, Zenon DEF SizesPositive, OwnSizes, FileSlots
<1> QED BY <1>5, <1>6, <1>7, <1>10, Zenon

(* What going on to the next file does. *)
LEMMA NextFile ==
  ASSUME FilesOK, PositionOK, NextSegment
  PROVE  /\ UNCHANGED <<files, segment_paths, out>> /\ segment_index' = segment_index + 1
         /\ \/ /\ segment_index + 1 <= Len(segment_paths)
               /\ files[segment_paths[segment_index + 1]].state = "ok"
               /\ mapped' = segment_index + 1 /\ offset' = 0 /\ phase' = phase
            \/ /\ \/ segment_index + 1 > Len(segment_paths) /\ mapped' = mapped
                  \/ /\ segment_index + 1 <= Len(segment_paths)
                     /\ files[segment_paths[segment_index + 1]].state # "ok"
                     /\ mapped' \in {0, segment_index + 1}
               /\ offset' = offset /\ phase' = "idle" /\ result' = "notfound"
         /\ stats'.records = stats.records
<1>1. CASE LoadOk(segment_paths, segment_index + 1) /\ UNCHANGED <<phase, result>>
  <2>1. stats'.records = stats.records
    BY <1>1 DEF LoadOk
  <2> QED BY <1>1, <2>1, Zenon DEF NextSegment, LoadOk
<1>2. CASE LoadFails(segment_paths, segment_index + 1) /\ phase' = "idle" /\ result' = "notfound"
           /\ UNCHANGED <<offset, is_open>>
  BY <1>2, Zenon DEF NextSegment, LoadFails
<1> QED BY <1>1, <1>2, Zenon DEF NextSegment

(* What is behind the reader stays behind it. *)
LEMMA OutStays ==
  ASSUME FilesOK, PositionOK, OutOK, UNCHANGED <<files, segment_paths, out>>,
         segment_index' \in Nat, segment_index' >= segment_index,
         \A r \in Nat \X Nat : r[1] <= segment_index /\ (mapped # 0 => Reached(r)) /\ mapped' # 0 => Reached(r)'
  PROVE  OutOK'
<1>1. \A r : IsValid(r)' <=> IsValid(r)
  BY Zenon DEF IsValid, IsPlace, At
<1>2. \A i \in 1 .. Len(out) : out[i] \in Nat \X Nat /\ out[i][1] \in Nat
  BY DEF OutOK
<1>3. segment_index \in Nat
  BY Zenon DEF PositionOK
<1>4. \A i \in 1 .. Len(out) : out[i][1] <= segment_index'
  <2>1. ASSUME NEW i \in 1 .. Len(out)
        PROVE  out[i][1] <= segment_index'
    <3>1. out[i][1] \in Nat /\ out[i][1] <= segment_index
      BY <1>2, Zenon DEF OutOK
    <3> QED BY <1>3, <3>1
  <2> QED BY <2>1, Zenon
<1>5. \A i \in 1 .. Len(out) : mapped' # 0 => Reached(out[i])'
  BY <1>2, Zenon DEF OutOK
<1>6. \A a, b : NotAfter(a, b)' <=> NotAfter(a, b)
  BY Zenon DEF NotAfter, Before, SizesPositive
<1> QED BY <1>1, <1>4, <1>5, <1>6, Zenon DEF OutOK

(* After open_directory, open_segment and close nothing has been returned. *)
LEMMA Opened ==
  ASSUME FilesOK, files' = files, out' = << >>, segment_paths' \in Seq(DOMAIN files),
         segment_index' = 1, offset' = 0, mapped' \in {0, 1}, mapped' <= Len(segment_paths')
  PROVE  FilesOK' /\ PositionOK' /\ OutOK'
<1>1. FilesOK'
  BY Zenon DEF FilesOK
<1>2. Len(segment_paths') \in Nat
  OBVIOUS
<1>3. PositionOK'
  BY <1>2 DEF PositionOK
<1>4. OutOK'
  BY DEF OutOK
<1> QED BY <1>1, <1>3, <1>4, Zenon

(* An open of some of the files. *)
LEMMA OpenKeeps ==
  ASSUME FilesOK, NEW ps \in Seq(DOMAIN files), Open(ps)
  PROVE  FilesOK' /\ PositionOK' /\ OutOK'
<1>1. /\ files' = files /\ out' = << >> /\ segment_paths' = ps /\ segment_index' = 1
      /\ offset' = 0
  BY Zenon DEF Open, LoadOk
<1>2. Len(ps) \in Nat /\ (ps # << >> => Len(ps) >= 1)
  OBVIOUS
<1>3. mapped' \in {0, 1} /\ mapped' <= Len(ps)
  BY <1>2 DEF Open, LoadOk
<1> QED BY <1>1, <1>3, Opened, Zenon

(* The paths open_directory and open_segment make. *)
LEMMA PathsOK ==
  ASSUME FilesOK
  PROVE  /\ [i \in DOMAIN files |-> i] \in Seq(DOMAIN files)
         /\ \A i \in DOMAIN files : <<i>> \in Seq(DOMAIN files)
<1>1. PICK n \in Nat : DOMAIN files = 1 .. n
  BY Zenon DEF FilesOK
<1>2. [i \in 1 .. n |-> i] \in Seq(1 .. n)
  OBVIOUS
<1> QED BY <1>1, <1>2

(* Skipping ahead in the mapped file. *)
LEMMA SkipKeeps ==
  ASSUME FilesOK, PositionOK, OutOK, NEW words \in Nat, offset' = offset + words,
         UNCHANGED <<files, segment_paths, segment_index, mapped, out>>
  PROVE  FilesOK' /\ PositionOK' /\ OutOK'
<1>1. FilesOK' /\ PositionOK'
  BY DEF FilesOK, PositionOK
<1>2. \A r \in Nat \X Nat : r[1] \in Nat /\ r[2] \in Nat
  BY Zenon
<1>3. offset \in Nat /\ offset' \in Nat /\ segment_index \in Nat
  BY DEF PositionOK
<1>4. \A r \in Nat \X Nat : Reached(r) => Reached(r)'
  <2>1. SizesPositive' <=> SizesPositive
    BY Zenon DEF SizesPositive
  <2> SUFFICES ASSUME NEW r \in Nat \X Nat, Reached(r) PROVE Reached(r)'
    BY Zenon
  <2>2. r[1] \in Nat /\ r[2] \in Nat
    BY <1>2, Zenon
  <2>3. PICK a \in Int : a = RecordWords * (r[2] - 1)
    BY <2>2 DEF RecordWords
  <2>4. (a <= offset => a <= offset') /\ (a < offset => a < offset')
    BY <1>3, <2>3
  <2> QED BY <2>1, <2>3, <2>4, Zenon DEF Reached
<1>5. OutOK'
  BY <1>3, <1>4, OutStays
<1> QED BY <1>1, <1>5, Zenon

(* Going on to the next file. *)
LEMMA NextFileKeeps ==
  ASSUME FilesOK, PositionOK, OutOK, NextSegment
  PROVE  FilesOK' /\ PositionOK' /\ OutOK'
<1>1. UNCHANGED <<files, segment_paths, out>> /\ segment_index' = segment_index + 1
  BY NextFile, Zenon
<1>2. FilesOK'
  BY <1>1, Zenon DEF FilesOK
<1>3. /\ segment_index \in Nat \ {0} /\ Len(segment_paths) \in Nat
      /\ mapped \in 0 .. Len(segment_paths) /\ mapped <= segment_index /\ offset \in Nat
  BY Typed, Zenon DEF PositionOK
<1>4. /\ offset' \in {0, offset}
      /\ \/ mapped' = mapped /\ offset' = offset
         \/ mapped' = 0
         \/ mapped' = segment_index + 1 /\ segment_index + 1 <= Len(segment_paths)
  BY NextFile, Zenon
<1>5. PositionOK'
  BY <1>1, <1>3, <1>4 DEF PositionOK
<1>6. \A r \in Nat \X Nat : r[1] <= segment_index /\ (mapped # 0 => Reached(r)) /\ mapped' # 0 => Reached(r)'
  <2>1. CASE mapped' = mapped /\ offset' = offset
    BY <1>1, <2>1, Zenon DEF Reached, SizesPositive
  <2>2. CASE mapped' = segment_index + 1
    <3>1. \A r \in Nat \X Nat : r[1] \in Nat
      BY Zenon
    <3> QED BY <1>3, <2>2, <3>1 DEF Reached
  <2> QED BY <1>4, <2>1, <2>2, Zenon
<1>7. OutOK'
  BY <1>1, <1>3, <1>6, OutStays
<1> QED BY <1>2, <1>5, <1>7, Zenon

(* What ReadOk returns is behind all it has returned, and valid. *)
LEMMA ReadKeeps ==
  ASSUME FilesOK, PositionOK, OutOK, ReadOk
  PROVE  FilesOK' /\ PositionOK' /\ OutOK'
<1>1. /\ ~ AtEnd /\ WordAt(mapped, offset) = "RECD" /\ Content(mapped, offset) = "valid"
      /\ out' = Append(out, <<mapped, SlotAt(offset)>>)
      /\ offset' = offset + SizeAt(mapped, offset)
      /\ UNCHANGED <<files, segment_paths, segment_index, mapped>>
  BY Zenon DEF ReadOk
<1>2. PICK k \in Nat : /\ offset = RecordWords * k /\ k + 1 \in FileSlots
                       /\ mapped \in 1 .. Len(segment_paths)
                       /\ SlotAt(offset) = k + 1 /\ At(mapped, k + 1) = "valid"
                       /\ SizeAt(mapped, offset) \in Nat
                       /\ SizesPositive => SizeAt(mapped, offset) > 0
  BY <1>1, AtRecord, Zenon
<1>3. /\ offset' \in Nat /\ RecordWords * k \in Nat /\ RecordWords * k <= offset'
      /\ SizesPositive => RecordWords * k < offset'
  BY <1>1, <1>2 DEF RecordWords
<1>4. FilesOK' /\ PositionOK'
  BY <1>1, <1>3, Zenon DEF FilesOK, PositionOK
<1>5. PICK x : x = <<mapped, k + 1>>
  BY Zenon
<1>6. /\ x \in Nat \X Nat /\ x[1] = mapped /\ x[2] = k + 1 /\ IsValid(x)
  BY <1>2, <1>5, Typed DEF IsValid, IsPlace, FileSlots
<1>7. out' = Append(out, x) /\ out \in Seq(Nat \X Nat)
  BY <1>1, <1>2, <1>5, Zenon DEF OutOK
<1>8. /\ out' \in Seq(Nat \X Nat) /\ Len(out') = Len(out) + 1 /\ Len(out) \in Nat
      /\ out'[Len(out) + 1] = x /\ \A i \in 1 .. Len(out) : out'[i] = out[i]
  BY <1>6, <1>7, SMTT(30)
<1>9. /\ \A r : IsValid(r)' <=> IsValid(r)
      /\ SizesPositive' <=> SizesPositive
      /\ \A a, b : NotAfter(a, b)' <=> NotAfter(a, b)
  BY <1>1, Zenon DEF IsValid, IsPlace, At, SizesPositive, NotAfter, Before
<1>10. mapped \in Nat \ {0} /\ segment_index \in Nat /\ mapped <= segment_index
  BY <1>2, SMTT(30) DEF PositionOK
<1>11. \A r \in Nat \X Nat :
         r[1] < mapped \/ (r[1] = mapped /\ r[2] <= k + 1) => Reached(r)'
  <2> SUFFICES ASSUME NEW r \in Nat \X Nat, r[1] = mapped, r[2] <= k + 1
               PROVE  Reached(r)'
    BY <1>1, Zenon DEF Reached
  <2>1. r[2] \in Nat
    BY Zenon
  <2>2. PICK a \in Int : a = RecordWords * (r[2] - 1)
    BY <2>1 DEF RecordWords
  <2>3. a <= RecordWords * k
    BY <2>1, <2>2 DEF RecordWords
  <2>4. a <= offset' /\ (SizesPositive => a < offset')
    BY <1>3, <2>3
  <2> QED BY <1>1, <1>9, <2>2, <2>4, Zenon DEF Reached
<1>12. ASSUME NEW i \in 1 .. Len(out)
       PROVE  /\ out'[i] = out[i] /\ IsValid(out[i]) /\ out[i][1] <= segment_index
              /\ out[i] \in Nat \X Nat
              /\ NotAfter(out[i], x)
              /\ out[i][1] < mapped \/ (out[i][1] = mapped /\ out[i][2] <= k + 1)
  <2>1. out[i] \in Nat \X Nat
    BY <1>7
  <2>2. out[i][1] \in Nat /\ out[i][2] \in Nat /\ out[i] = <<out[i][1], out[i][2]>>
    BY <2>1
  <2>3. IsValid(out[i]) /\ out[i][1] <= segment_index /\ Reached(out[i])
    BY <1>10, Zenon DEF OutOK
  <2>4. CASE out[i][1] < mapped
    BY <1>6, <1>8, <2>1, <2>3, <2>4, Zenon DEF NotAfter, Before
  <2>5. CASE /\ out[i][1] = mapped /\ RecordWords * (out[i][2] - 1) <= RecordWords * k
             /\ SizesPositive => RecordWords * (out[i][2] - 1) < RecordWords * k
    <3>1. out[i][2] <= k + 1 /\ (SizesPositive => out[i][2] < k + 1)
      BY <2>2, <2>5 DEF RecordWords
    <3>2. out[i][2] < k + 1 \/ out[i][2] = k + 1
      BY <2>2, <3>1
    <3>3. CASE out[i][2] < k + 1
      BY <1>6, <1>8, <2>1, <2>3, <2>5, <3>1, <3>3, Zenon DEF NotAfter, Before
    <3>4. CASE out[i][2] = k + 1
      <4>1. ~ SizesPositive
        BY <3>1, <3>4
      <4>2. out[i] = x
        BY <1>5, <2>2, <2>5, <3>4, Zenon
      <4> QED BY <1>8, <2>1, <2>3, <2>5, <3>1, <4>1, <4>2, Zenon DEF NotAfter
    <3> QED BY <3>2, <3>3, <3>4, Zenon
  <2> QED BY <1>2, <2>3, <2>4, <2>5, Zenon DEF Reached
<1>13. ASSUME NEW i \in 1 .. Len(out')
       PROVE  IsValid(out'[i]) /\ out'[i][1] <= segment_index /\ Reached(out[i])'
  <2>1. CASE i \in 1 .. Len(out)
    <3>1. PICK y \in Nat \X Nat : y = out[i] /\ y = out'[i] /\ Reached(y)'
      BY <1>11, <1>12, <2>1, Zenon
    <3> QED BY <1>12, <2>1, <3>1, Zenon DEF Reached
  <2>2. CASE i = Len(out) + 1
    <3>1. x[2] <= k + 1
      BY <1>6
    <3>2. x = out'[i] /\ Reached(x)'
      BY <1>6, <1>8, <1>11, <2>2, <3>1, Zenon
    <3>3. Reached(out[i])'
      BY <3>2, Zenon DEF Reached
    <3> QED BY <1>6, <1>10, <3>2, <3>3
  <2> QED BY <1>8, <2>1, <2>2, SMTT(30)
<1>14. ASSUME NEW i \in 1 .. Len(out'), NEW j \in 1 .. Len(out'), i < j
       PROVE  NotAfter(out'[i], out'[j])
  <2>1. i \in 1 .. Len(out) /\ (j \in 1 .. Len(out) \/ j = Len(out) + 1)
    BY <1>8, <1>14, SMTT(90)
  <2>2. CASE j \in 1 .. Len(out)
    BY <1>8, <1>14, <2>1, <2>2, Zenon DEF OutOK
  <2>3. CASE j = Len(out) + 1
    BY <1>8, <1>12, <2>1, <2>3, Zenon
  <2> QED BY <2>1, <2>2, <2>3, Zenon
<1>15. OutOK'
  BY <1>1, <1>8, <1>9, <1>13, <1>14, Zenon DEF OutOK
<1> QED BY <1>4, <1>15, Zenon

(* Every turn of the loop of read_next. *)
LEMMA LoopKeeps ==
  ASSUME FilesOK, PositionOK, OutOK, ReadLoop
  PROVE  FilesOK' /\ PositionOK' /\ OutOK'
<1>1. CASE EndOfSegment \/ ZeroPadding
  BY <1>1, NextFileKeeps, Zenon DEF EndOfSegment, ZeroPadding
<1>2. CASE BadMagic \/ BadHeaderCrc \/ BadPayload \/ BadEvent
  <2>1. PICK words \in Nat : /\ offset' = offset + words
                             /\ UNCHANGED <<files, segment_paths, segment_index, mapped, out>>
    <3>1. CASE BadMagic \/ BadHeaderCrc
      BY <3>1, Zenon DEF BadMagic, BadHeaderCrc, Skip
    <3>2. CASE BadPayload \/ BadEvent
      <4>1. SizeAt(mapped, offset) \in Nat
        BY <3>2, AtRecord, Zenon DEF BadPayload, BadEvent
      <4> QED BY <3>2, <4>1, Zenon DEF BadPayload, BadEvent, Skip
    <3> QED BY <1>2, <3>1, <3>2, Zenon
  <2> QED BY <2>1, SkipKeeps, Zenon
<1>3. CASE ReadOk
  BY <1>3, ReadKeeps, Zenon
<1> QED BY <1>1, <1>2, <1>3, Zenon DEF ReadLoop

(* Every open of a directory or a file. *)
LEMMA AnyOpenKeeps ==
  ASSUME FilesOK, OpenDirectory \/ OpenSegment \/ OpenEmptyDirectory
  PROVE  FilesOK' /\ PositionOK' /\ OutOK'
<1>1. CASE OpenDirectory
  BY <1>1, PathsOK, OpenKeeps, Zenon DEF OpenDirectory
<1>2. CASE OpenSegment
  <2>1. PICK i \in DOMAIN files : Open(<<i>>)
    BY <1>2, Zenon DEF OpenSegment
  <2>2. PICK ps \in Seq(DOMAIN files) : ps = <<i>>
    BY PathsOK, Zenon
  <2> QED BY <2>1, <2>2, OpenKeeps, Zenon
<1>3. CASE OpenEmptyDirectory
  <2>1. << >> \in Seq(DOMAIN files) /\ Len(<< >>) = 0
    OBVIOUS
  <2> QED BY <1>3, <2>1, Opened DEF OpenEmptyDirectory
<1> QED BY <1>1, <1>2, <1>3, Zenon

(* Whatever a program that uses the reader directly calls. *)
LEMMA ReaderKeeps ==
  ASSUME FilesOK, PositionOK, OutOK, ReaderNext \/ UNCHANGED readerVars
  PROVE  FilesOK' /\ PositionOK' /\ OutOK'
<1>1. CASE OpenDirectory \/ OpenSegment \/ OpenEmptyDirectory
  BY <1>1, AnyOpenKeeps, Zenon
<1>2. CASE Close
  <2>1. << >> \in Seq(DOMAIN files) /\ Len(<< >>) = 0
    OBVIOUS
  <2> QED BY <1>2, <2>1, Opened DEF Close
<1>3. CASE ReadCall \/ ReadNotOpen \/ UNCHANGED readerVars
  <2>1. UNCHANGED <<files, segment_paths, segment_index, mapped, offset, out>>
    BY <1>3, Zenon DEF ReadCall, ReadNotOpen, readerVars, reader
  <2>2. offset \in Nat
    BY Zenon DEF PositionOK
  <2>3. PICK words \in Nat : words = 0 /\ offset' = offset + words
    BY <2>1, <2>2
  <2> QED BY <2>1, <2>3, SkipKeeps, Zenon
<1>4. CASE ReadLoop
  BY <1>4, LoopKeeps, Zenon
<1> QED BY <1>1, <1>2, <1>3, <1>4, Zenon DEF ReaderNext

-----------------------------------------------------------------------------
(* When read_next leaves a file, none of what a replay wants is left in it.*)
LEMMA NothingLeft ==
  ASSUME FilesOK, PositionOK, OnTheWay, EndOfSegment \/ ZeroPadding
  PROVE  \A r : Wanted(r) /\ r[1] = mapped => Passed(r)
<1>1. PICK k \in 0 .. SlotsPerFile, m \in 0 .. 3 :
        /\ offset = RecordWords * k + m /\ Clean(mapped, k)
        /\ m # 0 => k < SlotsPerFile /\ At(mapped, k + 1) \in {"badmagic", "badcrc"}
  BY ZenonT(30) DEF OnTheWay, ScanOK
<1>2. /\ SlotsPerFile \in Nat \ {0} /\ k \in Nat /\ m \in 0 .. 4 /\ offset \in Nat
      /\ mapped # 0
  BY Typed DEF PositionOK, OnTheWay
<1>3. k = SlotsPerFile \/ At(mapped, k + 1) \notin {"valid", "badpayload", "refused"}
  <2>1. CASE m # 0
    BY <1>1, <2>1, Zenon
  <2>2. CASE m = 0 /\ AtEnd
    BY <1>1, <1>2, <2>2 DEF AtEnd, MappedWords, RecordWords
  <2>3. CASE m = 0 /\ ~ AtEnd
    <3>1. WordAt(mapped, offset) = "zero"
      BY <2>3, Zenon DEF EndOfSegment, ZeroPadding
    <3>2. offset % RecordWords = 0
      BY <1>1, <1>2, <2>3, SlotOf, Zenon
    <3>3. Content(mapped, offset) = At(mapped, k + 1)
      BY <1>1, <1>2, <2>3, InsideFile, Zenon
    <3>4. At(mapped, k + 1) = "zero"
      BY <3>1, <3>2, <3>3 DEF WordAt
    <3> QED BY <3>4, Zenon
  <2> QED BY <2>1, <2>2, <2>3, Zenon
<1> SUFFICES ASSUME NEW r, Wanted(r), r[1] = mapped PROVE Passed(r)
  BY Zenon
<1>4. r[2] \in 1 .. SlotsPerFile /\ At(mapped, r[2]) = "valid" /\ Clean(mapped, r[2] - 1)
  BY Zenon DEF Wanted, IsValid, IsPlace, FileSlots
<1>5. r[2] <= k
  <2>1. CASE r[2] > k + 1
    <3>1. k + 1 \in 1 .. r[2] - 1 /\ k # SlotsPerFile
      BY <1>2, <1>4, <2>1
    <3> QED BY <1>3, <1>4, <3>1, ZenonT(30) DEF Clean
  <2>2. CASE r[2] = k + 1
    <3>1. k # SlotsPerFile
      BY <1>2, <1>4, <2>2, SMTT(30), Zenon
    <3> QED BY <1>3, <1>4, <2>2, <3>1, ZenonT(30)
  <2> QED BY <1>2, <1>4, <2>1, <2>2
<1>6. RecordWords * r[2] <= offset
  BY <1>1, <1>2, <1>4, <1>5, SMTT(30) DEF RecordWords
<1> QED BY <1>6, Zenon DEF Passed

(* Wanted and what has been returned do not depend on the position. *)
LEMMA WantedStays ==
  ASSUME UNCHANGED <<files, segment_paths>>
  PROVE  \A r : Wanted(r)' <=> Wanted(r)
  BY Zenon DEF Wanted, IsValid, IsPlace, Clean, At

(* Going on to the next file, a replay has missed nothing; if there is     *)
(* none, or none with a good header, it has found all.                     *)
LEMMA NextFileOnTheWay ==
  ASSUME FilesOK, PositionOK, OnTheWay, EndOfSegment \/ ZeroPadding
  PROVE  /\ phase' = "loop" => OnTheWay'
         /\ phase' # "loop" => Complete'
<1>0. NextSegment /\ phase = "loop"
  BY Zenon DEF EndOfSegment, ZeroPadding
<1>1. /\ UNCHANGED <<files, segment_paths, out>> /\ segment_index' = segment_index + 1
      /\ Returned' = Returned
  BY <1>0, NextFile, Zenon DEF Returned
<1>2. /\ segment_index \in Nat \ {0} /\ mapped = segment_index /\ mapped \in Nat
      /\ Len(segment_paths) \in Nat
  BY Typed, Zenon DEF PositionOK, OnTheWay
<1>3. \A r : Wanted(r)' <=> Wanted(r)
  BY <1>1, WantedStays, ZenonT(30)
<1>4. \A r : Wanted(r) => r[1] \in Nat /\ r[1] <= Len(segment_paths) /\ r[2] \in Nat \ {0}
  BY Typed DEF Wanted, IsValid, IsPlace, FileSlots
<1>5. \A r : Wanted(r) /\ r[1] <= mapped => r \in Returned
  <2> SUFFICES ASSUME NEW r, Wanted(r), r[1] <= mapped PROVE r \in Returned
    BY Zenon
  <2>1. Passed(r)
    BY <1>2, <1>4, NothingLeft DEF Passed
  <2> QED BY <2>1, Zenon DEF OnTheWay
<1>6. \A r \in Returned : Wanted(r)
  BY Zenon DEF OnTheWay
<1>7. CASE /\ segment_index + 1 <= Len(segment_paths)
           /\ files[segment_paths[segment_index + 1]].state = "ok"
           /\ mapped' = segment_index + 1 /\ offset' = 0 /\ phase' = phase
  <2>1. \A p \in 1 .. mapped' : files[segment_paths[p]].state = "ok"
    BY <1>2, <1>7 DEF OnTheWay
  <2>2. ScanOK'
    <3>1. PICK k \in 0 .. SlotsPerFile, m \in 0 .. 3 : k = 0 /\ m = 0
      BY Typed, SMTT(30), Zenon
    <3>2. offset' = RecordWords * k + m /\ Clean(mapped, k)'
      BY <1>7, <3>1 DEF RecordWords, Clean
    <3> QED BY <3>1, <3>2, ZenonT(30) DEF ScanOK
  <2>3. \A r : Wanted(r) /\ Passed(r)' => r \in Returned
    <3> SUFFICES ASSUME NEW r, Wanted(r), Passed(r)' PROVE r \in Returned
      BY Zenon
    <3>1. r[1] \in Nat /\ r[2] \in Nat \ {0}
      BY <1>4, ZenonT(30)
    <3>2. r[1] <= mapped
      BY <1>2, <1>7, <3>1, SMTT(30) DEF Passed, RecordWords
    <3> QED BY <1>5, <3>2, Zenon
  <2>4. OnTheWay'
    <3>1. mapped' = segment_index' /\ mapped' # 0
      BY <1>1, <1>2, <1>7
    <3>2. \A p \in 1 .. mapped' : files'[segment_paths'[p]].state = "ok"
      BY <1>1, <2>1, Zenon
    <3>3. /\ \A r : Wanted(r)' /\ Passed(r)' => r \in Returned'
          /\ \A r \in Returned' : Wanted(r)'
      BY <1>1, <1>3, <1>6, <2>3, Zenon
    <3> QED BY <2>2, <3>1, <3>2, <3>3, Zenon DEF OnTheWay
  <2> QED BY <1>0, <1>7, <2>4, ZenonT(30)
<1>8. CASE /\ \/ segment_index + 1 > Len(segment_paths)
              \/ /\ segment_index + 1 <= Len(segment_paths)
                 /\ files[segment_paths[segment_index + 1]].state # "ok"
           /\ phase' = "idle"
  <2>1. \A r : Wanted(r) => r[1] <= mapped
    <3> SUFFICES ASSUME NEW r, Wanted(r), r[1] > mapped PROVE FALSE
      BY <1>2, <1>4
    <3>1. r[1] \in Nat /\ segment_index + 1 <= r[1] /\ r[1] <= Len(segment_paths)
      BY <1>2, <1>4
    <3>2. segment_index + 1 \in 1 .. r[1] /\ ~ (segment_index + 1 > Len(segment_paths))
      BY <1>2, <3>1
    <3> QED BY <1>8, <3>2, Zenon DEF Wanted
  <2>2. Complete'
    BY <1>1, <1>3, <1>5, <1>6, <2>1, Zenon DEF Complete
  <2> QED BY <1>8, <2>2, Zenon
<1> QED BY <1>0, <1>7, <1>8, NextFile, Zenon

(* A skipped word or record is none that a replay wants. *)
LEMMA SkipOnTheWay ==
  ASSUME FilesOK, PositionOK, OwnSizes, OnTheWay,
         BadMagic \/ BadHeaderCrc \/ BadPayload \/ BadEvent
  PROVE  OnTheWay' /\ phase' = "loop"
<1>1. /\ UNCHANGED <<files, segment_paths, segment_index, mapped, out>> /\ phase' = "loop"
      /\ Returned' = Returned /\ ~ AtEnd
  BY Zenon DEF BadMagic, BadHeaderCrc, BadPayload, BadEvent, Skip, Returned
<1>2. PICK k \in 0 .. SlotsPerFile, m \in 0 .. 3 :
        /\ offset = RecordWords * k + m /\ Clean(mapped, k)
        /\ m # 0 => k < SlotsPerFile /\ At(mapped, k + 1) \in {"badmagic", "badcrc"}
  BY Zenon DEF OnTheWay, ScanOK
<1>3. /\ SlotsPerFile \in Nat \ {0} /\ k \in Nat /\ m \in 0 .. 4 /\ offset \in Nat
  BY Typed DEF PositionOK
<1>4. /\ mapped \in 1 .. Len(segment_paths) /\ k + 1 \in FileSlots /\ k < SlotsPerFile
      /\ Content(mapped, offset) = At(mapped, k + 1)
  BY <1>1, <1>2, <1>3, InsideFile, Zenon
<1>5. offset % RecordWords = m
  BY <1>2, <1>3, SlotOf, Zenon
<1>6. At(mapped, k + 1) \in SlotContents
  BY <1>4, Typed, Zenon
<1>7. \A r : Wanted(r)' <=> Wanted(r)
  BY <1>1, WantedStays, ZenonT(30)
<1>8. \A r : Wanted(r) => r[2] \in Nat
  BY <1>3 DEF Wanted, IsValid, IsPlace, FileSlots
<1>9. \A p, i : At(p, i)' = At(p, i)
  BY <1>1, Zenon DEF At
<1>10. \/ /\ offset' = RecordWords * k + (m + 1) /\ m # 3
          /\ At(mapped, k + 1) \in {"badmagic", "badcrc"}
       \/ /\ offset' = RecordWords * (k + 1) /\ At(mapped, k + 1) \in {"badpayload", "refused"}
  <2>1. CASE BadMagic
    <3>1. WordAt(mapped, offset) = "other" /\ offset' = offset + 1
      BY <2>1, Zenon DEF BadMagic, Skip
    <3>2. m # 3 /\ (m = 0 => At(mapped, k + 1) = "badmagic")
      BY <1>4, <1>5, <3>1, ZenonT(30) DEF WordAt
    <3> QED BY <1>2, <1>3, <3>1, <3>2 DEF RecordWords
  <2>2. CASE BadHeaderCrc
    <3>1. /\ WordAt(mapped, offset) = "RECD" /\ offset' = offset + 1 /\ At(mapped, k + 1) = "badcrc"
      BY <1>4, <2>2, Zenon DEF BadHeaderCrc, Skip
    <3>2. m = 0
      BY <1>5, <3>1, Zenon DEF WordAt
    <3> QED BY <1>2, <1>3, <3>1, <3>2 DEF RecordWords
  <2>3. CASE BadPayload \/ BadEvent
    <3>0. WordAt(mapped, offset) = "RECD" /\ ~ AtEnd
      BY <2>3, Zenon DEF BadPayload, BadEvent
    <3>1. /\ WordAt(mapped, offset) = "RECD" /\ offset' = offset + RecordWords
          /\ At(mapped, k + 1) \in {"badpayload", "refused"}
      BY <1>4, <2>3, <3>0, AtRecord, Zenon DEF BadPayload, BadEvent, Skip
    <3>2. m = 0
      BY <1>5, <3>1, Zenon DEF WordAt
    <3>3. offset' = RecordWords * (k + 1)
      BY <1>2, <1>3, <3>1, <3>2 DEF RecordWords
    <3> QED BY <3>1, <3>3, Zenon
  <2> QED BY <2>1, <2>2, <2>3, ZenonT(30)
<1>11. ScanOK'
  <2>1. CASE /\ offset' = RecordWords * k + (m + 1) /\ m # 3
             /\ At(mapped, k + 1) \in {"badmagic", "badcrc"}
    <3>1. PICK n \in 0 .. 3 : n = m + 1
      BY <1>3, <2>1
    <3>2. offset' = RecordWords * k + n
      BY <2>1, <3>1, Zenon
    <3>3. Clean(mapped, k)'
      BY <1>1, <1>2, <1>9, Zenon DEF Clean
    <3>4. k < SlotsPerFile /\ At(mapped, k + 1)' \in {"badmagic", "badcrc"}
      BY <1>1, <1>4, <2>1, Zenon DEF At
    <3> QED BY <3>2, <3>3, <3>4, Zenon DEF ScanOK
  <2>2. CASE /\ offset' = RecordWords * (k + 1) /\ At(mapped, k + 1) \in {"badpayload", "refused"}
    <3>1. PICK n \in 0 .. SlotsPerFile, z \in 0 .. 3 : n = k + 1 /\ z = 0
      BY <1>3, <1>4
    <3>2. offset' = RecordWords * n + z
      BY <1>3, <2>2, <3>1, SMTT(30), Zenon DEF RecordWords
    <3>3. Clean(mapped, n)
      BY <1>2, <1>3, <2>2, <3>1 DEF Clean
    <3>4. Clean(mapped, n)'
      BY <1>1, <1>9, <3>3, Zenon DEF Clean
    <3> QED BY <3>1, <3>2, <3>4, Zenon DEF ScanOK
  <2> QED BY <1>10, <2>1, <2>2, Zenon
<1>12. \A r : Wanted(r) /\ Passed(r)' => Passed(r)
  <2> SUFFICES ASSUME NEW r, Wanted(r), r[1] = mapped, RecordWords * r[2] <= offset'
               PROVE  RecordWords * r[2] <= offset
    BY <1>1, Zenon DEF Passed
  <2>1. r[2] \in Nat /\ At(mapped, r[2]) = "valid"
    BY <1>8, Zenon DEF Wanted, IsValid
  <2>2. CASE offset' = RecordWords * k + (m + 1) /\ m # 3
    BY <1>2, <1>3, <2>1, <2>2, SMTT(30), Zenon DEF RecordWords
  <2>3. CASE /\ offset' = RecordWords * (k + 1) /\ At(mapped, k + 1) \in {"badpayload", "refused"}
    <3>1. r[2] # k + 1
      BY <2>1, <2>3, Zenon
    <3> QED BY <1>2, <1>3, <2>1, <2>3, <3>1 DEF RecordWords
  <2> QED BY <1>10, <2>2, <2>3, Zenon
<1>13. /\ mapped' = segment_index' /\ mapped' # 0
       /\ \A p \in 1 .. mapped' : files'[segment_paths'[p]].state = "ok"
  BY <1>1, Zenon DEF OnTheWay
<1>14. \A r : Wanted(r)' /\ Passed(r)' => r \in Returned'
  BY <1>1, <1>7, <1>12, Zenon DEF OnTheWay
<1>15. \A r \in Returned' : Wanted(r)'
  BY <1>1, <1>7, Zenon DEF OnTheWay
<1> QED BY <1>1, <1>11, <1>13, <1>14, <1>15, Zenon DEF OnTheWay

(* A record returned is wanted, and the only one passed over. *)
LEMMA ReadOnTheWay ==
  ASSUME FilesOK, PositionOK, OwnSizes, OutOK, OnTheWay, ReadOk
  PROVE  OnTheWay'
<1>0. /\ ~ AtEnd /\ WordAt(mapped, offset) = "RECD" /\ Content(mapped, offset) = "valid"
      /\ out' = Append(out, <<mapped, SlotAt(offset)>>)
      /\ offset' = offset + SizeAt(mapped, offset)
      /\ UNCHANGED <<files, segment_paths, segment_index, mapped>>
  BY Zenon DEF ReadOk
<1>2. PICK k \in Nat : /\ offset = RecordWords * k /\ k + 1 \in FileSlots /\ k < SlotsPerFile
                       /\ mapped \in 1 .. Len(segment_paths)
                       /\ SlotAt(offset) = k + 1 /\ At(mapped, k + 1) = "valid"
                       /\ SizeAt(mapped, offset) = RecordWords
  BY <1>0, AtRecord, Zenon
<1>1. /\ out' = Append(out, <<mapped, SlotAt(offset)>>) /\ offset' = offset + RecordWords
      /\ UNCHANGED <<files, segment_paths, segment_index, mapped>>
  BY <1>0, <1>2, Zenon
<1>3. offset' = RecordWords * (k + 1)
  BY <1>1, <1>2 DEF RecordWords
<1>4. Clean(mapped, k)
  <2>1. PICK l \in 0 .. SlotsPerFile, m \in 0 .. 3 : offset = RecordWords * l + m /\ Clean(mapped, l)
    BY Zenon DEF OnTheWay, ScanOK
  <2>2. l = k
    BY <1>2, <2>1, Typed DEF RecordWords
  <2> QED BY <2>1, <2>2, Zenon
<1>5. PICK x : x = <<mapped, k + 1>>
  BY Zenon
<1>6. /\ x \in Nat \X Nat /\ x[1] = mapped /\ x[2] = k + 1 /\ IsValid(x)
  BY <1>2, <1>5, Typed, SMTT(30) DEF IsValid, IsPlace, FileSlots
<1>7. Wanted(x)
  <2>1. (k + 1) - 1 = k
    BY <1>2
  <2> QED BY <1>4, <1>6, <2>1, Zenon DEF Wanted, OnTheWay
<1>8. Returned' = Returned \cup {x}
  <2>1. out' = Append(out, x) /\ out \in Seq(Nat \X Nat)
    BY <1>1, <1>2, <1>5, Zenon DEF OutOK
  <2>2. /\ DOMAIN out' = 1 .. Len(out) + 1 /\ DOMAIN out = 1 .. Len(out) /\ Len(out) \in Nat
        /\ out'[Len(out) + 1] = x /\ \A i \in 1 .. Len(out) : out'[i] = out[i]
    BY <1>6, <2>1
  <2> QED BY <2>2, SMTT(30) DEF Returned
<1>9. \A r : Wanted(r)' <=> Wanted(r)
  BY <1>1, WantedStays, Zenon
<1>10. ScanOK'
  <2>1. PICK n \in 0 .. SlotsPerFile, z \in 0 .. 3 : n = k + 1 /\ z = 0
    BY <1>2, Typed
  <2>2. offset' = RecordWords * n + z
    BY <1>2, <1>3, <2>1 DEF RecordWords
  <2>3. Clean(mapped, n)
    BY <1>2, <1>4, <2>1 DEF Clean
  <2>4. Clean(mapped, n)'
    BY <1>1, <2>3, Zenon DEF Clean, At
  <2> QED BY <2>1, <2>2, <2>4, Zenon DEF ScanOK
<1>11. \A r : Wanted(r) /\ Passed(r)' => r \in Returned'
  <2> SUFFICES ASSUME NEW r, Wanted(r), Passed(r)' PROVE r \in Returned'
    BY Zenon, SMT
  <2>1. r \in (DOMAIN segment_paths) \X FileSlots /\ r[2] \in Nat
    BY Typed, SMTT(30) DEF Wanted, IsValid, IsPlace, FileSlots
  <2>2. CASE Passed(r)
    BY <1>8, <2>2, Zenon DEF OnTheWay
  <2>3. CASE ~ Passed(r)
    <3>1. r[1] = mapped /\ RecordWords * r[2] <= RecordWords * (k + 1) /\ ~ (RecordWords * r[2] <= RecordWords * k)
      BY <1>1, <1>2, <1>3, <2>3, Zenon DEF Passed
    <3>2. r[2] = k + 1
      BY <2>1, <3>1 DEF RecordWords
    <3>3. r = x
      BY <1>5, <2>1, <3>1, <3>2
    <3> QED BY <1>8, <3>3, Zenon
  <2> QED BY <2>2, <2>3, Zenon
<1> QED BY <1>1, <1>7, <1>8, <1>9, <1>10, <1>11, Zenon DEF OnTheWay

-----------------------------------------------------------------------------
(* What a step leaves of the counters. *)
LEMMA RecordsCounted ==
  ASSUME stats \in [segments : Nat, records : Nat, corrupted : Nat], out \in Seq(Nat \X Nat),
         ReaderNext
  PROVE  /\ stats' \in [segments : Nat, records : Nat, corrupted : Nat]
         /\ ReadLoop /\ ~ ReadOk => stats'.records = stats.records /\ out' = out
         /\ ReadOk => stats'.records = stats.records + 1
         /\ ~ ReadLoop => stats'.records = stats.records
<1>1. CASE ~ ReadLoop
  <2>1. stats' = stats \/ stats' = [stats EXCEPT !.segments = @ + 1]
    BY <1>1, Zenon DEF ReaderNext, OpenDirectory, OpenSegment, OpenEmptyDirectory, Open, LoadOk, Close, ReadCall,
       ReadNotOpen
  <2> QED BY <1>1, <2>1 DEF ReadLoop
<1>2. CASE ReadOk
  BY <1>2, SMTT(30) DEF ReadOk, ReadLoop
<1>3. CASE EndOfSegment \/ ZeroPadding
  <2>1. stats' = stats \/ stats' = [stats EXCEPT !.segments = @ + 1]
    BY <1>3, Zenon DEF EndOfSegment, ZeroPadding, NextSegment, LoadOk, LoadFails
  <2>2. out' = out
    BY <1>3, Zenon DEF EndOfSegment, ZeroPadding, NextSegment
  <2>3. stats' \in [segments : Nat, records : Nat, corrupted : Nat] /\ stats'.records = stats.records
    BY <2>1
  <2>4. ~ ReadOk
    BY <1>3, Zenon DEF EndOfSegment, ZeroPadding, ReadOk
  <2> QED BY <1>3, <2>2, <2>3, <2>4, Zenon DEF ReadLoop
<1>4. CASE BadMagic \/ BadHeaderCrc \/ BadPayload \/ BadEvent
  <2>1. PICK n \in Nat : stats' = [stats EXCEPT !.corrupted = UpTo(MaxCorrupted, @ + n)]
    BY <1>4, Zenon DEF BadMagic, BadHeaderCrc, BadPayload, BadEvent, Skip, ScanBytes
  <2>2. out' = out /\ ~ ReadOk
    BY <1>4, Zenon DEF BadMagic, BadHeaderCrc, BadPayload, BadEvent, Skip, ReadOk
  <2>3. stats' \in [segments : Nat, records : Nat, corrupted : Nat] /\ stats'.records = stats.records
    <3>0. stats.corrupted + n \in Nat /\ MaxCorrupted \in Nat
      BY <2>1, BoundsAssumption
    <3>1. PICK c \in Nat : c = UpTo(MaxCorrupted, stats.corrupted + n)
      BY <3>0, Zenon DEF UpTo
    <3>2. stats' = [stats EXCEPT !.corrupted = c]
      BY <2>1, <3>1, Zenon
    <3>3. stats'.records = stats.records
      BY <3>2, Zenon
    <3> QED BY <3>1, <3>2, <3>3, Zenon
  <2> QED BY <1>4, <2>2, <2>3, Zenon DEF ReadLoop
<1> QED BY <1>1, <1>2, <1>3, <1>4, Zenon DEF ReadLoop

(* Nothing is open, nothing is dispatched. *)
LEMMA RInit == ReplayInit => RInv
<1> SUFFICES ASSUME ReplayInit PROVE RInv
  BY Zenon
<1>1. FilesOK
  <2>1. PICK n \in 0 .. MaxFiles : files \in [1 .. n -> FileContents]
    BY Zenon DEF ReplayInit, ReaderInit
  <2>2. n \in Nat
    BY <2>1, BoundsAssumption
  <2>3. FileContents \subseteq OneFile
    <3>1. {c[2] : c \in Contents} \subseteq Nat
      BY BoundsAssumption, Zenon
    <3> QED BY <3>1, Zenon DEF FileContents, FileSlots, OneFile
  <2>4. segment_paths \in Seq(DOMAIN files)
    BY SMTT(30), Zenon DEF ReplayInit, ReaderInit
  <2> QED BY <2>1, <2>2, <2>3, <2>4, Zenon DEF FilesOK
<1>2. PositionOK /\ OutOK
  BY DEF ReplayInit, ReaderInit, PositionOK, OutOK
<1>3. ReplayOK
  BY Zenon DEF ReplayInit, ReaderInit, ReplayOK
<1>4. CountsOK
  BY SMTT(30) DEF ReplayInit, ReaderInit, CountsOK
<1> QED BY <1>1, <1>2, <1>3, <1>4, Zenon DEF RInv

(* A replay that has opened its first file has found nothing yet. *)
LEMMA OpenOnTheWay ==
  ASSUME FilesOK, NEW ps \in Seq(DOMAIN files), Open(ps), result' = "ok"
  PROVE  OnTheWay'
<1>1. /\ LoadOk(ps, 1) /\ segment_paths' = ps /\ segment_index' = 1 /\ files' = files
      /\ out' = << >>
  BY Zenon DEF Open
<1>2. mapped' = 1 /\ offset' = 0 /\ files[ps[1]].state = "ok" /\ Returned' = {}
  BY <1>1 DEF LoadOk, Returned
<1>3. FilesOK'
  BY OpenKeeps, Zenon
<1>4. SlotsPerFile \in Nat
  BY Typed, Zenon
<1>5. ScanOK'
  <2>1. PICK k \in 0 .. SlotsPerFile, m \in 0 .. 3 : k = 0 /\ m = 0
    BY <1>4
  <2>2. offset' = RecordWords * k + m /\ Clean(mapped, k)'
    BY <1>2, <2>1 DEF RecordWords, Clean
  <2> QED BY <2>1, <2>2, Zenon DEF ScanOK
<1>6. \A r : ~ (Wanted(r)' /\ Passed(r)')
  <2> SUFFICES ASSUME NEW r, Wanted(r)', Passed(r)' PROVE FALSE
    BY Zenon
  <2>1. DOMAIN ps = 1 .. Len(ps) /\ Len(ps) \in Nat
    BY SMTT(30)
  <2>2. r \in (1 .. Len(ps)) \X FileSlots
    BY <1>1, <2>1, Zenon DEF Wanted, IsValid, IsPlace
  <2>3. r[1] \in Nat \ {0} /\ r[2] \in Nat \ {0}
    BY <1>4, <2>1, <2>2 DEF FileSlots
  <2> QED BY <1>2, <2>3 DEF Passed, RecordWords
<1>7. /\ mapped' = segment_index' /\ mapped' # 0
      /\ \A p \in 1 .. mapped' : files'[segment_paths'[p]].state = "ok"
  <2>1. \A p \in 1 .. 1 : p = 1
    OBVIOUS
  <2>2. files'[segment_paths'[1]].state = "ok"
    BY <1>1, <1>2, Zenon
  <2>3. mapped' = segment_index' /\ mapped' # 0
    BY <1>1, <1>2, SMTT(30)
  <2> QED BY <1>2, <2>1, <2>2, <2>3, Zenon
<1>8. \A r \in Returned' : Wanted(r)'
  BY <1>2, Zenon
<1> QED BY <1>5, <1>6, <1>7, <1>8, Zenon DEF OnTheWay

(* The steps of a replay that leave the reader where it is. *)
LEMMA ReaderStays ==
  ASSUME UNCHANGED <<files, segment_paths, segment_index, mapped, offset, out>>
  PROVE  /\ FilesOK' <=> FilesOK
         /\ PositionOK' <=> PositionOK
         /\ OutOK' <=> OutOK
         /\ OnTheWay' <=> OnTheWay
         /\ Complete' <=> Complete
         /\ OwnSizes' <=> OwnSizes
<1>1. Returned' = Returned
  BY Zenon DEF Returned
<1>2. \A r : (Wanted(r)' <=> Wanted(r)) /\ (Passed(r)' <=> Passed(r)) /\ (IsValid(r)' <=> IsValid(r))
  BY Zenon DEF Wanted, Passed, IsValid, IsPlace, Clean, At
<1>3. ScanOK' <=> ScanOK
  BY Zenon DEF ScanOK, Clean, At
<1>4. OnTheWay' <=> OnTheWay
  BY <1>1, <1>2, <1>3, Zenon DEF OnTheWay
<1>5. Complete' <=> Complete
  BY <1>1, <1>2, Zenon DEF Complete
<1>6. OutOK' <=> OutOK
  <2>1. \A r : Reached(r)' <=> Reached(r)
    BY Zenon DEF Reached, SizesPositive
  <2>2. \A a, b : NotAfter(a, b)' <=> NotAfter(a, b)
    BY Zenon DEF NotAfter, Before, SizesPositive
  <2> QED BY <1>2, <2>1, <2>2, Zenon, SMT DEF OutOK
<1> QED BY <1>4, <1>5, <1>6, Zenon DEF FilesOK, PositionOK, OwnSizes

(* The open a replay starts with. *)
LEMMA ReplayOpenKeeps ==
  ASSUME RInv, ReplayOpen
  PROVE  RInv'
<1>1. /\ FilesOK /\ rpc = "open" /\ out = << >> /\ dispatched = << >> /\ stats.records = 0
      /\ replay_stats.events = 0
  BY Zenon DEF RInv, ReplayOpen, ReplayOK, CountsOK
<1>2. FilesOK' /\ PositionOK' /\ OutOK'
  BY <1>1, AnyOpenKeeps, Zenon DEF ReplayOpen
<1>3. ReaderNext /\ ~ ReadLoop /\ out' = << >>
  <2>1. ReaderNext /\ phase = "idle" /\ out' = << >>
    BY Zenon DEF ReplayOpen, ReaderNext, OpenDirectory, OpenSegment, OpenEmptyDirectory, Open
  <2> QED BY <2>1, Zenon DEF ReadLoop, EndOfSegment, ZeroPadding, BadMagic, BadHeaderCrc, BadPayload,
        BadEvent, ReadOk
<1>4. stats' \in [segments : Nat, records : Nat, corrupted : Nat] /\ stats'.records = 0
  BY <1>1, <1>3, RecordsCounted, Zenon DEF RInv, CountsOK, OutOK
<1>5. /\ rpc' = IF result' = "ok" THEN "call" ELSE "failed"
      /\ UNCHANGED <<dispatched, replay_stats>>
  BY Zenon DEF ReplayOpen
<1>6. CountsOK'
  BY <1>1, <1>3, <1>4, <1>5, Zenon DEF RInv, CountsOK
<1>7. result' = "ok" => OnTheWay'
  <2> SUFFICES ASSUME result' = "ok" PROVE OnTheWay'
    BY Zenon
  <2>1. PICK ps \in Seq(DOMAIN files) : Open(ps)
    <3>1. CASE OpenDirectory
      BY <1>1, <3>1, PathsOK, Zenon DEF OpenDirectory
    <3>2. CASE OpenSegment
      BY <1>1, <3>2, PathsOK, Zenon DEF OpenSegment
    <3> QED BY <3>1, <3>2, Zenon DEF ReplayOpen, OpenEmptyDirectory
  <2> QED BY <1>1, <2>1, OpenOnTheWay, Zenon
<1>8. ReplayOK'
  BY <1>1, <1>3, <1>5, <1>7, Zenon DEF ReplayOK
<1> QED BY <1>2, <1>6, <1>8, Zenon DEF RInv

(* A call of read_next, the dispatch of its result, and the end. *)
LEMMA ReplayCallKeeps ==
  ASSUME RInv, ReplayCall \/ ReplayDispatch \/ ReplayFinish \/ UNCHANGED allVars
  PROVE  RInv'
<1>1. UNCHANGED <<files, segment_paths, segment_index, mapped, offset, out, stats>>
  BY Zenon DEF ReplayCall, ReadCall, ReplayDispatch, ReplayFinish, allVars, readerVars, reader
<1>2. /\ FilesOK' /\ PositionOK' /\ OutOK' /\ (OnTheWay' <=> OnTheWay) /\ (Complete' <=> Complete)
      /\ OwnSizes' <=> OwnSizes
  BY <1>1, ReaderStays, Zenon DEF RInv
<1>3. CASE ReplayCall
  BY <1>1, <1>2, <1>3, Zenon DEF ReplayCall, RInv, ReplayOK, CountsOK
<1>4. CASE ReplayDispatch
  <2>1. /\ rpc = "dispatch" /\ rpc' = "call" /\ dispatched' = Append(dispatched, out[Len(out)])
        /\ replay_stats' = [replay_stats EXCEPT !.events = @ + 1]
    BY <1>4, Zenon DEF ReplayDispatch
  <2>2. dispatched' = out
    BY <2>1, Zenon DEF RInv, ReplayOK
  <2>3. Len(dispatched') = Len(dispatched) + 1 /\ out \in Seq(Nat \X Nat)
    BY <2>1 DEF RInv, CountsOK, OutOK
  <2>4. ReplayOK'
    BY <1>1, <1>2, <2>1, <2>2, Zenon DEF RInv, ReplayOK
  <2>5. CountsOK'
    BY <1>1, <2>1, <2>2, <2>3, Zenon DEF RInv, CountsOK
  <2> QED BY <1>2, <2>4, <2>5, Zenon DEF RInv
<1>5. CASE ReplayFinish
  <2>1. /\ rpc = "finish" /\ rpc' = "done" /\ dispatched' = dispatched
        /\ replay_stats' = [replay_stats EXCEPT !.segments = stats.segments,
                                                !.corrupted = stats.corrupted]
    BY <1>5, Zenon DEF ReplayFinish
  <2>2. replay_stats' \in [segments : Nat, events : Nat, corrupted : Nat]
        /\ replay_stats'.events = replay_stats.events
    BY <2>1, Zenon DEF RInv, CountsOK
  <2> QED BY <1>1, <1>2, <2>1, <2>2, Zenon DEF RInv, ReplayOK, CountsOK
<1>6. CASE UNCHANGED allVars
  BY <1>1, <1>2, <1>6, Zenon DEF allVars, replayVars, RInv, ReplayOK, CountsOK
<1> QED BY <1>3, <1>4, <1>5, <1>6, Zenon

(* A turn of read_next in a replay. *)
LEMMA ReplayReadKeeps ==
  ASSUME RInv, ReplayRead
  PROVE  RInv'
<1>1. /\ FilesOK /\ PositionOK /\ OutOK /\ (OwnSizes => OnTheWay) /\ rpc = "read" /\ dispatched = out
      /\ ReadLoop /\ ReaderNext
  BY Zenon DEF RInv, ReplayRead, ReplayOK, ReaderNext
<1>0. OwnSizes' <=> OwnSizes
  <2>1. files' = files
    BY <1>1, Zenon DEF ReadLoop, EndOfSegment, ZeroPadding, NextSegment, BadMagic, BadHeaderCrc, BadPayload,
       BadEvent, Skip, ReadOk
  <2> QED BY <2>1, Zenon DEF OwnSizes
<1>2. FilesOK' /\ PositionOK' /\ OutOK'
  BY <1>1, LoopKeeps, Zenon
<1>3. /\ rpc' = IF phase' = "loop" THEN "read" ELSE IF result' = "ok" THEN "dispatch" ELSE "finish"
      /\ UNCHANGED <<dispatched, replay_stats>>
  BY Zenon DEF ReplayRead
<1>4. /\ stats' \in [segments : Nat, records : Nat, corrupted : Nat]
      /\ ~ ReadOk => stats'.records = stats.records /\ out' = out
      /\ ReadOk => stats'.records = stats.records + 1
  BY <1>1, RecordsCounted, Zenon DEF RInv, CountsOK, OutOK
<1>5. CASE ReadOk
  <2>1. /\ rpc' = "dispatch" /\ out' = Append(out, <<mapped, SlotAt(offset)>>)
    BY <1>3, <1>5, Zenon DEF ReadOk
  <2>2. OwnSizes' => OnTheWay'
    BY <1>0, <1>1, <1>5, ReadOnTheWay, Zenon
  <2>3. PICK x : out' = Append(out, x)
    BY <2>1, Zenon
  <2>4. out' \in Seq(Nat \X Nat) /\ out \in Seq(Nat \X Nat)
    BY <1>2, Zenon DEF RInv, OutOK
  <2>5. Len(out') = Len(out) + 1 /\ out'[Len(out) + 1] = x
    BY <2>3, <2>4
  <2>6. out' = Append(dispatched, out'[Len(out')])
    BY <1>1, <2>3, <2>5, Zenon
  <2>7. ReplayOK'
    BY <1>3, <2>1, <2>2, <2>6, Zenon DEF ReplayOK
  <2>8. CountsOK'
    BY <1>1, <1>3, <1>4, <1>5, <2>1, <2>5, Zenon, SMT DEF RInv, CountsOK
  <2> QED BY <1>2, <2>7, <2>8, Zenon DEF RInv
<1>6. CASE ~ ReadOk
  <2>1. /\ phase' = "loop" /\ OwnSizes => OnTheWay'
        /\ phase' # "loop" => result' = "notfound"
        /\ phase' # "loop" /\ OwnSizes => Complete'
    <3>1. CASE EndOfSegment \/ ZeroPadding
      <4>1. phase' # "loop" => result' = "notfound"
        BY <1>1, <3>1, NextFile, Zenon DEF EndOfSegment, ZeroPadding
      <4> QED BY <1>1, <3>1, <4>1, NextFileOnTheWay, Zenon
    <3>2. CASE BadMagic \/ BadHeaderCrc \/ BadPayload \/ BadEvent
      <4>1. phase' = "loop"
        BY <3>2, Zenon DEF BadMagic, BadHeaderCrc, BadPayload, BadEvent, Skip
      <4> QED BY <1>1, <3>2, <4>1, SkipOnTheWay, Zenon
    <3> QED BY <1>1, <1>6, <3>1, <3>2, Zenon DEF ReadLoop
  <2>2. /\ rpc' \in {"read", "finish"} /\ (rpc' = "read" /\ OwnSizes' => OnTheWay')
        /\ rpc' = "finish" /\ OwnSizes' => Complete'
    BY <1>0, <1>3, <2>1, Zenon
  <2>3. ReplayOK'
    BY <1>1, <1>3, <1>4, <1>6, <2>2, Zenon DEF ReplayOK
  <2>4. CountsOK'
    BY <1>1, <1>3, <1>4, <1>6, <2>2, Zenon DEF RInv, CountsOK
  <2> QED BY <1>2, <2>3, <2>4, Zenon DEF RInv
<1> QED BY <1>5, <1>6, Zenon

(* RInv is inductive. *)
LEMMA RNext == RInv /\ [ReplayStep \/ DirectStep]_allVars => RInv'
<1> SUFFICES ASSUME RInv, [ReplayStep \/ DirectStep]_allVars PROVE RInv'
  BY Zenon
<1>1. CASE DirectStep
  <2>1. /\ FilesOK' /\ PositionOK' /\ OutOK'
    BY <1>1, ReaderKeeps, Zenon DEF RInv, DirectStep
  <2>2. rpc = "direct" /\ UNCHANGED replayVars /\ ReaderNext
    BY <1>1, Zenon DEF DirectStep
  <2>3. stats' \in [segments : Nat, records : Nat, corrupted : Nat]
    BY <2>2, RecordsCounted, Zenon DEF RInv, CountsOK, OutOK
  <2>4. ReplayOK'
    BY <2>2, Zenon DEF replayVars, ReplayOK
  <2>5. CountsOK'
    BY <2>2, <2>3, Zenon DEF RInv, CountsOK, replayVars
  <2> QED BY <2>1, <2>4, <2>5, Zenon DEF RInv
<1> QED BY <1>1, ReplayOpenKeeps, ReplayCallKeeps, ReplayReadKeeps, Zenon DEF ReplayStep

(* The reader's position, what it has returned and what a replay has       *)
(* dispatched belong together in every state.                              *)
THEOREM ReplayInvariance == ReplaySpec => []RInv
  BY RInit, RNext, PTL DEF ReplaySpec

(* Whatever is in the files and however the caller goes on after an end,   *)
(* read_next returns valid records only and never goes back; it returns    *)
(* none twice unless a record header states the size zero.                 *)
THEOREM RecordsInOrder == ReplaySpec => []ReturnsInOrder
<1>1. RInv => ReturnsInOrder
  <2> SUFFICES ASSUME RInv PROVE ReturnsInOrder
    BY Zenon
  <2>1. FilesOK /\ OutOK /\ DOMAIN out = 1 .. Len(out)
    <3>1. FilesOK /\ OutOK
      BY Zenon DEF RInv
    <3>2. out \in Seq(Nat \X Nat)
      BY <3>1, Zenon DEF OutOK
    <3> QED BY <3>1, <3>2
  <2>2. Returned \subseteq ValidRecords(Journal)
    BY <2>1, InJournal, Zenon DEF OutOK, Returned
  <2> QED BY <2>1, <2>2, Zenon DEF ReturnsInOrder, OutOK, NotAfter
<1> QED BY <1>1, ReplayInvariance, PTL

(* A replay that returns ok has dispatched every record that is not behind *)
(* a damaged record header and none that is not promised, once, in order,  *)
(* and counted, if the record sizes are the writer's.                      *)
THEOREM ReplaysAll == ReplaySpec => []ReplayComplete
<1>1. RInv => ReplayComplete
  <2> SUFFICES ASSUME RInv, rpc = "done", OwnSizes
               PROVE  /\ Replayed(Journal) \subseteq Dispatched
                      /\ Dispatched \subseteq PromisedRecords(Journal)
                      /\ \A i, j \in DOMAIN dispatched :
                           i < j => Before(dispatched[i], dispatched[j])
                      /\ replay_stats.events = Len(dispatched)
                      /\ replay_stats.events = stats.records
    BY Zenon DEF ReplayComplete
  <2>1. FilesOK /\ OutOK /\ dispatched = out /\ Complete /\ DOMAIN out = 1 .. Len(out)
    BY DEF RInv, OutOK, ReplayOK
  <2>2. Dispatched = Returned
    BY <2>1, Zenon DEF Dispatched, Returned
  <2>3. /\ Replayed(Journal) \subseteq Dispatched
        /\ Dispatched \subseteq PromisedRecords(Journal)
    BY <2>1, <2>2, InJournal, Zenon DEF Complete
  <2>4. replay_stats.events = Len(dispatched) /\ replay_stats.events = stats.records
    BY <2>1, Zenon DEF RInv, CountsOK
  <2>5. SizesPositive
    BY DEF OwnSizes, SizesPositive, RecordWords
  <2> QED BY <2>1, <2>3, <2>4, <2>5, Zenon DEF OutOK, NotAfter
<1> QED BY <1>1, ReplayInvariance, PTL
=============================================================================
