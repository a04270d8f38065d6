------------------------- MODULE ConcurrencyProofs -------------------------
(***************************************************************************)
(* HazardPointers, for any number of readers, slots and versions: a slot   *)
(* belongs to one reader, and a version that a reader uses after a sound   *)
(* validation is not deleted.                                              *)
(*                                                                         *)
(* SpscQueue, for every capacity and every number of calls.  The modulo of *)
(* Slot is hidden behind the lemmas on cells, so that each action needs    *)
(* linear arithmetic only.                                                 *)
(***************************************************************************)
EXTENDS HazardPointers, SpscQueue, TLAPS

-----------------------------------------------------------------------------
(* HazardPointers *)

Holding == {"ready", "loaded", "protected", "use"}

(* What a store buffer can contain.  A reader with a slot has only stores  *)
(* to that slot's pointer waiting.  A reader without one waits, before it  *)
(* may take another, for a release to go through: stores to one slot, the  *)
(* last of which sets active to false.                                     *)
Buffered(r) ==
  \/ stores[r] = << >>
  \/ /\ place[r] \in Holding /\ slot[r] \in SlotIds
     /\ \A k \in 1 .. Len(stores[r]) :
          stores[r][k].slot = slot[r] /\ stores[r][k].field = "pointer"
  \/ /\ place[r] \notin Holding
     /\ \A k \in 1 .. Len(stores[r]) :
          /\ stores[r][k].slot = stores[r][1].slot
          /\ stores[r][k].field = (IF k = Len(stores[r]) THEN "active" ELSE "pointer")

Shape == \A r \in Readers : Buffered(r)

(* Occupies, for buffers of that shape. *)
Owns(r, i) ==
  \/ place[r] \in Holding /\ slot[r] = i
  \/ stores[r] # << >> /\ stores[r][1].slot = i

Exclusive ==
  \A r \in Readers : \A i \in SlotIds : Owns(r, i) =>
    /\ i \in active
    /\ \A q \in Readers : Owns(q, i) => q = r

(* A protection has reached the slot or is the last store waiting. *)
Pending(r) ==
  (place[r] = "protected" /\ slot[r] \in SlotIds) =>
    IF stores[r] = << >> THEN pointer[slot[r]] = held[r]
    ELSE stores[r][Len(stores[r])].value = held[r]

Announced == \A r \in Readers : Pending(r)

(* Only versions that have been replaced are retired or deleted. *)
Replaced == \A v \in retired \cup freed : v < current

(* A soundly validated version stays in its slot, and a scan that can      *)
(* delete it and has passed the slot has found it there.                   *)
Shielded(r) ==
  (place[r] = "use" /\ r \in sound) =>
    /\ slot[r] \in SlotIds
    /\ stores[r] = << >>
    /\ pointer[slot[r]] = held[r]
    /\ held[r] # NoVersion
    /\ held[r] \notin freed
    /\ (scan = "scan" /\ held[r] \in retired /\ slot[r] < index) => held[r] \in protected_ptrs

Safe == \A r \in Readers : Shielded(r)

HInv == TypeOK /\ Shape /\ Exclusive /\ Announced /\ Replaced /\ Safe

-----------------------------------------------------------------------------
(* The domain as constructed satisfies the invariant. *)
LEMMA InitHolds == Init => HInv
  BY SlotsAssumption DEF Init, HInv, TypeOK, Shape, Buffered, Exclusive, Owns, Announced, Pending,
     Replaced, Safe, Shielded, SlotIds, Versions, NoVersion, Holding, Places

(* A sequence without elements is the empty one. *)
LEMMA NoneIsEmpty ==
  ASSUME NEW S, NEW q \in Seq(S)
  PROVE  q = << >> <=> Len(q) = 0
OBVIOUS

(* An appended element comes behind the others. *)
LEMMA AppendedTo ==
  ASSUME NEW S, NEW q \in Seq(S), NEW e \in S
  PROVE  /\ Append(q, e) \in Seq(S) /\ Len(Append(q, e)) = Len(q) + 1
         /\ \A k \in 1 .. Len(q) : Append(q, e)[k] = q[k]
         /\ Append(q, e)[Len(q) + 1] = e
OBVIOUS

-----------------------------------------------------------------------------
(* A buffer is empty exactly when its length is zero. *)
LEMMA BufferEmpty ==
  ASSUME TypeOK, NEW q \in Readers
  PROVE  /\ stores[q] \in Seq(Entries) /\ Len(stores[q]) \in Nat
         /\ stores[q] = << >> <=> Len(stores[q]) = 0
  BY DEF TypeOK

(* A sequence with one more element. *)
LEMMA Appending ==
  ASSUME NEW S, NEW s \in Seq(S), NEW e \in S
  PROVE  /\ Append(s, e) \in Seq(S) /\ Append(s, e) # << >>
         /\ Len(Append(s, e)) = Len(s) + 1
         /\ \A k \in 1 .. Len(s) : Append(s, e)[k] = s[k]
         /\ Append(s, e)[Len(s) + 1] = e
  OBVIOUS

(* What a store to the pointer of the reader's slot does to its buffer. *)
Stored(r, v) ==
  /\ Len(stores'[r]) = Len(stores[r]) + 1
  /\ \A k \in 1 .. Len(stores[r]) : stores'[r][k] = stores[r][k]
  /\ stores'[r][Len(stores[r]) + 1] = Entry(r, "pointer", v)
  /\ stores'[r] # << >>

(* Store has that effect on the reader's buffer and none on the others. *)
LEMMA StoreEffect ==
  ASSUME TypeOK, NEW r \in Readers, NEW v \in Versions \cup {NoVersion}, Store(r, v)
  PROVE  /\ stores' \in [Readers -> Seq(Entries)]
         /\ \A q \in Readers \ {r} : stores'[q] = stores[q]
         /\ IF slot[r] \in SlotIds THEN Stored(r, v) ELSE stores'[r] = stores[r]
<1>1. slot[r] \in 0 .. MaxSlots /\ stores[r] \in Seq(Entries)
  BY Zenon DEF TypeOK
<1>2. CASE slot[r] \in SlotIds
  <2> DEFINE t == Append(stores[r], Entry(r, "pointer", v))
  <2>1. PICK e \in Entries : e = Entry(r, "pointer", v)
    BY <1>2, Zenon DEF Entry, Entries
  <2>2. stores' = [stores EXCEPT ![r] = t]
    BY <1>2, SlotsAssumption DEF Store, SlotIds
  <2>3. /\ t \in Seq(Entries) /\ t # << >> /\ Len(t) = Len(stores[r]) + 1
        /\ \A k \in 1 .. Len(stores[r]) : t[k] = stores[r][k]
        /\ t[Len(stores[r]) + 1] = e
    <3>1. t = Append(stores[r], e)
      BY <2>1, Zenon
    <3> HIDE DEF t
    <3> QED BY <1>1, <3>1, Appending
  <2> HIDE DEF t
  <2>4. stores'[r] = t /\ stores' \in [Readers -> Seq(Entries)]
    BY <2>2, <2>3, Zenon DEF TypeOK
  <2> QED BY <1>2, <2>1, <2>2, <2>3, <2>4, Zenon DEF TypeOK, Stored
<1>3. CASE slot[r] \notin SlotIds
  BY <1>1, <1>3, SlotsAssumption DEF Store, SlotIds, TypeOK
<1> QED BY <1>2, <1>3, Zenon

(* A store by a reader that holds a slot leaves the buffers in shape and   *)
(* the slots with their owners.                                            *)
LEMMA StoreKeeps ==
  ASSUME HInv, NEW r \in Readers, NEW v \in Versions \cup {NoVersion}, Store(r, v),
         NEW p \in Holding, place[r] \in Holding, GoTo(r, p), UNCHANGED <<slot, active>>
  PROVE  Shape' /\ Exclusive'
<1>1. /\ \A q \in Readers \ {r} : stores'[q] = stores[q] /\ place'[q] = place[q]
      /\ IF slot[r] \in SlotIds THEN Stored(r, v) ELSE stores'[r] = stores[r]
      /\ place'[r] \in Holding /\ slot' = slot /\ active' = active
  BY StoreEffect, Zenon DEF HInv, GoTo, TypeOK
<1>2. Buffered(r) /\ Len(stores[r]) \in Nat /\ (stores[r] = << >> <=> Len(stores[r]) = 0)
  BY BufferEmpty, Zenon DEF HInv, Shape
<1>3. CASE slot[r] \in SlotIds
  <2>1. \A k \in 1 .. Len(stores[r]) + 1 :
          stores'[r][k].slot = slot[r] /\ stores'[r][k].field = "pointer"
    <3> SUFFICES ASSUME NEW k \in 1 .. Len(stores[r]) + 1
                 PROVE  stores'[r][k].slot = slot[r] /\ stores'[r][k].field = "pointer"
      BY Zenon
    <3>1. CASE k = Len(stores[r]) + 1
      BY <1>1, <1>3, <3>1 DEF Stored, Entry
    <3>2. CASE k \in 1 .. Len(stores[r])
      <4>1. stores'[r][k] = stores[r][k] /\ Len(stores[r]) # 0
        BY <1>1, <1>2, <1>3, <3>2 DEF Stored
      <4> QED BY <1>2, <3>2, <4>1, Zenon DEF Buffered
    <3> QED BY <1>2, <3>1, <3>2
  <2>2. Len(stores'[r]) = Len(stores[r]) + 1 /\ stores'[r] # << >>
    BY <1>1, <1>3, Zenon DEF Stored
  <2>3. Buffered(r)' /\ stores'[r][1].slot = slot[r]
    BY <1>1, <1>2, <1>3, <2>1, <2>2 DEF Buffered
  <2>4. \A q \in Readers \ {r} : Buffered(q)'
    BY <1>1 DEF HInv, Shape, Buffered
  <2>5. \A q \in Readers, i \in SlotIds : Owns(q, i)' => Owns(q, i)
    BY <1>1, <2>3, Zenon DEF Owns
  <2> QED BY <1>1, <2>3, <2>4, <2>5, Zenon DEF HInv, Shape, Exclusive
<1>4. CASE slot[r] \notin SlotIds
  <2>1. stores[r] = << >>
    BY <1>2, <1>4, Zenon DEF Buffered
  <2>2. \A q \in Readers : Buffered(q)'
    BY <1>1, <1>4, <2>1 DEF HInv, Shape, Buffered
  <2>3. \A q \in Readers, i \in SlotIds : Owns(q, i)' => Owns(q, i)
    BY <1>1, <1>4, <2>1, Zenon DEF Owns
  <2> QED BY <1>1, <2>2, <2>3, Zenon DEF HInv, Shape, Exclusive
<1> QED BY <1>3, <1>4, Zenon

-----------------------------------------------------------------------------
(* Beginning to look for a slot keeps the invariant. *)
LEMMA StartStep ==
  ASSUME HInv, NEW r \in Readers, Start(r)
  PROVE  HInv'
<1>1. TypeOK'
  BY SlotsAssumption DEF HInv, TypeOK, Start, GoTo,
     slotVars, readerVars, writerVars, Places
<1>2. Shape'
  <2>1. /\ stores' = stores /\ place[r] \notin Holding /\ place'[r] \notin Holding
        /\ \A q \in Readers \ {r} : place'[q] = place[q] /\ slot'[q] = slot[q]
    BY DEF HInv, TypeOK, Start, GoTo, Holding
  <2> QED BY <2>1, Zenon DEF HInv, Shape, Buffered
<1>3. Exclusive'
  BY SlotsAssumption DEF HInv, TypeOK, Exclusive, Owns, Start, GoTo,
     slotVars, readerVars, writerVars, SlotIds, Versions, NoVersion, Holding
<1>4. Announced'
  BY SlotsAssumption, Zenon DEF HInv, TypeOK, Announced, Pending, Start, GoTo,
     slotVars, readerVars, writerVars, SlotIds, Versions, NoVersion, Holding
<1>5. Replaced'
  BY SlotsAssumption, Zenon DEF HInv, TypeOK, Replaced, Start, GoTo,
     slotVars, readerVars, writerVars, SlotIds, Versions, NoVersion, Holding
<1>6. Safe'
  BY SlotsAssumption, Zenon DEF HInv, TypeOK, Safe, Shielded, Start, GoTo,
     slotVars, readerVars, writerVars, SlotIds, Versions, NoVersion, Holding
<1> QED BY <1>1, <1>2, <1>3, <1>4, <1>5, <1>6, Zenon DEF HInv

(* acquire_slot takes a slot nobody owns. *)
LEMMA AcquireStep ==
  ASSUME HInv, NEW r \in Readers, acquire_slot(r)
  PROVE  HInv'
<1>1. TypeOK'
  <2>1. slot[r] \in active => slot[r] + 1 \in 0 .. MaxSlots
    BY SlotsAssumption DEF HInv, TypeOK, SlotIds
  <2> QED BY <2>1, Zenon DEF HInv, TypeOK, acquire_slot, GoTo, slotVars, writerVars, Places
<1>2. Shape'
  BY SlotsAssumption, SMTT(30), Zenon DEF HInv, TypeOK, Shape, Buffered, acquire_slot, GoTo,
     slotVars, readerVars, writerVars, SlotIds, Versions, NoVersion, Holding
<1>3. Exclusive'
  BY SlotsAssumption, SMTT(90) DEF HInv, TypeOK, Exclusive, Owns, acquire_slot, GoTo,
     slotVars, readerVars, writerVars, SlotIds, Versions, NoVersion, Holding
<1>4. Announced'
  BY SlotsAssumption, Zenon DEF HInv, TypeOK, Announced, Pending, acquire_slot, GoTo,
     slotVars, readerVars, writerVars, SlotIds, Versions, NoVersion, Holding
<1>5. Replaced'
  BY SlotsAssumption, Zenon DEF HInv, TypeOK, Replaced, acquire_slot, GoTo,
     slotVars, readerVars, writerVars, SlotIds, Versions, NoVersion, Holding
<1>6. Safe'
  BY SlotsAssumption, ZenonT(30) DEF HInv, TypeOK, Safe, Shielded, acquire_slot, GoTo,
     slotVars, readerVars, writerVars, SlotIds, Versions, NoVersion, Holding
<1> QED BY <1>1, <1>2, <1>3, <1>4, <1>5, <1>6, Zenon DEF HInv

(* The first load changes nothing others see. *)
LEMMA LoadStep ==
  ASSUME HInv, NEW r \in Readers, Load(r)
  PROVE  HInv'
<1>1. TypeOK'
  BY SlotsAssumption, Zenon DEF HInv, TypeOK, Load, GoTo,
     slotVars, readerVars, writerVars, Places
<1>2. Shape'
  BY SlotsAssumption DEF HInv, TypeOK, Shape, Buffered, Load, GoTo,
     slotVars, readerVars, writerVars, SlotIds, Versions, NoVersion, Holding
<1>3. Exclusive'
  BY SlotsAssumption, SMTT(30) DEF HInv, TypeOK, Exclusive, Owns, Load, GoTo,
     slotVars, readerVars, writerVars, SlotIds, Versions, NoVersion, Holding
<1>4. Announced'
  BY SlotsAssumption, Zenon DEF HInv, TypeOK, Announced, Pending, Load, GoTo,
     slotVars, readerVars, writerVars, SlotIds, Versions, NoVersion, Holding
<1>5. Replaced'
  BY SlotsAssumption, Zenon DEF HInv, TypeOK, Replaced, Load, GoTo,
     slotVars, readerVars, writerVars, SlotIds, Versions, NoVersion, Holding
<1>6. Safe'
  BY SlotsAssumption, Zenon DEF HInv, TypeOK, Safe, Shielded, Load, GoTo,
     slotVars, readerVars, writerVars, SlotIds, Versions, NoVersion, Holding
<1> QED BY <1>1, <1>2, <1>3, <1>4, <1>5, <1>6, Zenon DEF HInv

(* protect appends a store to the slot of the reader. *)
LEMMA ProtectStep ==
  ASSUME HInv, NEW r \in Readers, protect(r)
  PROVE  HInv'
<1>0. /\ stores' \in [Readers -> Seq(Entries)]
      /\ \A q \in Readers \ {r} : stores'[q] = stores[q]
      /\ slot[r] \in SlotIds => Stored(r, held[r])
  BY StoreEffect, Zenon DEF HInv, TypeOK, protect
<1>1. TypeOK'
  BY <1>0, Zenon DEF HInv, TypeOK, protect, GoTo, slotVars, writerVars, Places
<1>2. Shape' /\ Exclusive'
  BY StoreKeeps, Zenon DEF HInv, TypeOK, protect, slotVars, Holding
<1>4. Announced'
  BY <1>0, SlotsAssumption DEF HInv, TypeOK, Announced, Pending, protect, Stored, Entry, GoTo,
     slotVars, writerVars
<1>5. Replaced'
  BY Zenon DEF HInv, Replaced, protect, writerVars
<1>6. Safe'
  BY <1>0, SlotsAssumption, Zenon DEF HInv, TypeOK, Safe, Shielded, protect, GoTo, slotVars, writerVars
<1> QED BY <1>1, <1>2, <1>4, <1>5, <1>6, Zenon DEF HInv

(* A sound validation finds the version current and its protection visible. *)
LEMMA ValidateStep ==
  ASSUME HInv, NEW r \in Readers, Validate(r)
  PROVE  HInv'
<1>1. TypeOK'
  BY SlotsAssumption, Zenon DEF HInv, TypeOK, Validate, GoTo,
     slotVars, readerVars, writerVars, Places
<1>2. Shape'
  BY SlotsAssumption, SMTT(30), Zenon DEF HInv, TypeOK, Shape, Buffered, Validate, GoTo,
     slotVars, readerVars, writerVars, SlotIds, Versions, NoVersion, Holding
<1>3. Exclusive'
  BY SlotsAssumption, SMTT(30), Zenon DEF HInv, TypeOK, Exclusive, Owns, Validate, GoTo,
     slotVars, readerVars, writerVars, SlotIds, Versions, NoVersion, Holding
<1>4. Announced'
  BY SlotsAssumption, Zenon DEF HInv, TypeOK, Announced, Pending, Validate, GoTo,
     slotVars, readerVars, writerVars, SlotIds, Versions, NoVersion, Holding
<1>5. Replaced'
  BY SlotsAssumption, Zenon DEF HInv, TypeOK, Replaced, Validate, GoTo,
     slotVars, readerVars, writerVars, SlotIds, Versions, NoVersion, Holding
<1>6. Safe'
  BY SlotsAssumption DEF HInv, TypeOK, Safe, Shielded, Validate, GoTo,
     slotVars, readerVars, writerVars, SlotIds, Versions, NoVersion, Holding, Replaced, Announced, Pending
<1> QED BY <1>1, <1>2, <1>3, <1>4, <1>5, <1>6, Zenon DEF HInv

(* clear appends a store of nullptr. *)
LEMMA ClearStep ==
  ASSUME HInv, NEW r \in Readers, clear(r)
  PROVE  HInv'
<1>0. /\ stores' \in [Readers -> Seq(Entries)]
      /\ \A q \in Readers \ {r} : stores'[q] = stores[q]
      /\ slot[r] \in SlotIds => Stored(r, NoVersion)
  BY StoreEffect, Zenon DEF HInv, TypeOK, clear
<1>1. TypeOK'
  BY <1>0, Zenon DEF HInv, TypeOK, clear, GoTo, slotVars, writerVars, Places
<1>2. Shape' /\ Exclusive'
  BY StoreKeeps, Zenon DEF HInv, TypeOK, clear, slotVars, Holding
<1>4. Announced'
  BY <1>0, SlotsAssumption, Zenon DEF HInv, TypeOK, Announced, Pending, clear, Stored, Entry, GoTo,
     slotVars, writerVars
<1>5. Replaced'
  BY Zenon DEF HInv, Replaced, clear, writerVars
<1>6. Safe'
  BY <1>0, SlotsAssumption, Zenon DEF HInv, TypeOK, Safe, Shielded, clear, GoTo, slotVars, writerVars
<1> QED BY <1>1, <1>2, <1>4, <1>5, <1>6, Zenon DEF HInv

(* release_slot appends two stores, active last. *)
LEMMA ReleaseStep ==
  ASSUME HInv, NEW r \in Readers, release_slot(r)
  PROVE  HInv'
<1> DEFINE n == Len(stores[r])
           Kept == /\ Shape' /\ Exclusive'
                   /\ stores' \in [Readers -> Seq(Entries)]
                   /\ \A q \in Readers \ {r} : stores'[q] = stores[q]
<1>1. /\ place[r] = "ready" /\ slot[r] \in 0 .. MaxSlots
      /\ slot' = slot /\ active' = active /\ pointer' = pointer
      /\ place' = [place EXCEPT ![r] = "away"]
      /\ Buffered(r) /\ n \in Nat /\ (stores[r] = << >> <=> n = 0)
  BY BufferEmpty, Zenon DEF HInv, TypeOK, Shape, release_slot, GoTo, slotVars
<1>2. ASSUME slot[r] \in SlotIds PROVE Kept
  <2> DEFINE e1 == Entry(r, "pointer", NoVersion)
             e2 == Entry(r, "active", 0)
             s1 == Append(stores[r], e1)
             s2 == Append(s1, e2)
  <2>1. /\ e1 \in Entries /\ e1.slot = slot[r] /\ e1.field = "pointer"
        /\ e2 \in Entries /\ e2.slot = slot[r] /\ e2.field = "active"
    BY <1>2, Zenon DEF Entry, Entries, NoVersion
  <2>2. stores' = [stores EXCEPT ![r] = s2]
    BY <1>2, SlotsAssumption, SMTT(30), Zenon DEF release_slot, SlotIds
  <2> HIDE DEF e1, e2
  <2>3. /\ s1 \in Seq(Entries) /\ Len(s1) = n + 1
        /\ \A k \in 1 .. n : s1[k] = stores[r][k]
        /\ s1[n + 1] = e1
    BY <2>1 DEF HInv, TypeOK
  <2> HIDE DEF s1
  <2>4. /\ s2 \in Seq(Entries) /\ s2 # << >> /\ Len(s2) = Len(s1) + 1
        /\ \A k \in 1 .. Len(s1) : s2[k] = s1[k]
        /\ s2[Len(s1) + 1] = e2
    BY <2>1, <2>3, SMTT(30)
  <2> HIDE DEF s2
  <2>5. /\ stores'[r] = s2 /\ stores' \in [Readers -> Seq(Entries)]
        /\ \A q \in Readers \ {r} : stores'[q] = stores[q] /\ place'[q] = place[q]
        /\ place'[r] \notin Holding
    BY <1>1, <2>2, <2>4, Zenon DEF HInv, TypeOK, Holding
  <2>6. \A k \in 1 .. n + 2 :
          s2[k].slot = slot[r] /\ s2[k].field = (IF k = n + 2 THEN "active" ELSE "pointer")
    <3> SUFFICES ASSUME NEW k \in 1 .. n + 2
                 PROVE  /\ s2[k].slot = slot[r]
                        /\ s2[k].field = (IF k = n + 2 THEN "active" ELSE "pointer")
      BY Zenon
    <3>1. CASE k = n + 2
      BY <1>1, <2>1, <2>3, <2>4, <3>1
    <3>2. CASE k = n + 1
      BY <1>1, <2>1, <2>3, <2>4, <3>2, SMTT(90)
    <3>3. CASE k \in 1 .. n
      <4>1. s2[k] = stores[r][k] /\ n # 0 /\ k # n + 2
        BY <1>1, <2>3, <2>4, <3>3
      <4> QED BY <1>1, <3>3, <4>1, Zenon DEF Buffered, Holding
    <3> QED BY <1>1, <3>1, <3>2, <3>3
  <2>7. Len(s2) = n + 2 /\ s2[1].slot = slot[r]
    BY <1>1, <2>3, <2>4, <2>6
  <2>8. Buffered(r)'
    BY <1>1, <2>5, <2>6, <2>7, ZenonT(30), SMT DEF Buffered
  <2>9. \A q \in Readers, i \in SlotIds : Owns(q, i)' => Owns(q, i)
    BY <1>1, <2>5, <2>7, Zenon DEF Owns, Holding
  <2>10. Shape'
    <3>1. ASSUME NEW q \in Readers \ {r} PROVE Buffered(q)'
      <4>1. Buffered(q) /\ stores'[q] = stores[q] /\ place'[q] = place[q] /\ slot'[q] = slot[q]
        BY <1>1, <2>5, <3>1, Zenon DEF HInv, Shape
      <4> QED BY <4>1, Zenon DEF Buffered
    <3> QED BY <2>8, <3>1, Zenon DEF Shape
  <2>11. Exclusive'
    BY <1>1, <2>9, Zenon DEF HInv, Exclusive
  <2> QED BY <2>5, <2>10, <2>11, Zenon
<1>3. ASSUME slot[r] \notin SlotIds PROVE Kept
  <2>1. stores' = stores /\ stores[r] = << >>
    BY <1>1, <1>3, SlotsAssumption DEF release_slot, SlotIds, Buffered, Holding
  <2>2. \A q \in Readers : q # r => place'[q] = place[q]
    BY <1>1, Zenon DEF HInv, TypeOK
  <2>3. Shape'
    BY <1>1, <2>1, <2>2 DEF HInv, Shape, Buffered
  <2>4. \A q \in Readers, i \in SlotIds : Owns(q, i)' => Owns(q, i)
    BY <1>1, <1>3, <2>1, <2>2, Zenon DEF Owns
  <2>5. Exclusive'
    BY <1>1, <2>4, Zenon DEF HInv, Exclusive
  <2> QED BY <2>1, <2>3, <2>5, Zenon DEF HInv, TypeOK
<1>4. Kept
  BY <1>2, <1>3, Zenon
<1>5. TypeOK'
  BY <1>1, <1>4, Zenon DEF HInv, TypeOK, release_slot, slotVars, writerVars, Places
<1>6. Announced' /\ Safe'
  BY <1>1, <1>4, ZenonT(30), SMT DEF HInv, TypeOK, Announced, Pending, Safe, Shielded, release_slot, writerVars
<1>7. Replaced'
  BY Zenon DEF HInv, Replaced, release_slot, writerVars
<1> QED BY <1>4, <1>5, <1>6, <1>7, Zenon DEF HInv

(* A store that becomes visible concerns the slot of its reader only. *)
LEMMA DrainStep ==
  ASSUME HInv, NEW r \in Readers, Drain(r)
  PROVE  HInv'
<1> DEFINE b == stores[r]
           s == b[1]
           t == Tail(b)
<1>1. /\ b \in Seq(Entries) /\ b # << >> /\ Len(b) \in Nat \ {0}
      /\ Buffered(r)
  BY BufferEmpty, Zenon DEF HInv, Shape, Drain
<1>2. /\ t \in Seq(Entries) /\ Len(t) = Len(b) - 1
      /\ \A k \in 1 .. Len(t) : t[k] = b[k + 1]
      /\ t = << >> <=> Len(t) = 0
      /\ s \in Entries /\ Head(b) = s
  <2>1. t \in Seq(Entries) /\ Len(t) = Len(b) - 1 /\ \A k \in 1 .. Len(t) : t[k] = b[k + 1]
    BY <1>1
  <2>2. t = << >> <=> Len(t) = 0
    BY <2>1, NoneIsEmpty, Zenon
  <2>3. s \in Entries
    BY <1>1
  <2>4. Head(b) = s
    BY <1>1
  <2> QED BY <2>1, <2>2, <2>3, <2>4, Zenon
<1>3. /\ stores' = [stores EXCEPT ![r] = t]
      /\ IF s.field = "pointer"
         THEN pointer' = [pointer EXCEPT ![s.slot] = s.value] /\ active' = active
         ELSE active' = active \ {s.slot} /\ pointer' = pointer
      /\ UNCHANGED <<place, slot, held, sound, current, retired, scan, index, protected_ptrs, freed>>
  BY <1>2, Zenon DEF Drain, readerVars, writerVars
<1>4. s.slot \in SlotIds /\ s.value \in Versions \cup {NoVersion}
  BY <1>2, Zenon DEF Entries
<1>5. /\ stores'[r] = t /\ stores' \in [Readers -> Seq(Entries)]
      /\ \A q \in Readers \ {r} : stores'[q] = stores[q]
  BY <1>2, <1>3, Zenon DEF HInv, TypeOK
<1> HIDE DEF t
<1>6. \A q \in Readers : Owns(q, s.slot) => q = r
  <2>1. Owns(r, s.slot)
    BY <1>1, Zenon DEF Owns
  <2> QED BY <1>4, <2>1, Zenon DEF HInv, Exclusive
<1>8. TypeOK'
  <2>1. pointer' \in [SlotIds -> Versions \cup {NoVersion}] /\ active' \in SUBSET SlotIds
    BY <1>3, <1>4, Zenon DEF HInv, TypeOK
  <2> QED BY <1>3, <1>5, <2>1, Zenon DEF HInv, TypeOK
<1>9. t # << >> => t[1].slot = s.slot /\ Len(b) >= 2
  <2> SUFFICES ASSUME t # << >> PROVE t[1].slot = s.slot /\ Len(b) >= 2
    BY Zenon
  <2>1. Len(b) >= 2 /\ t[1] = b[2]
    BY <1>1, <1>2
  <2> QED BY <1>1, <2>1 DEF Buffered
<1>10. Buffered(r)'
  <2>1. CASE t = << >>
    BY <1>5, <2>1, Zenon DEF Buffered
  <2>2. CASE t # << >>
    <3>1. \A k \in 1 .. Len(t) : k + 1 \in 1 .. Len(b) /\ (k = Len(t) <=> k + 1 = Len(b))
      BY <1>1, <1>2
    <3>2. CASE place[r] \in Holding
      <4>1. \A k \in 1 .. Len(t) : t[k].slot = slot[r] /\ t[k].field = "pointer"
        BY <1>1, <1>2, <3>1, <3>2, Zenon, SMT DEF Buffered
      <4>2. slot[r] \in SlotIds
        BY <1>1, <3>2, Zenon DEF Buffered
      <4> QED BY <1>3, <1>5, <3>2, <4>1, <4>2, Zenon DEF Buffered
    <3>3. CASE place[r] \notin Holding
      <4>1. \A k \in 1 .. Len(t) :
              /\ t[k].slot = s.slot
              /\ t[k].field = (IF k = Len(t) THEN "active" ELSE "pointer")
        BY <1>1, <1>2, <3>1, <3>3 DEF Buffered
      <4> QED BY <1>3, <1>5, <1>9, <2>2, <3>3, <4>1, Zenon DEF Buffered
    <3> QED BY <3>2, <3>3, Zenon
  <2> QED BY <2>1, <2>2, Zenon
<1>11. Shape'
  BY <1>3, <1>5, <1>10 DEF HInv, Shape, Buffered
<1>12. \A q \in Readers, i \in SlotIds : Owns(q, i)' => Owns(q, i)
  BY <1>1, <1>3, <1>5, <1>9, Zenon DEF Owns
<1>13. ASSUME s.field # "pointer" PROVE place[r] \notin Holding /\ t = << >>
  <2>1. 1 \in 1 .. Len(b)
    BY <1>1
  <2>2. place[r] \notin Holding
    BY <1>1, <1>13, <2>1, Zenon DEF Buffered
  <2>3. s.field = (IF 1 = Len(b) THEN "active" ELSE "pointer")
    BY <1>1, <2>1, <2>2, Zenon DEF Buffered
  <2>4. Len(b) = 1
    BY <1>13, <2>3, Zenon
  <2> QED BY <1>2, <2>2, <2>4
<1>14. Exclusive'
  <2> SUFFICES ASSUME NEW q \in Readers, NEW i \in SlotIds, Owns(q, i)'
               PROVE  i \in active'
    BY <1>12, Zenon DEF HInv, Exclusive
  <2>1. Owns(q, i) /\ i \in active
    BY <1>12, Zenon DEF HInv, Exclusive
  <2>2. CASE s.field = "pointer"
    BY <1>3, <2>1, <2>2, Zenon
  <2>3. CASE s.field # "pointer"
    <3>1. q # r
      BY <1>3, <1>5, <1>13, <2>3, Zenon DEF Owns
    <3>2. i # s.slot
      BY <1>6, <2>1, <3>1, Zenon
    <3> QED BY <1>3, <2>1, <2>3, <3>2, Zenon
  <2> QED BY <2>2, <2>3, Zenon
<1>15. \A q \in Readers \ {r} :
         (place[q] \in Holding /\ slot[q] \in SlotIds) => pointer'[slot[q]] = pointer[slot[q]]
  <2> SUFFICES ASSUME NEW q \in Readers \ {r}, place[q] \in Holding, slot[q] \in SlotIds
               PROVE  pointer'[slot[q]] = pointer[slot[q]]
    BY Zenon
  <2>1. slot[q] # s.slot
    BY <1>6, Zenon DEF Owns
  <2> QED BY <1>3, <2>1, Zenon DEF HInv, TypeOK
<1>16. Announced'
  <2> SUFFICES ASSUME NEW q \in Readers, place[q] = "protected", slot[q] \in SlotIds
               PROVE  IF stores'[q] = << >> THEN pointer'[slot[q]] = held[q]
                      ELSE stores'[q][Len(stores'[q])].value = held[q]
    BY <1>3, Zenon DEF Announced, Pending
  <2>1. CASE q # r
    BY <1>5, <1>15, <2>1, Zenon DEF HInv, Announced, Pending, Holding
  <2>2. CASE q = r
    <3>1. s.field = "pointer" /\ s.slot = slot[r] /\ b[Len(b)].value = held[r]
      <4>1. place[r] \in Holding /\ Pending(r) /\ 1 \in 1 .. Len(b)
        BY <1>1, <2>2 DEF HInv, Announced, Holding
      <4>2. s.field = "pointer" /\ s.slot = slot[r]
        BY <1>1, <4>1, Zenon DEF Buffered
      <4>3. b[Len(b)].value = held[r]
        BY <1>1, <2>2, <4>1, Zenon DEF Pending
      <4> QED BY <4>2, <4>3, Zenon
    <3>2. CASE t = << >>
      <4>1. Len(b) = 1
        BY <1>1, <1>2, <3>2
      <4>2. s.value = held[r]
        BY <3>1, <4>1, Zenon
      <4>3. pointer'[slot[r]] = s.value
        BY <1>3, <1>4, <3>1, Zenon DEF HInv, TypeOK
      <4> QED BY <1>5, <2>2, <3>2, <4>2, <4>3, Zenon
    <3>3. CASE t # << >>
      BY <1>1, <1>2, <1>5, <2>2, <3>1, <3>3, SMTT(30)
    <3> QED BY <3>2, <3>3, Zenon
  <2> QED BY <2>1, <2>2, Zenon
<1>17. Replaced'
  BY <1>3, Zenon DEF HInv, Replaced
<1>18. Safe'
  BY <1>1, <1>3, <1>5, <1>15, ZenonT(30), SMT DEF HInv, Safe, Shielded, Holding
<1> QED BY <1>8, <1>11, <1>14, <1>16, <1>17, <1>18, Zenon DEF HInv

(* retire puts the version that was current on the list. *)
LEMMA RetireStep ==
  ASSUME HInv, retire
  PROVE  HInv'
<1>1. TypeOK'
  BY SlotsAssumption, SMTT(30) DEF HInv, TypeOK, retire, BeginScan,
     slotVars, readerVars, writerVars, Places, Versions
<1>2. Shape'
  BY SlotsAssumption, ZenonT(30) DEF HInv, TypeOK, Shape, Buffered, retire, BeginScan,
     slotVars, readerVars, writerVars, SlotIds, Versions, NoVersion, Holding
<1>3. Exclusive'
  BY SlotsAssumption, Zenon DEF HInv, TypeOK, Exclusive, Owns, retire, BeginScan,
     slotVars, readerVars, writerVars, SlotIds, Versions, NoVersion, Holding
<1>4. Announced'
  BY SlotsAssumption, Zenon DEF HInv, TypeOK, Announced, Pending, retire, BeginScan,
     slotVars, readerVars, writerVars, SlotIds, Versions, NoVersion, Holding
<1>5. Replaced'
  BY SlotsAssumption DEF HInv, TypeOK, Replaced, retire, BeginScan,
     slotVars, readerVars, writerVars, SlotIds, Versions, NoVersion, Holding
<1>6. Safe'
  BY SlotsAssumption DEF HInv, TypeOK, Safe, Shielded, retire, BeginScan,
     slotVars, readerVars, writerVars, SlotIds, Versions, NoVersion, Holding
<1> QED BY <1>1, <1>2, <1>3, <1>4, <1>5, <1>6, Zenon DEF HInv

(* reclaim begins at the first slot. *)
LEMMA ReclaimStep ==
  ASSUME HInv, reclaim
  PROVE  HInv'
<1>1. TypeOK'
  BY SlotsAssumption DEF HInv, TypeOK, reclaim, BeginScan,
     slotVars, readerVars, writerVars, Places
<1>2. Shape'
  BY SlotsAssumption DEF HInv, TypeOK, Shape, Buffered, reclaim, BeginScan,
     slotVars, readerVars, writerVars, SlotIds, Versions, NoVersion, Holding
<1>3. Exclusive'
  BY SlotsAssumption, Zenon DEF HInv, TypeOK, Exclusive, Owns, reclaim, BeginScan,
     slotVars, readerVars, writerVars, SlotIds, Versions, NoVersion, Holding
<1>4. Announced'
  BY SlotsAssumption, Zenon DEF HInv, TypeOK, Announced, Pending, reclaim, BeginScan,
     slotVars, readerVars, writerVars, SlotIds, Versions, NoVersion, Holding
<1>5. Replaced'
  BY SlotsAssumption, Zenon DEF HInv, TypeOK, Replaced, reclaim, BeginScan,
     slotVars, readerVars, writerVars, SlotIds, Versions, NoVersion, Holding
<1>6. Safe'
  BY SlotsAssumption DEF HInv, TypeOK, Safe, Shielded, reclaim, BeginScan,
     slotVars, readerVars, writerVars, SlotIds, Versions, NoVersion, Holding
<1> QED BY <1>1, <1>2, <1>3, <1>4, <1>5, <1>6, Zenon DEF HInv

(* A scan finds every protection in the slots it passes. *)
LEMMA ScanStep ==
  ASSUME HInv, ScanSlot
  PROVE  HInv'
<1>1. TypeOK'
  BY SlotsAssumption, SMTT(30) DEF HInv, TypeOK, ScanSlot,
     slotVars, readerVars, writerVars, Places, SlotIds
<1>2. Shape'
  BY SlotsAssumption DEF HInv, TypeOK, Shape, Buffered, ScanSlot,
     slotVars, readerVars, writerVars, SlotIds, Versions, NoVersion, Holding
<1>3. Exclusive'
  BY SlotsAssumption, ZenonT(30) DEF HInv, TypeOK, Exclusive, Owns, ScanSlot,
     slotVars, readerVars, writerVars, SlotIds, Versions, NoVersion, Holding
<1>4. Announced'
  BY SlotsAssumption, Zenon DEF HInv, TypeOK, Announced, Pending, ScanSlot,
     slotVars, readerVars, writerVars, SlotIds, Versions, NoVersion, Holding
<1>5. Replaced'
  BY SlotsAssumption, Zenon DEF HInv, TypeOK, Replaced, ScanSlot,
     slotVars, readerVars, writerVars, SlotIds, Versions, NoVersion, Holding
<1>6. Safe'
  BY SlotsAssumption DEF HInv, TypeOK, Safe, Shielded, ScanSlot,
     slotVars, readerVars, writerVars, SlotIds, Versions, NoVersion, Holding, Exclusive, Owns
<1> QED BY <1>1, <1>2, <1>3, <1>4, <1>5, <1>6, Zenon DEF HInv

(* What is deleted no reader has soundly validated. *)
LEMMA DeleteStep ==
  ASSUME HInv, DeleteUnprotected
  PROVE  HInv'
<1>1. TypeOK'
  BY SlotsAssumption, SMTT(30) DEF HInv, TypeOK, DeleteUnprotected,
     slotVars, readerVars, writerVars, Places
<1>2. Shape'
  BY SlotsAssumption, SMTT(30) DEF HInv, TypeOK, Shape, Buffered, DeleteUnprotected,
     slotVars, readerVars, writerVars, SlotIds, Versions, NoVersion, Holding
<1>3. Exclusive'
  BY SlotsAssumption, Zenon DEF HInv, TypeOK, Exclusive, Owns, DeleteUnprotected,
     slotVars, readerVars, writerVars, SlotIds, Versions, NoVersion, Holding
<1>4. Announced'
  BY SlotsAssumption, Zenon DEF HInv, TypeOK, Announced, Pending, DeleteUnprotected,
     slotVars, readerVars, writerVars, SlotIds, Versions, NoVersion, Holding
<1>5. Replaced'
  BY SlotsAssumption, Zenon DEF HInv, TypeOK, Replaced, DeleteUnprotected,
     slotVars, readerVars, writerVars, SlotIds, Versions, NoVersion, Holding
<1>6. Safe'
  BY SlotsAssumption DEF HInv, TypeOK, Safe, Shielded, DeleteUnprotected,
     slotVars, readerVars, writerVars, SlotIds, Versions, NoVersion, Holding
<1> QED BY <1>1, <1>2, <1>3, <1>4, <1>5, <1>6, Zenon DEF HInv

(* reclaim_all runs when no reader uses a version. *)
LEMMA ReclaimAllStep ==
  ASSUME HInv, reclaim_all
  PROVE  HInv'
<1>1. TypeOK'
  BY SlotsAssumption, Zenon DEF HInv, TypeOK, reclaim_all,
     slotVars, readerVars, writerVars, Places
<1>2. Shape'
  BY SlotsAssumption, SMTT(30) DEF HInv, TypeOK, Shape, Buffered, reclaim_all,
     slotVars, readerVars, writerVars, SlotIds, Versions, NoVersion, Holding
<1>3. Exclusive'
  BY SlotsAssumption, Zenon DEF HInv, TypeOK, Exclusive, Owns, reclaim_all,
     slotVars, readerVars, writerVars, SlotIds, Versions, NoVersion, Holding
<1>4. Announced'
  BY SlotsAssumption, Zenon DEF HInv, TypeOK, Announced, Pending, reclaim_all,
     slotVars, readerVars, writerVars, SlotIds, Versions, NoVersion, Holding
<1>5. Replaced'
  BY SlotsAssumption, Zenon DEF HInv, TypeOK, Replaced, reclaim_all,
     slotVars, readerVars, writerVars, SlotIds, Versions, NoVersion, Holding
<1>6. Safe'
  BY SlotsAssumption, Zenon DEF HInv, TypeOK, Safe, Shielded, reclaim_all,
     slotVars, readerVars, writerVars, SlotIds, Versions, NoVersion, Holding
<1> QED BY <1>1, <1>2, <1>3, <1>4, <1>5, <1>6, Zenon DEF HInv

-----------------------------------------------------------------------------
(* HInv is inductive: every step of a reader, of a store buffer and of the *)
(* writer keeps it.                                                        *)
LEMMA NextKeeps == HInv /\ [Next]_vars => HInv'
<1> SUFFICES ASSUME HInv, [Next]_vars PROVE HInv'
  BY Zenon
<1>1. ASSUME NEW r \in Readers, Start(r) \/ ReaderStep(r) \/ Drain(r) PROVE HInv'
  BY <1>1, StartStep, AcquireStep, LoadStep, ProtectStep, ValidateStep, ClearStep, ReleaseStep,
     DrainStep, Zenon DEF ReaderStep
<1>2. ASSUME retire \/ WriterStep \/ reclaim_all PROVE HInv'
  BY <1>2, RetireStep, ReclaimStep, ScanStep, DeleteStep, ReclaimAllStep, Zenon DEF WriterStep
<1>3. CASE UNCHANGED vars
  <2> USE <1>3 DEF HInv, vars, slotVars, readerVars, writerVars
  <2>1. TypeOK'
    BY Zenon DEF TypeOK
  <2>2. Shape'
    BY Zenon DEF Shape, Buffered
  <2>3. Exclusive'
    BY Zenon DEF Exclusive, Owns
  <2>4. Announced' /\ Replaced'
    BY Zenon DEF Announced, Pending, Replaced
  <2>5. Safe'
    BY Zenon DEF Safe, Shielded
  <2> QED BY <2>1, <2>2, <2>3, <2>4, <2>5, Zenon
<1> QED BY <1>1, <1>2, <1>3, Zenon DEF Next

(* The shape of the store buffers, the owners of the slots and the         *)
(* protections hold whatever the interleaving of readers, drains and       *)
(* reclaim, for any number of readers, slots and versions.                 *)
THEOREM HazardInvariance == Spec => []HInv
  BY InitHolds, NextKeeps, PTL DEF Spec

(* acquire_slot never hands a slot to two readers, nor one whose release   *)
(* is still on its way.                                                    *)
THEOREM OneOwnerPerSlot == Spec => []SlotsExclusive
<1>1. HInv => SlotsExclusive
  <2> SUFFICES ASSUME HInv PROVE SlotsExclusive
    BY Zenon
  <2>1. ASSUME NEW r \in Readers, NEW i \in SlotIds, Occupies(r, i) PROVE Owns(r, i)
    <3>1. /\ Buffered(r) /\ Len(stores[r]) \in Nat /\ DOMAIN stores[r] = 1 .. Len(stores[r])
          /\ stores[r] = << >> <=> Len(stores[r]) = 0
      BY BufferEmpty DEF HInv, Shape
    <3>2. CASE slot[r] = i /\ place[r] \in Holding
      BY <3>2, Zenon DEF Owns
    <3>3. CASE \E k \in DOMAIN stores[r] : stores[r][k].slot = i
      <4>1. PICK k \in 1 .. Len(stores[r]) : stores[r][k].slot = i
        BY <3>1, <3>3, Zenon
      <4>2. stores[r] # << >> /\ 1 \in 1 .. Len(stores[r])
        BY <3>1, <4>1
      <4> QED BY <3>1, <4>1, <4>2, Zenon DEF Owns, Buffered
    <3> QED BY <2>1, <3>2, <3>3, Zenon DEF Occupies, Holding
  <2> QED BY <2>1, Zenon DEF HInv, Exclusive, SlotsExclusive
<1> QED BY <1>1, HazardInvariance, PTL

(* reclaim deletes no version that a reader has protected and validated.   *)
THEOREM ProtectedNotFreed == Spec => []NoUseAfterFree
<1>1. HInv => NoUseAfterFree
  BY Zenon DEF HInv, TypeOK, Safe, Shielded, NoUseAfterFree
<1> QED BY <1>1, HazardInvariance, PTL

-----------------------------------------------------------------------------
(* SpscQueue *)

(* Multiples of C that differ are at least C apart. *)
LEMMA MultiplesApart ==
  ASSUME NEW C \in Nat, NEW a \in Int, NEW b \in Int, a < b
  PROVE  C * a + C <= C * b
  <1>1. b - a - 1 >= 0
    OBVIOUS
  <1>2. C * (b - a - 1) >= 0
    BY <1>1
  <1>3. C * (b - a - 1) = C * b - C * a - C
    OBVIOUS
  <1> QED
    BY <1>2, <1>3

(* Quotient and remainder of a natural number. *)
LEMMA Division ==
  ASSUME NEW C \in Nat \ {0}, NEW n \in Nat
  PROVE  /\ n \div C \in Nat
         /\ n % C \in 0 .. C - 1
         /\ n = C * (n \div C) + (n % C)
  OBVIOUS

(* Counters less than a lap apart are on different cells. *)
LEMMA CellsDifferWithinLap ==
  ASSUME NEW C \in Nat \ {0}, NEW m \in Nat, NEW n \in Nat, m < n, n < m + C
  PROVE  m % C # n % C
  <1> SUFFICES ASSUME m % C = n % C PROVE FALSE
    BY Zenon
  <1>1. m = C * (m \div C) + (m % C) /\ m \div C \in Nat
    BY Division, Zenon
  <1>2. n = C * (n \div C) + (n % C) /\ n \div C \in Nat
    BY Division, Zenon
  <1>3. C * (m \div C) < C * (n \div C)
    BY <1>1, <1>2
  <1>4. CASE m \div C < n \div C
    <2>1. C * (m \div C) + C <= C * (n \div C)
      BY <1>1, <1>2, <1>4, MultiplesApart
    <2> QED
      BY <1>1, <1>2, <2>1
  <1>5. CASE n \div C <= m \div C
    <2>1. C * (n \div C) <= C * (m \div C)
      BY <1>1, <1>2, <1>5, MultiplesApart
    <2> QED
      BY <1>3, <2>1
  <1> QED
    BY <1>1, <1>2, <1>4, <1>5

(* A position falls on a cell of the ring. *)
LEMMA SpscSlotType == \A n \in Nat : Slot(n) \in Slots
  BY CapacityPositive, Division, Zenon DEF Slot, Slots

(* Positions less than a lap apart fall on different cells. *)
LEMMA SpscSlotInjective ==
  \A m, n \in Nat : m < n /\ n < m + Capacity => Slot(m) # Slot(n)
  BY CapacityPositive, CellsDifferWithinLap, Zenon DEF Slot

(* The constructor establishes the invariant. *)
LEMMA SpscInitInv == SpscInit => IInv
  <1> SUFFICES ASSUME SpscInit PROVE IInv
    BY Zenon
  <1> USE CapacityPositive, MaxCallsNat DEF SpscInit
  <1>1. SpscTypeOK
    BY DEF SpscTypeOK, Items, NoItem
  <1>2. IndexInv /\ CellInv /\ DeliveredPrefix /\ ObserverInv
    BY DEF IndexInv, CellInv, DeliveredPrefix, ObserverInv
  <1> QED
    BY <1>1, <1>2, Zenon DEF IInv

(* Deciding on room, or answering "full", changes the producer only. *)
LEMMA PushCallInv ==
  ASSUME IInv, PushRoom \/ PushFull \/ PushReload
  PROVE  IInv'
  <1> USE CapacityPositive, MaxCallsNat DEF IInv
  <1>1. /\ ppc \in {"idle", "full"} /\ ppc' \in {"full", "write"}
        /\ calls < MaxCalls /\ calls' = calls + 1
        /\ cached_tail' \in {cached_tail, tail}
        /\ ppc' = "write" => head - cached_tail' < Capacity
        /\ UNCHANGED <<ring, consumer, observer, accepted, delivered>>
    BY Zenon DEF PushRoom, PushFull, PushReload
  <1>2. SpscTypeOK'
    BY <1>1 DEF SpscTypeOK, ring, consumer
  <1>3. IndexInv'
    <2>1. /\ cached_tail \in Nat /\ tail \in Nat /\ head \in Nat
          /\ calls \in Nat /\ cached_tail <= tail
          /\ head - cached_tail <= Capacity
      BY DEF SpscTypeOK, IndexInv
    <2>2. /\ cached_tail' <= tail /\ head - cached_tail' <= Capacity
          /\ calls' > 0
      <3>1. calls' = calls + 1 /\ cached_tail' \in {cached_tail, tail}
        BY <1>1, Zenon
      <3>2. CASE cached_tail' = cached_tail
        BY <2>1, <3>1, <3>2
      <3>3. CASE cached_tail' = tail
        BY <2>1, <3>1, <3>3
      <3> QED
        BY <3>1, <3>2, <3>3, Zenon
    <2> QED
      BY <1>1, <2>2, Zenon DEF IndexInv, ring, consumer
  <1>4. CellInv' /\ DeliveredPrefix' /\ ObserverInv'
    BY <1>1, Zenon DEF CellInv, DeliveredPrefix, ObserverInv,
       ring, consumer
  <1> QED
    BY <1>2, <1>3, <1>4, Zenon

(* The cell written is none of those that hold an element. *)
LEMMA PushWriteInv ==
  ASSUME IInv, PushWrite
  PROVE  IInv'
  <1> USE CapacityPositive, MaxCallsNat DEF IInv
  <1>1. /\ ppc = "write" /\ ppc' = "publish"
        /\ buffer' = [buffer EXCEPT ![Slot(head)] = calls]
        /\ UNCHANGED <<head, tail, cached_tail, calls, consumer, observer,
                       accepted, delivered>>
    BY Zenon DEF PushWrite
  <1>2. calls \in Items
    BY <1>1 DEF SpscTypeOK, IndexInv, Items
  <1>3. Slot(head) \in Slots
    BY SpscSlotType, Zenon DEF SpscTypeOK
  <1>4. SpscTypeOK' /\ IndexInv'
    BY <1>1, <1>2, <1>3, Zenon DEF SpscTypeOK, IndexInv, consumer
  <1>5. CellInv'
    <2>1. buffer'[Slot(head)] = calls
      BY <1>1, <1>3, Zenon DEF SpscTypeOK
    <2>2. ASSUME NEW n \in Len(delivered) .. head - 1
          PROVE  buffer'[Slot(n)] = accepted[n + 1]
      <3>1. /\ head \in Nat /\ n \in Nat
            /\ n < head /\ head < n + Capacity
        BY <1>1 DEF SpscTypeOK, IndexInv
      <3>2. Slot(n) # Slot(head)
        BY <3>1, SpscSlotInjective, Zenon
      <3> QED
        BY <1>1, <1>3, <3>2, <3>1, SpscSlotType, Zenon DEF SpscTypeOK, CellInv
    <2> QED
      BY <1>1, <2>1, <2>2, Zenon DEF CellInv
  <1>6. DeliveredPrefix' /\ ObserverInv'
    BY <1>1, Zenon DEF DeliveredPrefix, ObserverInv
  <1> QED
    BY <1>4, <1>5, <1>6, Zenon

(* Storing head_ adds the element written to the queue. *)
LEMMA PushPublishInv ==
  ASSUME IInv, PushPublish
  PROVE  IInv'
  <1> USE CapacityPositive, MaxCallsNat DEF IInv
  <1>1. /\ ppc = "publish" /\ ppc' = "idle"
        /\ head' = head + 1
        /\ accepted' = Append(accepted, calls)
        /\ UNCHANGED <<tail, buffer, cached_tail, calls, consumer, observer,
                       delivered>>
    BY Zenon DEF PushPublish
  <1>2. calls \in Items
    BY <1>1 DEF SpscTypeOK, IndexInv, Items
  <1>0. accepted \in Seq(Items) /\ Len(accepted) = head /\ head \in Nat
    BY Zenon DEF SpscTypeOK, IndexInv
  <1>3. /\ Len(accepted') = head + 1
        /\ accepted'[head + 1] = calls
        /\ \A i \in 1 .. head : accepted'[i] = accepted[i]
    BY <1>0, <1>1, <1>2
  <1>4. SpscTypeOK'
    BY <1>1, <1>2 DEF SpscTypeOK, consumer
  <1>5. IndexInv'
    BY <1>1, <1>3 DEF SpscTypeOK, IndexInv, consumer
  <1>6. CellInv'
    <2> SUFFICES ASSUME NEW n \in Len(delivered) .. head
                 PROVE  buffer[Slot(n)] = accepted'[n + 1]
      BY <1>0, <1>1 DEF CellInv
    <2>1. CASE n = head
      BY <1>1, <1>3, <2>1, Zenon DEF CellInv
    <2>2. CASE n # head
      <3>1. n \in Len(delivered) .. head - 1 /\ n + 1 \in 1 .. head
        BY <1>0, <2>2 DEF SpscTypeOK
      <3> QED
        BY <1>3, <3>1, Zenon DEF CellInv
    <2> QED
      BY <2>1, <2>2, Zenon
  <1>7. DeliveredPrefix'
    BY <1>1, <1>3 DEF SpscTypeOK, IndexInv, DeliveredPrefix
  <1>8. ObserverInv'
    BY <1>1 DEF SpscTypeOK, ObserverInv
  <1> QED
    BY <1>4, <1>5, <1>6, <1>7, <1>8, Zenon

(* Deciding on an element, or answering "empty", changes the consumer      *)
(* only; so do front and giving up its pointer.                            *)
LEMMA PopCallInv ==
  ASSUME IInv,
         \/ PopReady \/ PopEmpty \/ PopReload
         \/ Front \/ FrontEmpty \/ FrontDone
  PROVE  IInv'
  <1> USE CapacityPositive DEF IInv
  <1>1. /\ cpc \in {"idle", "empty", "peek"}
        /\ cpc' \in {"idle", "empty", "move", "peek"}
        /\ cached_head' \in {cached_head, head}
        /\ cpc' = "move" => cached_head' # tail
        /\ cpc' = "peek" => head # tail
        /\ UNCHANGED <<ring, producer, observer, accepted, delivered>>
    BY Zenon DEF PopReady, PopEmpty, PopReload, Front,
       FrontEmpty, FrontDone
  <1>2. SpscTypeOK'
    BY <1>1, Zenon DEF SpscTypeOK, ring, producer
  <1>3. IndexInv'
    BY <1>1 DEF SpscTypeOK, IndexInv, ring, producer
  <1>4. CellInv' /\ DeliveredPrefix' /\ ObserverInv'
    BY <1>1, Zenon DEF CellInv, DeliveredPrefix, ObserverInv,
       ring, producer
  <1> QED
    BY <1>2, <1>3, <1>4, Zenon

(* The element moved out is the oldest, and no other cell is touched. *)
LEMMA PopMoveInv ==
  ASSUME IInv, PopMove
  PROVE  IInv'
  <1> USE CapacityPositive DEF IInv
  <1>1. /\ cpc = "move" /\ cpc' = "advance"
        /\ delivered' = Append(delivered, buffer[Slot(tail)])
        /\ buffer' = [buffer EXCEPT ![Slot(tail)] = NoItem]
        /\ UNCHANGED <<head, tail, producer, cached_head, observer, accepted>>
    BY Zenon DEF PopMove
  <1>2. /\ tail \in Nat /\ head \in Nat /\ Slot(tail) \in Slots
        /\ Len(delivered) = tail /\ Len(accepted) = head
        /\ tail < head /\ head <= tail + Capacity
    BY <1>1, SpscSlotType DEF SpscTypeOK, IndexInv
  <1>3. /\ buffer[Slot(tail)] = accepted[tail + 1]
        /\ buffer[Slot(tail)] \in Items \cup {NoItem}
    BY <1>1, <1>2 DEF CellInv, SpscTypeOK
  <1>4. /\ Len(delivered') = tail + 1
        /\ delivered'[tail + 1] = accepted[tail + 1]
        /\ \A i \in 1 .. tail : delivered'[i] = delivered[i]
    BY <1>1, <1>2, <1>3 DEF SpscTypeOK
  <1>5. SpscTypeOK'
    <2>1. delivered' \in Seq(Items \cup {NoItem})
      BY <1>1, <1>3 DEF SpscTypeOK
    <2>2. buffer' \in [Slots -> Items \cup {NoItem}]
      BY <1>1, Zenon DEF SpscTypeOK
    <2> QED
      BY <1>1, <2>1, <2>2, Zenon DEF SpscTypeOK, producer
  <1>6. IndexInv'
    BY <1>1, <1>2, <1>4, Zenon DEF SpscTypeOK, IndexInv, producer
  <1>7. CellInv'
    <2>1. ASSUME NEW n \in Nat, tail < n, n < tail + Capacity
          PROVE  buffer'[Slot(n)] = buffer[Slot(n)]
      <3>1. Slot(tail) # Slot(n)
        BY <1>2, <2>1, SpscSlotInjective, Zenon
      <3> QED
        BY <1>1, <1>2, <3>1, SpscSlotType, Zenon DEF SpscTypeOK
    <2>2. ASSUME NEW n \in tail + 1 .. head - 1
          PROVE  buffer'[Slot(n)] = accepted[n + 1]
      BY <1>2, <2>1 DEF CellInv
    <2>3. ppc = "publish" => head < tail + Capacity
      BY <1>2 DEF SpscTypeOK, IndexInv
    <2>4. ppc = "publish" => buffer'[Slot(head)] = calls
      BY <1>2, <2>1, <2>3, ZenonT(30) DEF CellInv
    <2> QED
      BY <1>1, <1>2, <1>4, <2>2, <2>4, ZenonT(30) DEF CellInv, producer
  <1>8. DeliveredPrefix'
    BY <1>1, <1>2, <1>4 DEF DeliveredPrefix
  <1>9. ObserverInv'
    BY <1>1, Zenon DEF ObserverInv
  <1> QED
    BY <1>5, <1>6, <1>7, <1>8, <1>9, Zenon

(* Storing tail_ gives the cell back. *)
LEMMA PopAdvanceInv ==
  ASSUME IInv, PopAdvance
  PROVE  IInv'
  <1> USE CapacityPositive DEF IInv
  <1>1. /\ cpc = "advance" /\ cpc' = "idle"
        /\ tail' = tail + 1
        /\ UNCHANGED <<head, buffer, producer, cached_head, observer, accepted,
                       delivered>>
    BY Zenon DEF PopAdvance
  <1>2. SpscTypeOK' /\ IndexInv'
    BY <1>1, SMTT(30) DEF SpscTypeOK, IndexInv, producer
  <1>3. CellInv' /\ DeliveredPrefix' /\ ObserverInv'
    BY <1>1, Zenon DEF CellInv, DeliveredPrefix, ObserverInv,
       producer
  <1> QED
    BY <1>2, <1>3, Zenon

(* The observer writes nothing, and its two loads bound the difference. *)
LEMMA SpscApproxSizeInv ==
  ASSUME IInv, ApproxSizeHead \/ ApproxSizeTail
  PROVE  IInv'
  <1> USE CapacityPositive DEF IInv
  <1>1. UNCHANGED <<ring, producer, consumer, accepted,
      delivered>>
    BY Zenon DEF ApproxSizeHead, ApproxSizeTail
  <1>2. observer' \in [at : {"h", "t"}, h : Nat, size : Nat] /\ ObserverInv'
    <2>1. CASE ApproxSizeHead
      <3>1. observer' = [at |-> "t", h |-> head, size |-> observer.size]
        BY <2>1, Zenon DEF ApproxSizeHead, SpscTypeOK
      <3> QED
        BY <1>1, <3>1 DEF SpscTypeOK, ObserverInv, ring
    <2>2. CASE ApproxSizeTail
      <3>1. observer.h \in Nat /\ observer.h <= head /\ head <= tail + Capacity
        BY <2>2 DEF ApproxSizeTail, SpscTypeOK, IndexInv,
           ObserverInv
      <3> QED
        BY <1>1, <2>2, <3>1, SMTT(30), Zenon DEF ApproxSizeTail, SpscTypeOK,
           ObserverInv, ring
    <2> QED
      BY <2>1, <2>2, Zenon
  <1>3. SpscTypeOK' /\ IndexInv' /\ CellInv' /\ DeliveredPrefix'
    BY <1>1, <1>2, Zenon
    DEF SpscTypeOK, IndexInv, CellInv, DeliveredPrefix,
       ring, producer, consumer
  <1> QED
    BY <1>2, <1>3, Zenon

(* Every step keeps the invariant. *)
LEMMA SpscNextInv == IInv /\ [SpscNext]_spscVars => IInv'
  <1> SUFFICES ASSUME IInv, [SpscNext]_spscVars PROVE IInv'
    BY Zenon
  <1>1. CASE PushRoom \/ PushFull \/ PushReload
    BY <1>1, PushCallInv, Zenon
  <1>2. CASE PushStep
    BY <1>2, PushWriteInv, PushPublishInv, Zenon DEF PushStep
  <1>3. CASE PopStep
    BY <1>3, PopCallInv, PopMoveInv, PopAdvanceInv, Zenon DEF PopStep
  <1>4. CASE Front \/ FrontEmpty \/ FrontDone
    BY <1>4, PopCallInv, Zenon
  <1>5. CASE ApproxSizeHead \/ ApproxSizeTail
    BY <1>5, SpscApproxSizeInv, Zenon
  <1>6. CASE UNCHANGED spscVars
    BY <1>6, Zenon
    DEF spscVars, ring, producer, consumer, IInv,
       SpscTypeOK, IndexInv, CellInv,
        DeliveredPrefix, ObserverInv
  <1> QED
    BY <1>1, <1>2, <1>3, <1>4, <1>5, <1>6, Zenon DEF SpscNext

(* The inductive invariant holds in every state of every execution. *)
THEOREM SpscInvariance == SpscSpec => []IInv
  BY SpscInitInv, SpscNextInv, PTL DEF SpscSpec

(* Every variable of the queue stays in its type. *)
THEOREM SpscTypeCorrect == SpscSpec => []SpscTypeOK
  <1>1. IInv => SpscTypeOK
    BY Zenon DEF IInv
  <1> QED
    BY <1>1, SpscInvariance, PTL

(* push never writes the cell pop or front's caller is reading. *)
THEOREM SpscDataRaceFree == SpscSpec => []NoDataRace
  <1>1. IInv => NoDataRace
    <2> SUFFICES ASSUME IInv, ppc = "write", cpc \in {"move", "peek"}
                 PROVE  Slot(head) # Slot(tail)
      BY Zenon DEF NoDataRace
    <2>1. head \in Nat /\ tail \in Nat /\ tail < head /\ head < tail + Capacity
      BY CapacityPositive DEF IInv, SpscTypeOK, IndexInv
    <2> QED
      BY <2>1, SpscSlotInjective, Zenon
  <1> QED
    BY <1>1, SpscInvariance, PTL

(* The pointer front returns stays the oldest element until it is popped. *)
THEOREM FrontStaysOldest == SpscSpec => []FrontIsOldest
  <1>1. IInv => FrontIsOldest
    BY DEF IInv, SpscTypeOK, IndexInv, CellInv,
       FrontIsOldest
  <1> QED
    BY <1>1, SpscInvariance, PTL

(* The answer of approx_size never exceeds the capacity. *)
THEOREM SpscApproxSizeBounded == SpscSpec => []ApproxSizeBound
  <1>1. IInv => ApproxSizeBound
    BY Zenon DEF IInv, ObserverInv, ApproxSizeBound
  <1> QED
    BY <1>1, SpscInvariance, PTL

(* push answers "full", and pop and front "empty", only when it is so. *)
THEOREM AnswersAreTrue == SpscSpec => AnswersTrue
  <1>1. IInv /\ [SpscNext]_spscVars =>
          [calls' # calls /\ ppc' = "full" => head - tail = Capacity]_spscVars
    <2> SUFFICES ASSUME IInv, SpscNext, calls' # calls, ppc' = "full"
                 PROVE  head - tail = Capacity
      BY Zenon
    <2>1. PushFull
      BY Zenon DEF SpscNext, PushRoom, PushReload, PushStep,
         PushWrite, PushPublish,
         PopStep, PopReady, PopEmpty, PopReload,
             PopMove, PopAdvance, Front,
         FrontEmpty, FrontDone, ApproxSizeHead,
             ApproxSizeTail, producer
    <2> QED
      BY <2>1, CapacityPositive DEF PushFull, IInv, SpscTypeOK,
         IndexInv
  <1>2. IInv /\ [SpscNext]_spscVars =>
          [cpc' = "empty" /\ cpc # "empty" => delivered = accepted]_spscVars
    <2> SUFFICES ASSUME IInv, SpscNext, cpc' = "empty", cpc # "empty"
                 PROVE  delivered = accepted
      BY Zenon
    <2>1. PopEmpty \/ FrontEmpty
      BY Zenon DEF SpscNext, PushRoom, PushFull, PushReload,
         PushStep, PushWrite,
         PushPublish, PopStep, PopReady, PopReload,
             PopMove, PopAdvance, Front,
         FrontDone, ApproxSizeHead, ApproxSizeTail,
             consumer
    <2>2. cpc = "idle" /\ head = tail
      BY <2>1, Zenon DEF PopEmpty, FrontEmpty
    <2>3. Len(delivered) = Len(accepted)
      BY <2>2, Zenon DEF IInv, IndexInv
    <2> QED
      BY <2>3 DEF IInv, SpscTypeOK, DeliveredPrefix
  <1>3. SpscSpec => [][SpscNext]_spscVars
    BY Zenon DEF SpscSpec
  <1> QED
    BY <1>1, <1>2, <1>3, SpscInvariance, PTL
    DEF AnswersTrue, FullOnlyWhenFull, EmptyOnlyWhenEmpty

(* The ring is a bounded FIFO queue: nothing lost, duplicated, reordered   *)
(* or overwritten.                                                         *)
THEOREM SpscRefinement == SpscSpec => ImplementsFifo
  <1>1. SpscInit => Fifo!Init
    BY Zenon DEF SpscInit, Fifo!Init
  <1>2. IInv /\ [SpscNext]_spscVars => [Fifo!Next]_(Fifo!vars)
    <2> SUFFICES ASSUME IInv, [SpscNext]_spscVars PROVE [Fifo!Next]_(Fifo!vars)
      BY Zenon
    <2>1. CASE PushPublish
      <3>1. calls \in Items /\ accepted' = Append(accepted, calls)
        BY <2>1, MaxCallsNat
        DEF PushPublish, IInv, SpscTypeOK, IndexInv, Items
      <3>2. Len(accepted) - Len(delivered) < Capacity
        BY <2>1, CapacityPositive DEF PushPublish, IInv,
           SpscTypeOK, IndexInv
      <3> QED
        BY <2>1, <3>1, <3>2, Zenon DEF PushPublish, Fifo!Next,
           Fifo!Accept
    <2>2. CASE PopMove
      <3>1. /\ tail \in Nat /\ Len(delivered) = tail /\ Len(accepted) = head
            /\ tail < head /\ head \in Nat
        BY <2>2 DEF PopMove, IInv, SpscTypeOK, IndexInv
      <3>2. buffer[Slot(tail)] = accepted[tail + 1]
        BY <3>1 DEF IInv, CellInv
      <3> QED
        BY <2>2, <3>1, <3>2, Zenon DEF PopMove, Fifo!Next, Fifo!Deliver
    <2>3. CASE ~ PushPublish /\ ~ PopMove
      BY <2>3, ZenonT(30)
      DEF SpscNext, PushRoom, PushFull, PushReload,
         PushStep, PushWrite, PopStep,
          PopReady, PopEmpty, PopReload, PopAdvance,
              Front, FrontEmpty,
          FrontDone, ApproxSizeHead, ApproxSizeTail, spscVars,
              Fifo!vars
    <2> QED
      BY <2>1, <2>2, <2>3, Zenon
  <1> QED
    BY <1>1, <1>2, SpscInvariance, PTL DEF SpscSpec, ImplementsFifo,
       Fifo!Spec
=============================================================================
