--------------------------- MODULE HazardPointers ---------------------------
(***************************************************************************)
(* HazardPointerDomain (core/include/ume/concurrency/hazard_pointers.h).   *)
(* The structure that is protected is the caller's: a pointer to versions  *)
(* 1, 2, ... of an object, which the writer exchanges before it retires    *)
(* the old version.  A reader takes a slot, loads the pointer, protects    *)
(* what it loaded and loads the pointer again before it uses it.           *)
(*                                                                         *)
(* The stores of a reader are release stores: they wait in a store buffer, *)
(* drained at any time in order, and only the exchange in acquire_slot     *)
(* waits for it to be empty.  retired_ has no lock, so the calls of retire *)
(* and reclaim are made by one thread at a time.                           *)
(***************************************************************************)
EXTENDS Integers, Sequences, FiniteSets

CONSTANTS
  Readers,
  MaxSlots,     \* kMaxHazardSlots
  MaxVersions,  \* bound: versions of the object
  MaxBuffer     \* entries of a store buffer

ASSUME SlotsAssumption ==
  /\ MaxSlots \in Nat /\ MaxVersions \in Nat \ {0}
  /\ MaxBuffer \in Nat /\ MaxBuffer >= 2

VARIABLES
  pointer,      \* slots_[i].pointer
  active,       \* the slots whose active is true
  stores,       \* per reader: stores not visible yet
  place,        \* per reader: where it is
  slot,         \* per reader: its slot, or the index in acquire_slot
  held,         \* per reader: the version it has loaded
  sound,        \* history: readers whose validation was sound (see Validate)
  current,      \* the caller's pointer
  retired,      \* retired_
  scan,         \* reclaim: "idle" or "scan"
  index, protected_ptrs,
  freed         \* history: versions whose deleter has run

slotVars == <<pointer, active>>
readerVars == <<place, slot, held, sound>>
writerVars == <<current, retired, scan, index, protected_ptrs, freed>>
vars == <<slotVars, stores, readerVars, writerVars>>

NoVersion == 0
SlotIds == 0 .. MaxSlots - 1
Versions == 1 .. MaxVersions
Places == {"away", "acquire", "ready", "loaded", "protected", "use"}
Entries == [slot : SlotIds, field : {"pointer", "active"}, value : Versions \cup {NoVersion}]

TypeOK ==
  /\ pointer \in [SlotIds -> Versions \cup {NoVersion}]
  /\ active \in SUBSET SlotIds
  /\ stores \in [Readers -> Seq(Entries)]
  /\ place \in [Readers -> Places]
  /\ slot \in [Readers -> 0 .. MaxSlots]
  /\ held \in [Readers -> Versions \cup {NoVersion}]
  /\ sound \in SUBSET Readers
  /\ current \in Versions
  /\ retired \in SUBSET Versions
  /\ scan \in {"idle", "scan"} /\ index \in 0 .. MaxSlots
  /\ protected_ptrs \in SUBSET Versions
  /\ freed \in SUBSET Versions

Init ==
  /\ pointer = [i \in SlotIds |-> NoVersion] /\ active = {}
  /\ stores = [r \in Readers |-> << >>]
  /\ place = [r \in Readers |-> "away"] /\ slot = [r \in Readers |-> 0]
  /\ held = [r \in Readers |-> NoVersion] /\ sound = {}
  /\ current = 1
  /\ retired = {} /\ freed = {}
  /\ scan = "idle" /\ index = 0 /\ protected_ptrs = {}

GoTo(r, next) == place' = [place EXCEPT ![r] = next]

(* A store to a field of the reader's slot, if it has one and the buffer   *)
(* has room; the value 0 is nullptr, or false for active.                  *)
Entry(r, field, value) == [slot |-> slot[r], field |-> field, value |-> value]

Store(r, value) ==
  IF slot[r] < MaxSlots
  THEN /\ Len(stores[r]) < MaxBuffer
       /\ stores' = [stores EXCEPT ![r] = Append(@, Entry(r, "pointer", value))]
  ELSE UNCHANGED stores

Drain(r) ==
  LET s == Head(stores[r]) IN
  /\ stores[r] # << >>
  /\ stores' = [stores EXCEPT ![r] = Tail(@)]
  /\ IF s.field = "pointer"
     THEN pointer' = [pointer EXCEPT ![s.slot] = s.value] /\ UNCHANGED active
     ELSE active' = active \ {s.slot} /\ UNCHANGED pointer
  /\ UNCHANGED <<readerVars, writerVars>>

-----------------------------------------------------------------------------
Start(r) ==
  /\ place[r] = "away"
  /\ GoTo(r, "acquire")
  /\ slot' = [slot EXCEPT ![r] = 0]
  /\ UNCHANGED <<slotVars, stores, held, sound, writerVars>>

(* The loop of acquire_slot; a reader that finds no slot goes on without.  *)
acquire_slot(r) ==
  /\ place[r] = "acquire" /\ stores[r] = << >>
  /\ \/ /\ slot[r] = MaxSlots
        /\ GoTo(r, "ready")
        /\ UNCHANGED <<active, slot>>
     \/ /\ slot[r] \in active
        /\ slot' = [slot EXCEPT ![r] = @ + 1]
        /\ UNCHANGED <<active, place>>
     \/ /\ slot[r] \in SlotIds \ active
        /\ active' = active \cup {slot[r]}
        /\ GoTo(r, "ready")
        /\ UNCHANGED slot
  /\ UNCHANGED <<pointer, stores, held, sound, writerVars>>

Load(r) ==
  /\ place[r] = "ready"
  /\ GoTo(r, "loaded")
  /\ held' = [held EXCEPT ![r] = current]
  /\ UNCHANGED <<slotVars, stores, slot, sound, writerVars>>

protect(r) ==
  /\ place[r] = "loaded"
  /\ Store(r, held[r])
  /\ GoTo(r, "protected")
  /\ UNCHANGED <<slotVars, slot, held, sound, writerVars>>

(* The second load.  It is sound when the protection is visible by then.   *)
Validate(r) ==
  /\ place[r] = "protected"
  /\ GoTo(r, IF current = held[r] THEN "use" ELSE "ready")
  /\ sound' = IF slot[r] < MaxSlots /\ stores[r] = << >> THEN sound \cup {r} ELSE sound \ {r}
  /\ UNCHANGED <<slotVars, stores, slot, held, writerVars>>

(* The reader is done with the version; it may use its slot again. *)
clear(r) ==
  /\ place[r] = "use"
  /\ Store(r, NoVersion)
  /\ GoTo(r, "ready")
  /\ UNCHANGED <<slotVars, slot, held, sound, writerVars>>

release_slot_ActiveFirst(r) ==
  /\ place[r] = "ready"
  /\ IF slot[r] < MaxSlots
     THEN /\ Len(stores[r]) + 2 <= MaxBuffer
          /\ stores' = [stores EXCEPT ![r] =
               Append(Append(@, Entry(r, "active", 0)), Entry(r, "pointer", NoVersion))]
     ELSE UNCHANGED stores
  /\ GoTo(r, "away")
  /\ UNCHANGED <<slotVars, slot, held, sound, writerVars>>

release_slot(r) ==
  /\ place[r] = "ready"
  /\ IF slot[r] < MaxSlots
     THEN /\ Len(stores[r]) + 2 <= MaxBuffer
          /\ stores' = [stores EXCEPT ![r] =
               Append(Append(@, Entry(r, "pointer", NoVersion)), Entry(r, "active", 0))]
     ELSE UNCHANGED stores
  /\ GoTo(r, "away")
  /\ UNCHANGED <<slotVars, slot, held, sound, writerVars>>

-----------------------------------------------------------------------------
BeginScan == scan' = "scan" /\ index' = 0 /\ protected_ptrs' = {}

(* The writer exchanges the pointer and retires the old version; retire    *)
(* ends in reclaim, which can also be called by itself.                    *)
retire ==
  /\ scan = "idle"
  /\ current < MaxVersions
  /\ current' = current + 1
  /\ retired' = retired \cup {current}
  /\ BeginScan
  /\ UNCHANGED <<slotVars, stores, readerVars, freed>>

reclaim ==
  /\ scan = "idle" /\ retired # {}
  /\ BeginScan
  /\ UNCHANGED <<slotVars, stores, readerVars, current, retired, freed>>

ScanSlot_SkipsLast ==
  /\ scan = "scan" /\ index < MaxSlots
  /\ index' = index + 1
  /\ protected_ptrs' = IF index \in active /\ index + 1 < MaxSlots
                       THEN protected_ptrs \cup ({pointer[index]} \ {NoVersion})
                       ELSE protected_ptrs
  /\ UNCHANGED <<slotVars, stores, readerVars, current, retired, scan, freed>>

ScanSlot ==
  /\ scan = "scan" /\ index < MaxSlots
  /\ index' = index + 1
  /\ protected_ptrs' = IF index \in active
                       THEN protected_ptrs \cup ({pointer[index]} \ {NoVersion})
                       ELSE protected_ptrs
  /\ UNCHANGED <<slotVars, stores, readerVars, current, retired, scan, freed>>

DeleteUnprotected_Forgets ==
  /\ scan = "scan" /\ index = MaxSlots
  /\ freed' = freed \cup (retired \ protected_ptrs)
  /\ retired' = {}
  /\ scan' = "idle" /\ index' = 0 /\ protected_ptrs' = {}
  /\ UNCHANGED <<slotVars, stores, readerVars, current>>

DeleteUnprotected ==
  /\ scan = "scan" /\ index = MaxSlots
  /\ freed' = freed \cup (retired \ protected_ptrs)
  /\ retired' = retired \cap protected_ptrs
  /\ scan' = "idle" /\ index' = 0 /\ protected_ptrs' = {}
  /\ UNCHANGED <<slotVars, stores, readerVars, current>>

(* The destructor: reclaim_all, when no reader is left. *)
reclaim_all ==
  /\ scan = "idle" /\ retired # {}
  /\ \A r \in Readers : place[r] = "away"
  /\ freed' = freed \cup retired
  /\ retired' = {}
  /\ UNCHANGED <<slotVars, stores, readerVars, current, scan, index, protected_ptrs>>

ReaderStep(r) ==
  \/ acquire_slot(r) \/ Load(r) \/ protect(r) \/ Validate(r) \/ clear(r) \/ release_slot(r)

WriterStep == reclaim \/ ScanSlot \/ DeleteUnprotected

Next ==
  \/ \E r \in Readers : Start(r) \/ ReaderStep(r) \/ Drain(r)
  \/ retire
  \/ WriterStep
  \/ reclaim_all

Spec == Init /\ [][Next]_vars

(* Stores become visible, a reader that has begun is not stopped for ever, *)
(* and the writer goes on calling reclaim.                                 *)
FairSpec ==
  /\ Spec
  /\ \A r \in Readers : WF_vars(Drain(r)) /\ WF_vars(ReaderStep(r))
  /\ WF_vars(WriterStep)

-----------------------------------------------------------------------------
(* "guaranteeing no use-after-free errors": a version a reader uses has    *)
(* not been deleted, if the reader got a slot and its protection was       *)
(* visible when it looked at the pointer again.                            *)
NoUseAfterFree ==
  \A r \in sound : place[r] = "use" => held[r] \notin freed

(* A slot is taken by one reader at most, and until its release is through *)
(* nobody else's pointer is in it: no reader can overwrite the protection  *)
(* of another.                                                             *)
Occupies(r, i) ==
  \/ slot[r] = i /\ place[r] \in {"ready", "loaded", "protected", "use"}
  \/ \E k \in DOMAIN stores[r] : stores[r][k].slot = i

SlotsExclusive ==
  \A r, q \in Readers : \A i \in SlotIds :
    /\ (Occupies(r, i) /\ Occupies(q, i)) => r = q
    /\ Occupies(r, i) => i \in active

(* What is retired is deleted in the end: a protection cannot hold a       *)
(* version back for ever once its reader is done with it.                  *)
EventuallyReclaimed == \A v \in Versions : (v \in retired) ~> (v \in freed)
=============================================================================
