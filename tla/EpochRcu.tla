------------------------------ MODULE EpochRcu ------------------------------
(***************************************************************************)
(* EpochRcu (core/src/concurrency/epoch_rcu.cpp): readers announce the     *)
(* epoch they entered in, writers retire what they have unlinked under the *)
(* epoch of that moment, and reclaim deletes what is older than every      *)
(* announced epoch.                                                        *)
(*                                                                         *)
(* The structure that is protected belongs to the caller: one pointer, to  *)
(* versions 1, 2, ... of an object.  A writer exchanges the pointer before *)
(* it retires the old version; a reader loads it inside its section.       *)
(*                                                                         *)
(* The stores of enter and exit are relaxed or release, so a reader's      *)
(* later loads may come before they are visible: they go through a store   *)
(* buffer, drained at any time, in order.  The loads of reclaim are taken  *)
(* in program order (as on x86-64).                                        *)
(***************************************************************************)
EXTENDS Integers, Sequences, FiniteSets

CONSTANTS
  Readers,      \* threads that read
  Writers,      \* threads that retire, advance and reclaim
  MaxSlots,     \* kMaxRcuThreads
  MaxSections,  \* bound: read sections per reader
  MaxRegs,      \* bound: registrations per reader
  MaxVersions,  \* bound: versions of the object
  MaxReclaims   \* bound: calls of try_advance_epoch and reclaim

ASSUME BoundsAssumption ==
  /\ MaxSlots \in Nat \ {0} /\ MaxSections \in Nat /\ MaxRegs \in Nat
  /\ MaxVersions \in Nat \ {0} /\ MaxReclaims \in Nat

VARIABLES
  global_epoch,  \* global_epoch_
  slots,         \* slots_: epoch and active of each
  allocated,     \* allocated_slots_
  retired,       \* retired_list_
  current,       \* the version the caller's pointer points to
  freed,         \* history: versions whose deleter has run
  slot,          \* per reader: t_thread_slot, or NoSlot
  buffer,        \* per reader: stores to its slot not visible yet
  rpc, repoch,   \* per reader: place in a section, current_g_epoch
  held,          \* per reader: the version it reads, or NoVersion
  sections, regs,  \* per reader: sections and registrations so far
  wpc,           \* per writer: place in retire, try_advance_epoch or reclaim
  local,         \* per writer: the locals of that call
  reclaims,      \* calls of try_advance_epoch and reclaim so far
  overtook,      \* history: a reader's load has overtaken its announcement
  before, quiet  \* history, per writer: versions retired when its reclaim
                 \* began, whether no reader has been active since

shared == <<global_epoch, slots, allocated, retired, current, freed>>
reader == <<slot, buffer, rpc, repoch, held, sections, regs>>
writer == <<wpc, local, reclaims>>
history == <<overtook, before, quiet>>
vars == <<shared, reader, writer, history>>

NoSlot == -1
NoVersion == 0
SlotIds == 0 .. MaxSlots - 1
NoLocals == [call |-> "none", epoch |-> 0, version |-> NoVersion,
             count |-> 0, i |-> 0, doomed |-> {}]

Init ==
  /\ global_epoch = 1
  /\ slots = [s \in SlotIds |-> [epoch |-> 0, active |-> FALSE]]
  /\ allocated = 0 /\ retired = {} /\ current = 1 /\ freed = {}
  /\ slot = [r \in Readers |-> NoSlot]
  /\ buffer = [r \in Readers |-> << >>]
  /\ rpc = [r \in Readers |-> "out"]
  /\ repoch = [r \in Readers |-> 0]
  /\ held = [r \in Readers |-> NoVersion]
  /\ sections = [r \in Readers |-> 0] /\ regs = [r \in Readers |-> 0]
  /\ wpc = [w \in Writers |-> "idle"]
  /\ local = [w \in Writers |-> NoLocals]
  /\ reclaims = 0 /\ overtook = FALSE
  /\ before = [w \in Writers |-> {}] /\ quiet = [w \in Writers |-> FALSE]

-----------------------------------------------------------------------------
(* Faulty variants of the actions below, with which each property fails.   *)

(* May pass over a reader that has timed out, as the advance does. *)
MinEpoch_SkipsStalled(w) ==
  /\ wpc[w] = "minepoch"
  /\ \E e \in {slots[local[w].i].epoch, local[w].epoch} :
       local' = [local EXCEPT ![w].i = @ + 1,
                              ![w].epoch = IF e < @ THEN e ELSE @]
  /\ wpc' = [wpc EXCEPT ![w] = "minscan"]
  /\ UNCHANGED <<shared, reader, reclaims>>

(* Copies the items it is about to delete and leaves them in the list. *)
Collect_KeepsItems(w) ==
  /\ wpc[w] = "minscan" /\ local[w].i >= local[w].count
  /\ LET old == {d \in retired : d.epoch < local[w].epoch} IN
     local' = [local EXCEPT ![w].doomed = {d.version : d \in old}]
  /\ wpc' = [wpc EXCEPT ![w] = "delete"]
  /\ UNCHANGED <<shared, reader, reclaims>>

(* Reclaims up to the epoch it saw before it advanced. *)
MinLoad_Behind(w) ==
  /\ wpc[w] = "minload"
  /\ local' = [local EXCEPT ![w].i = 0]
  /\ wpc' = [wpc EXCEPT ![w] = "minscan"]
  /\ UNCHANGED <<shared, reader, reclaims>>

-----------------------------------------------------------------------------
(* Readers *)

(* register_thread: a slot is never given back, and slot 0 is shared by    *)
(* all who come when there is none left.                                   *)
Register(r) ==
  /\ slot[r] = NoSlot /\ regs[r] < MaxRegs
  /\ allocated' = allocated + 1
  /\ slot' = [slot EXCEPT ![r] = IF allocated >= MaxSlots THEN 0 ELSE allocated]
  /\ regs' = [regs EXCEPT ![r] = @ + 1]
  /\ UNCHANGED <<global_epoch, slots, retired, current, freed, buffer, rpc,
                 repoch, held, sections, writer>>

Issue(r, stores) == buffer' = [buffer EXCEPT ![r] = @ \o stores]

(* unregister_thread, outside a section *)
Unregister(r) ==
  /\ slot[r] # NoSlot /\ rpc[r] = "out"
  /\ Issue(r, <<<<slot[r], "active", FALSE>>, <<slot[r], "epoch", 0>>>>)
  /\ slot' = [slot EXCEPT ![r] = NoSlot]
  /\ UNCHANGED <<shared, rpc, repoch, held, sections, regs, writer>>

EnterLoad(r) ==
  /\ rpc[r] = "out" /\ slot[r] # NoSlot /\ sections[r] < MaxSections
  /\ sections' = [sections EXCEPT ![r] = @ + 1]
  /\ repoch' = [repoch EXCEPT ![r] = global_epoch]
  /\ rpc' = [rpc EXCEPT ![r] = "enter"]
  /\ UNCHANGED <<shared, slot, buffer, held, regs, writer>>

EnterStore(r) ==
  /\ rpc[r] = "enter"
  /\ Issue(r, <<<<slot[r], "epoch", repoch[r]>>, <<slot[r], "active", TRUE>>>>)
  /\ rpc' = [rpc EXCEPT ![r] = "in"]
  /\ UNCHANGED <<shared, slot, repoch, held, sections, regs, writer>>

(* The caller loads its pointer. *)
Read(r) ==
  /\ rpc[r] = "in" /\ held[r] = NoVersion
  /\ held' = [held EXCEPT ![r] = current]
  /\ UNCHANGED <<shared, slot, buffer, rpc, repoch, sections, regs, writer>>

Exit(r) ==
  /\ rpc[r] = "in"
  /\ Issue(r, <<<<slot[r], "active", FALSE>>>>)
  /\ rpc' = [rpc EXCEPT ![r] = "out"]
  /\ held' = [held EXCEPT ![r] = NoVersion]
  /\ UNCHANGED <<shared, slot, repoch, sections, regs, writer>>

(* The oldest store of a reader becomes visible. *)
Drain(r) ==
  /\ buffer[r] # << >>
  /\ LET s == Head(buffer[r]) IN
     slots' = [slots EXCEPT ![s[1]] =
       IF s[2] = "epoch" THEN [@ EXCEPT !.epoch = s[3]]
                         ELSE [@ EXCEPT !.active = s[3]]]
  /\ buffer' = [buffer EXCEPT ![r] = Tail(@)]
  /\ UNCHANGED <<global_epoch, allocated, retired, current, freed, slot, rpc,
                 repoch, held, sections, regs, writer>>

-----------------------------------------------------------------------------
(* Writers *)

WGoto(w, place) == wpc' = [wpc EXCEPT ![w] = place]

(* The caller exchanges its pointer and calls retire on the old version. *)
Unlink(w) ==
  /\ wpc[w] = "idle" /\ current < MaxVersions
  /\ current' = current + 1
  /\ local' = [local EXCEPT ![w].version = current]
  /\ WGoto(w, "retire")
  /\ UNCHANGED <<global_epoch, slots, allocated, retired, freed, reader, reclaims>>

RetireLoad(w) ==
  /\ wpc[w] = "retire"
  /\ local' = [local EXCEPT ![w].epoch = global_epoch]
  /\ WGoto(w, "push")
  /\ UNCHANGED <<shared, reader, reclaims>>

RetirePush(w) ==
  /\ wpc[w] = "push"
  /\ retired' = retired \cup
       {[epoch |-> local[w].epoch, version |-> local[w].version]}
  /\ local' = [local EXCEPT ![w] = NoLocals]
  /\ WGoto(w, "idle")
  /\ UNCHANGED <<global_epoch, slots, allocated, current, freed, reader, reclaims>>

NumSlots == IF allocated < MaxSlots THEN allocated ELSE MaxSlots

(* reclaim begins with try_advance_epoch; what follows is skipped when     *)
(* that is what the caller called ("advance").                             *)
AdvanceLoad(w, call) ==
  /\ wpc[w] = "idle" /\ reclaims < MaxReclaims
  /\ reclaims' = reclaims + 1
  /\ local' = [local EXCEPT ![w] = [NoLocals EXCEPT
       !.call = call, !.epoch = global_epoch, !.count = NumSlots]]
  /\ WGoto(w, "scan")
  /\ UNCHANGED <<shared, reader>>

(* An advance on its own is over here. *)
AfterAdvance(w) == IF local[w].call = "reclaim" THEN "minload" ELSE "idle"

AdvanceScan(w) ==
  /\ wpc[w] = "scan" /\ local[w].i < local[w].count
  /\ IF slots[local[w].i].active
       THEN WGoto(w, "epoch") /\ UNCHANGED local
       ELSE local' = [local EXCEPT ![w].i = @ + 1] /\ UNCHANGED wpc
  /\ UNCHANGED <<shared, reader, reclaims>>

(* A reader of an older epoch stops the advance unless it has timed out,   *)
(* which depends on the clock.                                             *)
AdvanceEpoch(w) ==
  /\ wpc[w] = "epoch"
  /\ \/ /\ local' = [local EXCEPT ![w].i = @ + 1]
        /\ WGoto(w, "scan")
     \/ /\ slots[local[w].i].epoch < local[w].epoch
        /\ WGoto(w, AfterAdvance(w))
        /\ UNCHANGED local
  /\ UNCHANGED <<shared, reader, reclaims>>

AdvanceAdd(w) ==
  /\ wpc[w] = "scan" /\ local[w].i >= local[w].count
  /\ global_epoch' = global_epoch + 1
  /\ WGoto(w, AfterAdvance(w))
  /\ UNCHANGED <<slots, allocated, retired, current, freed, reader, local, reclaims>>

MinLoad(w) ==
  /\ wpc[w] = "minload"
  /\ local' = [local EXCEPT ![w].epoch = global_epoch, ![w].i = 0,
                            ![w].count = NumSlots]
  /\ WGoto(w, "minscan")
  /\ UNCHANGED <<shared, reader, reclaims>>

MinScan(w) ==
  /\ wpc[w] = "minscan" /\ local[w].i < local[w].count
  /\ IF slots[local[w].i].active
       THEN WGoto(w, "minepoch") /\ UNCHANGED local
       ELSE local' = [local EXCEPT ![w].i = @ + 1] /\ UNCHANGED wpc
  /\ UNCHANGED <<shared, reader, reclaims>>

MinEpoch(w) ==
  /\ wpc[w] = "minepoch"
  /\ LET e == slots[local[w].i].epoch IN
     local' = [local EXCEPT ![w].i = @ + 1,
                            ![w].epoch = IF e < @ THEN e ELSE @]
  /\ WGoto(w, "minscan")
  /\ UNCHANGED <<shared, reader, reclaims>>

(* Under g_reclaim_mutex *)
Collect(w) ==
  /\ wpc[w] = "minscan" /\ local[w].i >= local[w].count
  /\ LET old == {d \in retired : d.epoch < local[w].epoch} IN
     /\ retired' = retired \ old
     /\ local' = [local EXCEPT ![w].doomed = {d.version : d \in old}]
  /\ WGoto(w, "delete")
  /\ UNCHANGED <<global_epoch, slots, allocated, current, freed, reader, reclaims>>

(* The deleters run after the mutex is released. *)
Delete(w) ==
  /\ wpc[w] = "delete" /\ local[w].doomed # {}
  /\ \E v \in local[w].doomed :
       /\ freed' = freed \cup {v}
       /\ local' = [local EXCEPT ![w].doomed = @ \ {v}]
  /\ UNCHANGED <<global_epoch, slots, allocated, retired, current, reader, wpc,
                 reclaims>>

ReclaimReturn(w) ==
  /\ wpc[w] = "delete" /\ local[w].doomed = {}
  /\ local' = [local EXCEPT ![w] = NoLocals]
  /\ WGoto(w, "idle")
  /\ UNCHANGED <<shared, reader, reclaims>>

ReaderStep(r) ==
  \/ Register(r) \/ Unregister(r) \/ EnterLoad(r) \/ EnterStore(r)
  \/ Read(r) \/ Exit(r) \/ Drain(r)

WriterStep(w) ==
  \/ Unlink(w) \/ RetireLoad(w) \/ RetirePush(w)
  \/ \E call \in {"advance", "reclaim"} : AdvanceLoad(w, call)
  \/ AdvanceScan(w) \/ AdvanceEpoch(w) \/ AdvanceAdd(w)
  \/ MinLoad(w) \/ MinScan(w) \/ MinEpoch(w) \/ Collect(w) \/ Delete(w)
  \/ ReclaimReturn(w)

NoneActive == \A s \in SlotIds : ~ slots[s].active

(* A load of the pointer has overtaken the announcement if the stores of   *)
(* enter are still in the buffer.                                          *)
Observe ==
  /\ overtook' = (overtook \/ \E r \in Readers :
       held[r] = NoVersion /\ held'[r] # NoVersion /\ buffer[r] # << >>)
  /\ before' = [w \in Writers |->
       CASE wpc'[w] = "idle" -> {}
         [] wpc[w] = "idle" /\ wpc'[w] = "scan" -> {d.version : d \in retired}
         [] OTHER -> before[w]]
  /\ quiet' = [w \in Writers |->
       wpc'[w] # "idle" /\ NoneActive' /\ (wpc[w] = "idle" \/ quiet[w])]

Next ==
  /\ (\E r \in Readers : ReaderStep(r)) \/ (\E w \in Writers : WriterStep(w))
  /\ Observe

Spec == Init /\ [][Next]_vars

-----------------------------------------------------------------------------
(* Properties *)

Versions == 1 .. MaxVersions

(* Every variable stays in its type. *)
TypeOK ==
  /\ global_epoch \in Nat \ {0} /\ allocated \in Nat
  /\ slots \in [SlotIds -> [epoch : Nat, active : BOOLEAN]]
  /\ retired \subseteq [epoch : Nat, version : Versions]
  /\ current \in Versions /\ freed \subseteq Versions
  /\ slot \in [Readers -> SlotIds \cup {NoSlot}]
  /\ rpc \in [Readers -> {"out", "enter", "in"}]
  /\ repoch \in [Readers -> Nat]
  /\ held \in [Readers -> Versions \cup {NoVersion}]
  /\ wpc \in [Writers -> {"idle", "retire", "push", "scan", "epoch", "minload",
                          "minscan", "minepoch", "delete"}]
  /\ overtook \in BOOLEAN

(* epoch_rcu.h:53, "Read RCU-protected pointer safely": no version is      *)
(* deleted while a reader that loaded it is in its section.                *)
NoUseAfterFree == \A r \in Readers : held[r] \notin freed

(* The same, as long as every reader has a slot of its own and no load of  *)
(* a reader is satisfied before the stores of its enter are visible.  This *)
(* covers advances forced past a reader that has timed out, concurrent     *)
(* reclaims, and sections that begin or end in the middle of a scan.       *)
ProtectedReads == ~ overtook /\ allocated <= MaxSlots => NoUseAfterFree

(* Each deleter runs once: what one reclaim has collected is neither in    *)
(* the list any more nor collected by another.                             *)
DeletedOnce ==
  \A w \in Writers :
    /\ local[w].doomed \cap (freed \cup {d.version : d \in retired}) = {}
    /\ \A u \in Writers \ {w} : local[w].doomed \cap local[u].doomed = {}

(* test_epoch_rcu.cpp, BasicRetireAndReclaim: one reclaim is enough.  If   *)
(* no reader is active during a reclaim, then whatever was retired before  *)
(* it began is deleted when it returns, or is in the hands of another one. *)
ReclaimFreesAll ==
  [][\A w \in Writers :
       wpc[w] = "delete" /\ wpc'[w] = "idle" /\ quiet[w] =>
         before[w] \subseteq freed \cup UNION {local[u].doomed : u \in Writers}
    ]_vars
=============================================================================
