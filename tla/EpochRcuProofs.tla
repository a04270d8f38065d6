--------------------------- MODULE EpochRcuProofs ---------------------------
(***************************************************************************)
(* What EpochRcu promises, for any number of readers, writers, slots and   *)
(* versions.  The argument for ProtectedReads: what a reader holds cannot  *)
(* have been retired under an epoch older than the one it announced, nor   *)
(* than the epoch at the moment it read; so a reclaim that has passed the  *)
(* reader's slot, or will never come to it, carries a bound too low to     *)
(* collect what the reader holds.                                          *)
(***************************************************************************)
EXTENDS EpochRcu, TLAPS

WPlaces ==
  {"idle", "retire", "push", "scan", "epoch", "minload", "minscan", "minepoch", "delete"}

Stores == (SlotIds \X {"epoch"} \X Nat) \cup (SlotIds \X {"active"} \X BOOLEAN)

Locals ==
  [call : {"none", "advance", "reclaim"}, epoch : Nat, version : Nat, count : Nat,
   i : Nat, doomed : SUBSET Nat]

EType ==
  /\ global_epoch \in Nat /\ allocated \in Nat /\ current \in Nat \ {0}
  /\ slots = [s \in SlotIds |-> slots[s]]
  /\ \A s \in SlotIds : DOMAIN slots[s] = {"epoch", "active"} /\ slots[s].epoch \in Nat
  /\ slot \in [Readers -> SlotIds \cup {NoSlot}]
  /\ buffer \in [Readers -> Seq(Stores)]
  /\ rpc \in [Readers -> {"out", "enter", "in"}]
  /\ repoch \in [Readers -> Nat] /\ held \in [Readers -> Nat]
  /\ wpc \in [Writers -> WPlaces] /\ local \in [Writers -> Locals]
  /\ retired \in SUBSET [epoch : Nat, version : Nat]

(* A reader in a section has a slot; what it holds it read in its section. *)
Sections ==
  \A r \in Readers :
    /\ rpc[r] # "out" => slot[r] # NoSlot
    /\ held[r] # NoVersion => rpc[r] = "in"
    /\ repoch[r] <= global_epoch

(* Where a version that is no longer current can be: in the hands of the   *)
(* writer that retires it, in the list, in the hands of a reclaim, or      *)
(* deleted; and in one of these places only.                               *)
Retiring(w) == wpc[w] \in {"retire", "push"}

InHands == \A w \in Writers : wpc[w] # "delete" => local[w].doomed = {}

Old(c) == 1 .. c - 1

RetiringOnly ==
  \A w \in Writers : Retiring(w) =>
    /\ local[w].version \in Old(current) /\ local[w].version \notin freed
    /\ \A d \in retired : d.version # local[w].version
    /\ \A u \in Writers : local[w].version \notin local[u].doomed
    /\ \A u \in Writers : Retiring(u) /\ local[u].version = local[w].version => u = w

ListedOnly ==
  \A d \in retired :
    /\ d.version \in Old(current) /\ d.version \notin freed
    /\ \A u \in Writers : d.version \notin local[u].doomed
    /\ \A e \in retired : e.version = d.version => e = d

DoomedOnly ==
  \A w \in Writers : \A v \in local[w].doomed :
    /\ v \in Old(current) /\ v \notin freed
    /\ \A u \in Writers : v \in local[u].doomed => u = w

Places ==
  InHands /\ RetiringOnly /\ ListedOnly /\ DoomedOnly /\ \A v \in freed : v \in Old(current)

(* Slots that are a reader's: the one it has, and those it still has       *)
(* stores for.  As long as there is a slot for everyone, no two readers    *)
(* share one.                                                              *)
Owns(r, s) == slot[r] = s \/ \E k \in DOMAIN buffer[r] : buffer[r][k][1] = s

Ownership ==
  allocated <= MaxSlots => \A r \in Readers, s \in SlotIds : Owns(r, s) =>
    s < allocated /\ \A q \in Readers : Owns(q, s) => q = r

(* The announcement of a reader in its section is visible, or is the last  *)
(* thing in its buffer.                                                    *)
EpochMark(r) == <<slot[r], "epoch", repoch[r]>>
ActiveMark(r) == <<slot[r], "active", TRUE>>

Announced(r) ==
  LET n == Len(buffer[r]) IN
    /\ n > 0 => buffer[r][n] = ActiveMark(r)
    /\ n > 1 => buffer[r][n - 1] = EpochMark(r)
    /\ n < 2 => slots[slot[r]].epoch = repoch[r]
    /\ n = 0 => slots[slot[r]].active = TRUE

Announcements ==
  \A r \in Readers :
    /\ allocated <= MaxSlots /\ rpc[r] = "in" => Announced(r)
    /\ ~ overtook /\ held[r] # NoVersion => buffer[r] = << >>

(* Version v is not retired, and will not be, under an epoch before e. *)
NotRetiredBefore(v, e) ==
  /\ e <= global_epoch
  /\ \A u \in Writers : wpc[u] = "push" /\ local[u].version = v => local[u].epoch >= e
  /\ \A d \in retired : d.version = v => d.epoch >= e

Scanning(w) == wpc[w] \in {"minscan", "minepoch"}

(* The bound of a reclaim that is past a reader's slot, or was never to    *)
(* come to it, protects what the reader holds.                             *)
Protected(r) ==
  /\ held[r] \notin freed
  /\ NotRetiredBefore(held[r], repoch[r])
  /\ \A w \in Writers :
       /\ held[r] \notin local[w].doomed
       /\ Scanning(w) /\ (local[w].i > slot[r] \/ local[w].count <= slot[r]) =>
            NotRetiredBefore(held[r], local[w].epoch)

ScanBounds ==
  \A w \in Writers :
    /\ local[w].count <= MaxSlots
    /\ wpc[w] = "minepoch" => local[w].i < local[w].count
    /\ Scanning(w) => local[w].epoch <= global_epoch

Bounds ==
  /\ ScanBounds
  /\ ~ overtook /\ allocated <= MaxSlots =>
       \A r \in Readers : held[r] # NoVersion => Protected(r)

(* A reclaim that no reader has disturbed so far is going to collect what  *)
(* was in the list when it began, unless another has done so.              *)
Gone(v) == v \in freed \/ \E u \in Writers : v \in local[u].doomed

Undisturbed(w) ==
  /\ wpc[w] \notin {"epoch", "minepoch"}
  /\ wpc[w] \in {"idle", "retire", "push"} => before[w] = {}
  /\ wpc[w] = "delete" => \A v \in before[w] : Gone(v)
  /\ \A v \in before[w] : Gone(v) \/ \E d \in retired : d.version = v
  /\ \A d \in retired : d.version \in before[w] =>
       /\ wpc[w] = "scan" => d.epoch <= local[w].epoch
       /\ wpc[w] = "minload" => d.epoch < global_epoch
       /\ wpc[w] = "minscan" => d.epoch < local[w].epoch

Loaded ==
  /\ \A w \in Writers : wpc[w] \in {"push", "scan", "epoch"} => local[w].epoch <= global_epoch
  /\ \A d \in retired : d.epoch <= global_epoch

Quiet ==
  /\ Loaded
  /\ \A w \in Writers : wpc[w] = "idle" => before[w] = {}
  /\ \A w \in Writers : quiet[w] => NoneActive /\ Undisturbed(w)

EInv == EType /\ Sections /\ Places /\ Ownership /\ Announcements /\ Bounds /\ Quiet

-----------------------------------------------------------------------------
(* What a call of a writer does to its locals, field by field. *)

(* The locals of the other writers stay. *)
Elsewhere(w) == \A u \in Writers \ {w} : local'[u] = local[u] /\ wpc'[u] = wpc[u]

(* The fields of local[w] that stay. *)
Stay(w, fields) == \A f \in fields : local'[w][f] = local[w][f]

LocalTyped == wpc' \in [Writers -> WPlaces] /\ local' \in [Writers -> Locals]

(* A call that replaces its locals by l and goes on at p. *)
LEMMA LocalStep ==
  ASSUME EType, NEW w \in Writers, NEW l \in Locals, NEW p \in WPlaces,
         local' = [local EXCEPT ![w] = l], wpc' = [wpc EXCEPT ![w] = p]
  PROVE  LocalTyped /\ Elsewhere(w) /\ local'[w] = l /\ wpc'[w] = p
  BY Zenon DEF EType, LocalTyped, Elsewhere

(* unlink, retire *)
LEMMA UnlinkFields ==
  ASSUME EType, NEW w \in Writers, Unlink(w)
  PROVE  /\ LocalTyped /\ Elsewhere(w) /\ wpc'[w] = "retire"
         /\ local'[w].version = current /\ Stay(w, {"epoch", "count", "i", "doomed"})
<1> DEFINE l == [local[w] EXCEPT !.version = current]
<1>1. /\ l \in Locals /\ l.version = current
      /\ l.epoch = local[w].epoch /\ l.count = local[w].count /\ l.i = local[w].i
      /\ l.doomed = local[w].doomed
  BY ZenonT(30) DEF EType, Locals
<1>2. local' = [local EXCEPT ![w] = l] /\ wpc' = [wpc EXCEPT ![w] = "retire"]
  BY Zenon DEF Unlink, WGoto
<1> HIDE DEF l
<1> QED BY <1>1, <1>2, LocalStep, Zenon DEF Stay, WPlaces

(* retire notes the global epoch it loaded. *)
LEMMA RetireLoadFields ==
  ASSUME EType, NEW w \in Writers, RetireLoad(w)
  PROVE  /\ LocalTyped /\ Elsewhere(w) /\ wpc'[w] = "push"
         /\ local'[w].epoch = global_epoch /\ Stay(w, {"version", "count", "i", "doomed"})
<1> DEFINE l == [local[w] EXCEPT !.epoch = global_epoch]
<1>1. /\ l \in Locals /\ l.epoch = global_epoch
      /\ l.version = local[w].version /\ l.count = local[w].count /\ l.i = local[w].i
      /\ l.doomed = local[w].doomed
  BY ZenonT(30), SMT DEF EType, Locals
<1>2. local' = [local EXCEPT ![w] = l] /\ wpc' = [wpc EXCEPT ![w] = "push"]
  BY Zenon DEF RetireLoad, WGoto
<1> HIDE DEF l
<1> QED BY <1>1, <1>2, LocalStep, Zenon DEF Stay, WPlaces

(* The locals of a call that is over. *)
LEMMA NoLocalsTyped == NoLocals \in Locals /\ NoLocals.doomed = {} /\ NoLocals.count = 0
  BY Zenon DEF NoLocals, Locals, NoVersion

(* A retire or reclaim that returns holds nothing any more. *)
LEMMA DoneFields ==
  ASSUME EType, NEW w \in Writers, RetirePush(w) \/ ReclaimReturn(w)
  PROVE  /\ LocalTyped /\ Elsewhere(w) /\ wpc'[w] = "idle"
         /\ local'[w].doomed = {} /\ local'[w].count = 0
<1>1. local' = [local EXCEPT ![w] = NoLocals] /\ wpc' = [wpc EXCEPT ![w] = "idle"]
  BY Zenon DEF RetirePush, ReclaimReturn, WGoto
<1> QED BY <1>1, LocalStep, NoLocalsTyped, Zenon DEF WPlaces

(* The beginning of try_advance_epoch *)
LEMMA AdvanceLoadFields ==
  ASSUME EType, NEW w \in Writers, NEW call \in {"advance", "reclaim"}, AdvanceLoad(w, call)
  PROVE  /\ LocalTyped /\ Elsewhere(w) /\ wpc'[w] = "scan"
         /\ local'[w].epoch = global_epoch /\ local'[w].count = NumSlots /\ local'[w].doomed = {}
<1> DEFINE l == [NoLocals EXCEPT !.call = call, !.epoch = global_epoch, !.count = NumSlots]
<1>1. NumSlots \in Nat
  BY BoundsAssumption, Zenon DEF EType, NumSlots
<1>2. l \in Locals /\ l.epoch = global_epoch /\ l.count = NumSlots /\ l.doomed = {}
  <2> DEFINE a == [NoLocals EXCEPT !.call = call]
             b == [a EXCEPT !.epoch = global_epoch]
             c == [b EXCEPT !.count = NumSlots]
  <2>1. a \in Locals /\ a.doomed = {}
    BY NoLocalsTyped, Zenon DEF Locals
  <2>2. c = l
    BY Zenon
  <2> HIDE DEF a, l
  <2>3. b \in Locals /\ b.doomed = {} /\ b.epoch = global_epoch
    BY <2>1, Zenon DEF Locals, EType
  <2> HIDE DEF b
  <2>4. c \in Locals /\ c.doomed = {} /\ c.epoch = global_epoch /\ c.count = NumSlots
    BY <1>1, <2>3, Zenon DEF Locals
  <2> QED BY <2>2, <2>4, Zenon
<1>3. local' = [local EXCEPT ![w] = l] /\ wpc' = [wpc EXCEPT ![w] = "scan"]
  BY Zenon DEF AdvanceLoad, WGoto
<1> HIDE DEF l
<1> QED BY <1>2, <1>3, LocalStep, Zenon DEF WPlaces

(* A local that counts slots. *)
LEMMA NextSlot ==
  ASSUME NEW r \in Locals
  PROVE  LET l == [r EXCEPT !.i = r.i + 1] IN
           /\ l \in Locals /\ l.i = r.i + 1
           /\ l.version = r.version /\ l.count = r.count /\ l.epoch = r.epoch
           /\ l.doomed = r.doomed
<1>1. r.i + 1 \in Nat
  BY DEF Locals
<1> QED BY <1>1, Zenon DEF Locals

(* A scan goes on to the next slot, or looks at the epoch of this one. *)
LEMMA ScanFields ==
  ASSUME EType, NEW w \in Writers, AdvanceScan(w) \/ MinScan(w)
  PROVE  /\ LocalTyped /\ Elsewhere(w)
         /\ Stay(w, {"epoch", "version", "count", "doomed"})
         /\ \/ /\ slots[local[w].i].active /\ local'[w].i = local[w].i
               /\ wpc'[w] = IF wpc[w] = "scan" THEN "epoch" ELSE "minepoch"
            \/ /\ ~ slots[local[w].i].active /\ local'[w].i = local[w].i + 1
               /\ wpc'[w] = wpc[w]
<1> DEFINE l == [local[w] EXCEPT !.i = local[w].i + 1]
<1>1. /\ l \in Locals /\ l.i = local[w].i + 1
      /\ l.version = local[w].version /\ l.count = local[w].count /\ l.epoch = local[w].epoch
      /\ l.doomed = local[w].doomed
  BY NextSlot, Zenon DEF EType
<1>2. local[w] \in Locals /\ local = [local EXCEPT ![w] = local[w]]
      /\ wpc[w] \in WPlaces /\ wpc = [wpc EXCEPT ![w] = wpc[w]]
  BY Zenon DEF EType
<1>3. CASE slots[local[w].i].active
  <2> DEFINE q == IF wpc[w] = "scan" THEN "epoch" ELSE "minepoch"
  <2>1. local' = [local EXCEPT ![w] = local[w]] /\ wpc' = [wpc EXCEPT ![w] = q]
    BY <1>2, <1>3, Zenon DEF AdvanceScan, MinScan, WGoto
  <2>2. q \in WPlaces
    BY Zenon DEF WPlaces
  <2> HIDE DEF q
  <2>3. LocalTyped /\ Elsewhere(w) /\ local'[w] = local[w] /\ wpc'[w] = q
    BY <1>2, <2>1, <2>2, LocalStep, Zenon
  <2> QED BY <1>3, <2>3, Zenon DEF Stay, q
<1>4. CASE ~ slots[local[w].i].active
  <2>1. local' = [local EXCEPT ![w] = l] /\ wpc' = [wpc EXCEPT ![w] = wpc[w]]
    BY <1>2, <1>4, Zenon DEF AdvanceScan, MinScan, WGoto
  <2> HIDE DEF l
  <2>2. LocalTyped /\ Elsewhere(w) /\ local'[w] = l /\ wpc'[w] = wpc[w]
    BY <1>1, <1>2, <2>1, LocalStep, Zenon
  <2> QED BY <1>1, <1>4, <2>2, Zenon DEF Stay
<1> QED BY <1>3, <1>4, Zenon

(* try_advance_epoch passes a slot, or gives up. *)
LEMMA AdvanceEpochFields ==
  ASSUME EType, NEW w \in Writers, AdvanceEpoch(w)
  PROVE  /\ LocalTyped /\ Elsewhere(w)
         /\ Stay(w, {"epoch", "version", "count", "doomed"})
         /\ wpc'[w] \in {"scan", "minload", "idle"}
<1> DEFINE l == [local[w] EXCEPT !.i = local[w].i + 1]
<1>1. /\ l \in Locals /\ l.i = local[w].i + 1
      /\ l.version = local[w].version /\ l.count = local[w].count /\ l.epoch = local[w].epoch
      /\ l.doomed = local[w].doomed
  BY NextSlot, Zenon DEF EType
<1>2. local[w] \in Locals /\ local = [local EXCEPT ![w] = local[w]]
  BY Zenon DEF EType
<1>3. CASE local' = [local EXCEPT ![w].i = @ + 1] /\ WGoto(w, "scan")
  <2>1. local' = [local EXCEPT ![w] = l] /\ wpc' = [wpc EXCEPT ![w] = "scan"]
    BY <1>2, <1>3, Zenon DEF WGoto
  <2> HIDE DEF l
  <2>2. LocalTyped /\ Elsewhere(w) /\ local'[w] = l /\ wpc'[w] = "scan"
    BY <1>1, <2>1, LocalStep, Zenon DEF WPlaces
  <2> QED BY <1>1, <2>2, Zenon DEF Stay
<1>4. CASE WGoto(w, AfterAdvance(w)) /\ UNCHANGED local
  <2>1. local' = [local EXCEPT ![w] = local[w]] /\ wpc' = [wpc EXCEPT ![w] = AfterAdvance(w)]
    BY <1>2, <1>4, Zenon DEF WGoto
  <2>2. AfterAdvance(w) \in {"minload", "idle"} /\ AfterAdvance(w) \in WPlaces
    BY Zenon DEF AfterAdvance, WPlaces
  <2>3. LocalTyped /\ Elsewhere(w) /\ local'[w] = local[w] /\ wpc'[w] = AfterAdvance(w)
    BY <1>2, <2>1, <2>2, LocalStep, Zenon
  <2> QED BY <2>2, <2>3, Zenon DEF Stay
<1> QED BY <1>3, <1>4, Zenon DEF AdvanceEpoch

(* The addition of a forced advance leaves the locals alone. *)
LEMMA AdvanceAddFields ==
  ASSUME EType, NEW w \in Writers, AdvanceAdd(w)
  PROVE  /\ LocalTyped /\ Elsewhere(w) /\ local'[w] = local[w]
         /\ wpc'[w] \in {"minload", "idle"}
<1>1. local[w] \in Locals /\ local = [local EXCEPT ![w] = local[w]]
  BY Zenon DEF EType
<1>2. local' = [local EXCEPT ![w] = local[w]] /\ wpc' = [wpc EXCEPT ![w] = AfterAdvance(w)]
  BY <1>1, Zenon DEF AdvanceAdd, WGoto
<1>3. AfterAdvance(w) \in {"minload", "idle"} /\ AfterAdvance(w) \in WPlaces
  BY Zenon DEF AfterAdvance, WPlaces
<1> QED BY <1>1, <1>2, <1>3, LocalStep, Zenon

(* The bound of a reclaim starts at the global epoch. *)
LEMMA MinLoadFields ==
  ASSUME EType, NEW w \in Writers, MinLoad(w)
  PROVE  /\ LocalTyped /\ Elsewhere(w) /\ wpc'[w] = "minscan" /\ Stay(w, {"version", "doomed"})
         /\ local'[w].epoch = global_epoch /\ local'[w].i = 0 /\ local'[w].count = NumSlots
<1> DEFINE a == [local[w] EXCEPT !.epoch = global_epoch]
           b == [a EXCEPT !.i = 0]
           c == [b EXCEPT !.count = NumSlots]
<1>1. NumSlots \in Nat
  BY BoundsAssumption, Zenon DEF EType, NumSlots
<1>2. local' = [local EXCEPT ![w] = c] /\ wpc' = [wpc EXCEPT ![w] = "minscan"]
  BY Zenon DEF MinLoad, WGoto
<1>3. a \in Locals /\ a.epoch = global_epoch /\ a.doomed = local[w].doomed
      /\ a.version = local[w].version
  BY ZenonT(30) DEF EType, Locals
<1> HIDE DEF a
<1>4. b \in Locals /\ b.epoch = global_epoch /\ b.i = 0 /\ b.doomed = local[w].doomed
      /\ b.version = local[w].version
  BY <1>3, Zenon DEF Locals
<1> HIDE DEF b
<1>5. c \in Locals /\ c.epoch = global_epoch /\ c.i = 0 /\ c.doomed = local[w].doomed
      /\ c.version = local[w].version /\ c.count = NumSlots
  BY <1>1, <1>4, Zenon DEF Locals
<1> HIDE DEF c
<1>6. LocalTyped /\ Elsewhere(w) /\ local'[w] = c /\ wpc'[w] = "minscan"
  BY <1>2, <1>5, LocalStep, Zenon DEF WPlaces
<1> QED BY <1>5, <1>6, Zenon DEF Stay

(* The bound of a reclaim falls to the epoch of an active slot. *)
LEMMA MinEpochFields ==
  ASSUME EType, NEW w \in Writers, MinEpoch(w), local[w].i \in SlotIds
  PROVE  /\ LocalTyped /\ Elsewhere(w) /\ wpc'[w] = "minscan"
         /\ Stay(w, {"version", "count", "doomed"}) /\ local'[w].i = local[w].i + 1
         /\ local'[w].epoch <= slots[local[w].i].epoch /\ local'[w].epoch <= local[w].epoch
<1> DEFINE e == slots[local[w].i].epoch
           b == IF e < local[w].epoch THEN e ELSE local[w].epoch
           a == [local[w] EXCEPT !.i = local[w].i + 1]
           c == [a EXCEPT !.epoch = b]
<1>1. local[w] \in Locals /\ e \in Nat /\ local[w].epoch \in Nat
  BY Zenon DEF EType, Locals
<1>2. a \in Locals /\ a.i = local[w].i + 1 /\ a.epoch = local[w].epoch
      /\ a.doomed = local[w].doomed /\ a.version = local[w].version /\ a.count = local[w].count
  BY <1>1, NextSlot, Zenon
<1>3. local' = [local EXCEPT ![w] = c] /\ wpc' = [wpc EXCEPT ![w] = "minscan"]
  <2>1. local' = [local EXCEPT ![w] =
          [a EXCEPT !.epoch = IF e < a.epoch THEN e ELSE a.epoch]]
    BY <1>1, Zenon DEF MinEpoch
  <2>2. (IF e < a.epoch THEN e ELSE a.epoch) = b
    BY <1>2, Zenon
  <2> HIDE DEF a, b, e
  <2> QED BY <2>1, <2>2, Zenon DEF MinEpoch, WGoto
<1>4. b \in Nat /\ b <= e /\ b <= local[w].epoch
  BY <1>1
<1> HIDE DEF a, b
<1>5. c \in Locals /\ c.i = local[w].i + 1 /\ c.epoch = b
      /\ c.doomed = local[w].doomed /\ c.version = local[w].version /\ c.count = local[w].count
  BY <1>2, <1>4, Zenon DEF Locals
<1> HIDE DEF c
<1>6. LocalTyped /\ Elsewhere(w) /\ local'[w] = c /\ wpc'[w] = "minscan"
  BY <1>3, <1>5, LocalStep, Zenon DEF WPlaces
<1> QED BY <1>4, <1>5, <1>6, Zenon DEF Stay

(* A reclaim takes what it is going to delete. *)
LEMMA CollectFields ==
  ASSUME EType, NEW w \in Writers, Collect(w)
  PROVE  /\ LocalTyped /\ Elsewhere(w) /\ wpc'[w] = "delete" /\ Stay(w, {"count"})
         /\ local'[w].doomed = {d.version : d \in {d \in retired : d.epoch < local[w].epoch}}
<1> DEFINE old == {d \in retired : d.epoch < local[w].epoch}
           v == {d.version : d \in old}
           l == [local[w] EXCEPT !.doomed = v]
<1>1. v \in SUBSET Nat
  BY DEF EType
<1>2. local' = [local EXCEPT ![w] = l] /\ wpc' = [wpc EXCEPT ![w] = "delete"]
  BY Zenon DEF Collect, WGoto
<1> HIDE DEF v
<1>3. l \in Locals /\ l.doomed = v /\ l.count = local[w].count
  BY <1>1, ZenonT(30) DEF EType, Locals
<1> HIDE DEF l
<1>4. LocalTyped /\ Elsewhere(w) /\ local'[w] = l /\ wpc'[w] = "delete"
  BY <1>2, <1>3, LocalStep, Zenon DEF WPlaces
<1> QED BY <1>3, <1>4, Zenon DEF Stay, v

(* One deleter runs. *)
LEMMA DeleteFields ==
  ASSUME EType, NEW w \in Writers, Delete(w)
  PROVE  \E v \in local[w].doomed :
           /\ freed' = freed \cup {v}
           /\ LocalTyped /\ Elsewhere(w) /\ wpc' = wpc /\ Stay(w, {"count"})
           /\ local'[w].doomed = local[w].doomed \ {v}
<1>1. PICK v \in local[w].doomed :
        freed' = freed \cup {v} /\ local' = [local EXCEPT ![w].doomed = @ \ {v}]
  BY Zenon DEF Delete
<1> DEFINE l == [local[w] EXCEPT !.doomed = local[w].doomed \ {v}]
<1>2. local' = [local EXCEPT ![w] = l]
  BY <1>1, Zenon
<1>3. l \in Locals /\ l.doomed = local[w].doomed \ {v} /\ l.count = local[w].count
  BY ZenonT(30) DEF EType, Locals
<1> HIDE DEF l
<1>4. wpc[w] \in WPlaces /\ wpc' = [wpc EXCEPT ![w] = wpc[w]] /\ wpc' = wpc
  BY Zenon DEF EType, Delete
<1>5. LocalTyped /\ Elsewhere(w) /\ local'[w] = l
  BY <1>2, <1>3, <1>4, LocalStep, Zenon, SMT
<1> QED BY <1>1, <1>3, <1>4, <1>5, Zenon DEF Stay

-----------------------------------------------------------------------------
(* What a reader's step does to its store buffer. *)

(* What a reader has issued so far stays in front of what it issues next: *)
(* the store buffer of a thread is first in, first out.                  *)
LEMMA Concatenation ==
  ASSUME NEW S, NEW b \in Seq(S), NEW t \in Seq(S)
  PROVE  /\ b \o t \in Seq(S) /\ Len(b \o t) = Len(b) + Len(t)
         /\ \A k \in 1 .. Len(b) + Len(t) :
              (b \o t)[k] = IF k <= Len(b) THEN b[k] ELSE t[k - Len(b)]
<1>1. b \o t \in Seq(S) /\ Len(b \o t) = Len(b) + Len(t)
  OBVIOUS
<1>2. \A k \in 1 .. Len(b) + Len(t) : (b \o t)[k] = IF k <= Len(b) THEN b[k] ELSE t[k - Len(b)]
  OBVIOUS
<1> QED BY <1>1, <1>2, Zenon

(* One store is appended to a buffer (exit_critical_section). *)
LEMMA IssueOne ==
  ASSUME NEW S, NEW b \in Seq(S), NEW x \in S
  PROVE  LET c == b \o <<x>> IN
           /\ c \in Seq(S) /\ Len(c) = Len(b) + 1 /\ c[Len(b) + 1] = x
           /\ \A k \in 1 .. Len(b) : c[k] = b[k]
<1> DEFINE t == <<x>>
<1>1. t \in Seq(S) /\ Len(t) = 1 /\ t[1] = x
  OBVIOUS
<1> HIDE DEF t
<1>2. /\ b \o t \in Seq(S) /\ Len(b \o t) = Len(b) + 1
      /\ \A k \in 1 .. Len(b) : (b \o t)[k] = b[k]
  <2>1. b \o t \in Seq(S) /\ Len(b \o t) = Len(b) + Len(t)
    BY <1>1, Concatenation, Zenon
  <2>2. \A k \in 1 .. Len(b) + Len(t) : (b \o t)[k] = IF k <= Len(b) THEN b[k] ELSE t[k - Len(b)]
    BY <1>1, Concatenation, Zenon
  <2> QED BY <1>1, <2>1, <2>2
<1>3. (b \o t)[Len(b) + 1] = x
  <2>1. \A k \in 1 .. Len(b) + Len(t) : (b \o t)[k] = IF k <= Len(b) THEN b[k] ELSE t[k - Len(b)]
    BY <1>1, Concatenation, Zenon
  <2>2. Len(b) \in Nat
    OBVIOUS
  <2>3. /\ Len(b) + 1 \in 1 .. Len(b) + Len(t) /\ ~ (Len(b) + 1 <= Len(b))
        /\ (Len(b) + 1) - Len(b) = 1
    BY <1>1, <2>2
  <2>4. (b \o t)[Len(b) + 1] = t[(Len(b) + 1) - Len(b)]
    BY <2>1, <2>3, Zenon
  <2> QED BY <1>1, <2>3, <2>4, Zenon
<1> QED BY <1>2, <1>3, Zenon DEF t

(* Two stores are appended to a buffer (enter_critical_section). *)
LEMMA IssueTwo ==
  ASSUME NEW S, NEW b \in Seq(S), NEW x \in S, NEW y \in S
  PROVE  LET c == b \o <<x, y>> IN
           /\ c \in Seq(S) /\ Len(c) = Len(b) + 2 /\ c[Len(b) + 1] = x /\ c[Len(b) + 2] = y
           /\ \A k \in 1 .. Len(b) : c[k] = b[k]
<1> DEFINE t == <<x, y>>
<1>1. t \in Seq(S) /\ Len(t) = 2 /\ t[1] = x /\ t[2] = y
  OBVIOUS
<1> HIDE DEF t
<1>2. /\ b \o t \in Seq(S) /\ Len(b \o t) = Len(b) + 2
      /\ \A k \in 1 .. Len(b) : (b \o t)[k] = b[k]
  <2>1. b \o t \in Seq(S) /\ Len(b \o t) = Len(b) + Len(t)
    BY <1>1, Concatenation, Zenon
  <2>2. \A k \in 1 .. Len(b) + Len(t) : (b \o t)[k] = IF k <= Len(b) THEN b[k] ELSE t[k - Len(b)]
    BY <1>1, Concatenation, Zenon
  <2> QED BY <1>1, <2>1, <2>2
<1>3. (b \o t)[Len(b) + 1] = x /\ (b \o t)[Len(b) + 2] = y
  <2>1. \A k \in 1 .. Len(b) + Len(t) : (b \o t)[k] = IF k <= Len(b) THEN b[k] ELSE t[k - Len(b)]
    BY <1>1, Concatenation, Zenon
  <2>2. Len(b) \in Nat
    OBVIOUS
  <2>3. /\ Len(b) + 1 \in 1 .. Len(b) + Len(t) /\ ~ (Len(b) + 1 <= Len(b))
        /\ Len(b) + 2 \in 1 .. Len(b) + Len(t) /\ ~ (Len(b) + 2 <= Len(b))
        /\ (Len(b) + 1) - Len(b) = 1 /\ (Len(b) + 2) - Len(b) = 2
    BY <1>1, <2>2
  <2>4. (b \o t)[Len(b) + 1] = t[(Len(b) + 1) - Len(b)]
    BY <2>1, <2>3, Zenon
  <2>5. (b \o t)[Len(b) + 2] = t[(Len(b) + 2) - Len(b)]
    BY <2>1, <2>3, Zenon
  <2> QED BY <1>1, <2>3, <2>4, <2>5, Zenon
<1> QED BY <1>2, <1>3, Zenon DEF t

(* What enter, exit and unregister_thread store *)
LEMMA StoresTyped ==
  ASSUME NEW s \in SlotIds
  PROVE  /\ \A e \in Nat : <<s, "epoch", e>> \in Stores
         /\ <<s, "active", TRUE>> \in Stores /\ <<s, "active", FALSE>> \in Stores
  BY Zenon DEF Stores

(* A reader's own slot is all it stores to. *)
OwnStores(r) ==
  /\ buffer' \in [Readers -> Seq(Stores)]
  /\ \A q \in Readers \ {r} : buffer'[q] = buffer[q]
  /\ \A k \in DOMAIN buffer'[r] :
       buffer'[r][k][1] = slot[r] \/ (k \in DOMAIN buffer[r] /\ buffer'[r][k] = buffer[r][k])

(* exit *)
LEMMA IssueOneFields ==
  ASSUME EType, NEW r \in Readers, NEW x \in Stores, x[1] = slot[r], Issue(r, <<x>>)
  PROVE  OwnStores(r)
<1> DEFINE b == buffer[r]
           c == b \o <<x>>
<1>1. b \in Seq(Stores) /\ DOMAIN buffer = Readers /\ Len(b) \in Nat /\ DOMAIN b = 1 .. Len(b)
  BY DEF EType
<1> HIDE DEF b
<1>2. c \in Seq(Stores) /\ Len(c) = Len(b) + 1 /\ c[Len(b) + 1] = x
      /\ \A k \in 1 .. Len(b) : c[k] = b[k]
  BY <1>1, IssueOne
<1>3. buffer' = [buffer EXCEPT ![r] = c]
  BY Zenon DEF Issue, b
<1> HIDE DEF c
<1>4. \A k \in DOMAIN c : c[k][1] = slot[r] \/ (k \in DOMAIN b /\ c[k] = b[k])
  BY <1>1, <1>2
<1>5. buffer' \in [Readers -> Seq(Stores)]
  BY <1>2, <1>3, Zenon DEF EType
<1>6. buffer'[r] = c /\ \A q \in Readers \ {r} : buffer'[q] = buffer[q]
  BY <1>1, <1>3, Zenon
<1> QED BY <1>4, <1>5, <1>6, Zenon DEF OwnStores, b

(* enter and unregister_thread *)
LEMMA IssueTwoFields ==
  ASSUME EType, NEW r \in Readers, NEW x \in Stores, NEW y \in Stores, x[1] = slot[r], y[1] = slot[r],
         Issue(r, <<x, y>>)
  PROVE  /\ OwnStores(r)
         /\ Len(buffer'[r]) = Len(buffer[r]) + 2
         /\ buffer'[r][Len(buffer[r]) + 1] = x /\ buffer'[r][Len(buffer[r]) + 2] = y
<1> DEFINE b == buffer[r]
           c == b \o <<x, y>>
<1>1. b \in Seq(Stores) /\ DOMAIN buffer = Readers /\ Len(b) \in Nat /\ DOMAIN b = 1 .. Len(b)
  BY DEF EType
<1> HIDE DEF b
<1>2. c \in Seq(Stores) /\ Len(c) = Len(b) + 2 /\ c[Len(b) + 1] = x /\ c[Len(b) + 2] = y
      /\ \A k \in 1 .. Len(b) : c[k] = b[k]
  BY <1>1, IssueTwo
<1>3. buffer' = [buffer EXCEPT ![r] = c]
  BY Zenon DEF Issue, b
<1> HIDE DEF c
<1>4. \A k \in DOMAIN c : c[k][1] = slot[r] \/ (k \in DOMAIN b /\ c[k] = b[k])
  BY <1>1, <1>2
<1>5. buffer' \in [Readers -> Seq(Stores)]
  BY <1>2, <1>3, Zenon DEF EType
<1>6. buffer'[r] = c /\ \A q \in Readers \ {r} : buffer'[q] = buffer[q]
  BY <1>1, <1>3, Zenon
<1> QED BY <1>2, <1>4, <1>5, <1>6, Zenon DEF OwnStores, b

(* A store becomes visible in the slot it is for. *)
LEMMA DrainFields ==
  ASSUME EType, NEW r \in Readers, Drain(r)
  PROVE  /\ buffer[r] \in Seq(Stores) /\ Len(buffer[r]) > 0
         /\ buffer' \in [Readers -> Seq(Stores)] /\ Len(buffer'[r]) = Len(buffer[r]) - 1
         /\ \A k \in 1 .. Len(buffer[r]) - 1 : buffer'[r][k] = buffer[r][k + 1]
         /\ \A q \in Readers \ {r} : buffer'[q] = buffer[q]
         /\ buffer[r][1][1] \in SlotIds
         /\ slots' = [s \in SlotIds |-> slots'[s]]
         /\ \A s \in SlotIds : DOMAIN slots'[s] = {"epoch", "active"} /\ slots'[s].epoch \in Nat
         /\ \A s \in SlotIds : s # buffer[r][1][1] => slots'[s] = slots[s]
         /\ \A s \in SlotIds : \A e : buffer[r][1] = <<s, "epoch", e>> =>
              slots'[s].epoch = e /\ slots'[s].active = slots[s].active
         /\ \A s \in SlotIds : \A v : buffer[r][1] = <<s, "active", v>> =>
              slots'[s].epoch = slots[s].epoch /\ slots'[s].active = v
<1> DEFINE b == buffer[r]
           t == Head(b)
           x == slots[t[1]]
           y == IF t[2] = "epoch" THEN [x EXCEPT !.epoch = t[3]] ELSE [x EXCEPT !.active = t[3]]
<1>1. b \in Seq(Stores) /\ b # << >> /\ DOMAIN buffer = Readers
  BY Zenon DEF EType, Drain
<1>2. /\ Len(b) \in Nat /\ Len(b) > 0 /\ t = b[1] /\ t \in Stores
      /\ Tail(b) \in Seq(Stores) /\ Len(Tail(b)) = Len(b) - 1
      /\ \A k \in 1 .. Len(b) - 1 : Tail(b)[k] = b[k + 1]
  BY <1>1
<1>3. slots' = [slots EXCEPT ![t[1]] = y] /\ buffer' = [buffer EXCEPT ![r] = Tail(b)]
  BY Zenon DEF Drain
<1>4. t[1] \in SlotIds /\ (t[2] = "epoch" => t[3] \in Nat)
  BY <1>2, Zenon DEF Stores
<1>5. DOMAIN x = {"epoch", "active"} /\ x.epoch \in Nat
  BY <1>4, Zenon DEF EType
<1> HIDE DEF t, x, b
<1>6. /\ DOMAIN y = {"epoch", "active"} /\ y.epoch \in Nat
      /\ t[2] = "epoch" => y.epoch = t[3] /\ y.active = x.active
      /\ t[2] # "epoch" => y.epoch = x.epoch /\ y.active = t[3]
  BY <1>4, <1>5, Zenon
<1> HIDE DEF y
<1>7. DOMAIN slots = SlotIds
  BY Zenon DEF EType
<1>8. slots'[t[1]] = y /\ \A s \in SlotIds : s # t[1] => slots'[s] = slots[s]
  BY <1>3, <1>4, <1>7, Zenon
<1>9. slots' = [s \in SlotIds |-> slots'[s]]
  BY <1>3, <1>7, Zenon
<1>10. \A s \in SlotIds : DOMAIN slots'[s] = {"epoch", "active"} /\ slots'[s].epoch \in Nat
  BY <1>6, <1>8, Zenon DEF EType
<1>11. \A s \in SlotIds : \A e : t = <<s, "epoch", e>> =>
              slots'[s].epoch = e /\ slots'[s].active = slots[s].active
  BY <1>6, <1>8 DEF x
<1>12. \A s \in SlotIds : \A v : t = <<s, "active", v>> =>
              slots'[s].epoch = slots[s].epoch /\ slots'[s].active = v
  BY <1>6, <1>8 DEF x
<1>13. buffer' \in [Readers -> Seq(Stores)]
  BY <1>2, <1>3, Zenon DEF EType
<1>14. buffer'[r] = Tail(b) /\ \A q \in Readers \ {r} : buffer'[q] = buffer[q]
  BY <1>1, <1>3, Zenon
<1> QED BY <1>1, <1>2, <1>4, <1>8, <1>9, <1>10, <1>11, <1>12, <1>13, <1>14 DEF b

-----------------------------------------------------------------------------
(* EpochRcu as constructed. *)
LEMMA EInit == Init => EInv
<1> SUFFICES ASSUME Init PROVE EInv
  BY Zenon
<1>1. EType
  <2>1. slots = [s \in SlotIds |-> slots[s]]
        /\ \A s \in SlotIds : DOMAIN slots[s] = {"epoch", "active"} /\ slots[s].epoch \in Nat
    BY Zenon DEF Init
  <2>2. buffer \in [Readers -> Seq(Stores)] /\ slot \in [Readers -> SlotIds \cup {NoSlot}]
    BY DEF Init
  <2>3. wpc \in [Writers -> WPlaces] /\ local \in [Writers -> Locals]
    BY NoLocalsTyped, Zenon DEF Init, WPlaces
  <2>4. rpc \in [Readers -> {"out", "enter", "in"}]
    BY Zenon DEF Init
  <2> QED BY <2>1, <2>2, <2>3, <2>4 DEF Init, EType, NoVersion
<1>2. Sections
  BY DEF Init, Sections
<1>3. Places
  BY NoLocalsTyped, Zenon DEF Init, Places, Retiring, InHands, RetiringOnly, ListedOnly, DoomedOnly
<1>4. Ownership
  BY DEF Init, Ownership, Owns, SlotIds, NoSlot
<1>5. Announcements
  BY Zenon DEF Init, Announcements
<1>6. Bounds
  BY NoLocalsTyped, BoundsAssumption DEF Init, Bounds, ScanBounds, Scanning
<1>7. Quiet
  BY Zenon DEF Init, Quiet, Loaded
<1> QED BY <1>1, <1>2, <1>3, <1>4, <1>5, <1>6, <1>7, Zenon DEF EInv

(* A writer's step leaves the readers alone and keeps the types. *)
LEMMA WriterType ==
  ASSUME EType, Bounds, NEW w \in Writers, WriterStep(w)
  PROVE  EType' /\ Elsewhere(w) /\ UNCHANGED <<reader, slots, allocated>>
<1>1. UNCHANGED <<reader, slots, allocated>>
  BY Zenon DEF WriterStep, Unlink, RetireLoad, RetirePush, AdvanceLoad, AdvanceScan, AdvanceEpoch,
     AdvanceAdd, MinLoad, MinScan, MinEpoch, Collect, Delete, ReclaimReturn, shared
<1>2. LocalTyped /\ Elsewhere(w)
  <2>1. ASSUME MinEpoch(w) PROVE local[w].i \in SlotIds
    BY <2>1, BoundsAssumption, SMTT(30), Zenon DEF MinEpoch, Bounds, ScanBounds, EType, Locals, SlotIds
  <2> QED BY <2>1, UnlinkFields, RetireLoadFields, DoneFields, AdvanceLoadFields, ScanFields,
             AdvanceEpochFields, AdvanceAddFields, MinLoadFields, MinEpochFields, CollectFields,
             DeleteFields, ZenonT(30), SMT DEF WriterStep
<1>3. global_epoch' \in Nat /\ current' \in Nat \ {0}
  <2>1. \/ global_epoch' = global_epoch /\ current' = current
        \/ global_epoch' = global_epoch + 1 /\ current' = current
        \/ global_epoch' = global_epoch /\ current' = current + 1
    BY Zenon DEF WriterStep, Unlink, RetireLoad, RetirePush, AdvanceLoad, AdvanceScan, AdvanceEpoch,
       AdvanceAdd, MinLoad, MinScan, MinEpoch, Collect, Delete, ReclaimReturn, shared
  <2> QED BY <2>1 DEF EType
<1>4. retired' \in SUBSET [epoch : Nat, version : Nat]
  <2>1. CASE RetirePush(w)
    BY <2>1 DEF RetirePush, EType, Locals
  <2>2. CASE ~ RetirePush(w)
    <3>1. retired' \subseteq retired
      BY <2>2, Zenon DEF WriterStep, Unlink, RetireLoad, AdvanceLoad, AdvanceScan, AdvanceEpoch,
         AdvanceAdd, MinLoad, MinScan, MinEpoch, Collect, Delete, ReclaimReturn, shared
    <3> QED BY <3>1, Zenon DEF EType
  <2> QED BY <2>1, <2>2, Zenon
<1> QED BY <1>1, <1>2, <1>3, <1>4, Zenon DEF EType, LocalTyped, reader

(* A reader's step leaves the writers alone and keeps the types. *)
LEMMA ReaderType ==
  ASSUME EType, Sections, NEW r \in Readers, ReaderStep(r)
  PROVE  EType' /\ UNCHANGED <<writer, global_epoch, retired, current, freed>>
<1>1. UNCHANGED <<writer, global_epoch, retired, current, freed>>
  BY Zenon DEF ReaderStep, Register, Unregister, EnterLoad, EnterStore, Read, Exit, Drain, shared
<1>2. wpc' = wpc /\ local' = local
  BY <1>1, Zenon DEF writer
<1>3. ASSUME slot[r] # NoSlot PROVE slot[r] \in SlotIds
  BY <1>3, Zenon DEF EType
<1>4. CASE Register(r)
  <2>0. (IF allocated >= MaxSlots THEN 0 ELSE allocated) \in SlotIds
    BY BoundsAssumption, SMTT(30), Zenon DEF EType, SlotIds
  <2>1. slot' \in [Readers -> SlotIds \cup {NoSlot}] /\ allocated' \in Nat
    <3>1. slot \in [Readers -> SlotIds \cup {NoSlot}] /\ allocated \in Nat
      BY Zenon DEF EType
    <3> QED BY <1>4, <2>0, <3>1 DEF Register
  <2> QED BY <1>1, <1>2, <1>4, <2>1, Zenon DEF Register, EType
<1>5. CASE Unregister(r)
  <2>1. OwnStores(r)
    <3> DEFINE x == <<slot[r], "active", FALSE>>
               y == <<slot[r], "epoch", 0>>
    <3>1. x \in Stores /\ y \in Stores /\ x[1] = slot[r] /\ y[1] = slot[r]
      BY <1>3, <1>5, StoresTyped, Zenon DEF Unregister
    <3>2. Issue(r, <<x, y>>)
      BY <1>5, Zenon DEF Unregister
    <3> HIDE DEF x, y
    <3> QED BY <3>1, <3>2, IssueTwoFields, Zenon
  <2>2. slot' \in [Readers -> SlotIds \cup {NoSlot}]
    BY <1>5, Zenon DEF Unregister, EType
  <2> QED BY <1>1, <1>2, <1>5, <2>1, <2>2, Zenon DEF Unregister, EType, OwnStores, shared
<1>6. CASE EnterLoad(r)
  <2>1. repoch' \in [Readers -> Nat] /\ rpc' \in [Readers -> {"out", "enter", "in"}]
    BY <1>6, Zenon DEF EnterLoad, EType
  <2> QED BY <1>1, <1>2, <1>6, <2>1, Zenon DEF EnterLoad, EType, shared
<1>7. CASE EnterStore(r)
  <2>1. slot[r] # NoSlot /\ repoch[r] \in Nat
    BY <1>7, Zenon DEF EnterStore, Sections, EType
  <2>2. OwnStores(r)
    <3> DEFINE x == <<slot[r], "epoch", repoch[r]>>
               y == <<slot[r], "active", TRUE>>
    <3>1. x \in Stores /\ y \in Stores /\ x[1] = slot[r] /\ y[1] = slot[r]
      BY <1>3, <2>1, StoresTyped, Zenon
    <3>2. Issue(r, <<x, y>>)
      BY <1>7, Zenon DEF EnterStore
    <3> HIDE DEF x, y
    <3> QED BY <3>1, <3>2, IssueTwoFields, Zenon
  <2>3. rpc' \in [Readers -> {"out", "enter", "in"}]
    BY <1>7, Zenon DEF EnterStore, EType
  <2> QED BY <1>1, <1>2, <1>7, <2>2, <2>3, Zenon DEF EnterStore, EType, OwnStores, shared
<1>8. CASE Read(r)
  <2>1. held' \in [Readers -> Nat]
    BY <1>8, Zenon DEF Read, EType
  <2> QED BY <1>1, <1>2, <1>8, <2>1, Zenon DEF Read, EType, shared
<1>9. CASE Exit(r)
  <2>1. slot[r] # NoSlot
    BY <1>9, Zenon DEF Exit, Sections
  <2>2. OwnStores(r)
    BY <1>3, <1>9, <2>1, IssueOneFields, StoresTyped, Zenon DEF Exit
  <2>3. held' \in [Readers -> Nat] /\ rpc' \in [Readers -> {"out", "enter", "in"}]
    BY <1>9, Zenon DEF Exit, EType, NoVersion
  <2> QED BY <1>1, <1>2, <1>9, <2>2, <2>3, Zenon DEF Exit, EType, OwnStores, shared
<1>10. CASE Drain(r)
  <2>1. slots' = [s \in SlotIds |-> slots'[s]] /\ buffer' \in [Readers -> Seq(Stores)]
        /\ \A s \in SlotIds : DOMAIN slots'[s] = {"epoch", "active"} /\ slots'[s].epoch \in Nat
    BY <1>10, DrainFields, Zenon
  <2> QED BY <1>1, <1>2, <1>10, <2>1, Zenon DEF Drain, EType
<1> QED BY <1>4, <1>5, <1>6, <1>7, <1>8, <1>9, <1>10, Zenon DEF ReaderStep

-----------------------------------------------------------------------------
(* The epoch only moves forward. *)
LEMMA EpochGrows ==
  ASSUME EType, NEW w \in Writers, WriterStep(w)
  PROVE  global_epoch' >= global_epoch
<1>1. global_epoch' = global_epoch \/ global_epoch' = global_epoch + 1
  BY Zenon DEF WriterStep, Unlink, RetireLoad, RetirePush, AdvanceLoad, AdvanceScan, AdvanceEpoch,
     AdvanceAdd, MinLoad, MinScan, MinEpoch, Collect, Delete, ReclaimReturn, shared
<1> QED BY <1>1 DEF EType

(* Sections are entered with a slot and left before it is given up. *)
LEMMA SectionsKeeps ==
  ASSUME EType, Bounds, Sections,
         (\E r \in Readers : ReaderStep(r)) \/ (\E w \in Writers : WriterStep(w))
  PROVE  Sections'
<1>1. ASSUME NEW w \in Writers, WriterStep(w) PROVE Sections'
  <2>1. UNCHANGED reader /\ global_epoch' >= global_epoch /\ global_epoch' \in Nat
    BY <1>1, WriterType, EpochGrows, Zenon DEF EType
  <2> QED BY <2>1 DEF Sections, reader, EType
<1>2. ASSUME NEW r \in Readers, ReaderStep(r) PROVE Sections'
  <2>1. CASE Register(r) \/ Unregister(r)
    <3>1. UNCHANGED <<rpc, held, repoch, global_epoch>>
      BY <2>1, Zenon DEF Register, Unregister, shared
    <3>2. Register(r) => slot'[r] # NoSlot
      BY BoundsAssumption DEF Register, EType, NoSlot
    <3>3. \A q \in Readers \ {r} : slot'[q] = slot[q]
      BY <2>1, Zenon DEF Register, Unregister, EType
    <3> QED BY <2>1, <3>1, <3>2, <3>3, Zenon DEF Sections, Register, Unregister
  <2>2. CASE EnterLoad(r) \/ EnterStore(r) \/ Read(r) \/ Exit(r) \/ Drain(r)
    <3>1. UNCHANGED <<slot, global_epoch>>
      BY <2>2, Zenon DEF EnterLoad, EnterStore, Read, Exit, Drain, shared
    <3>2. \A q \in Readers \ {r} : rpc'[q] = rpc[q] /\ held'[q] = held[q] /\ repoch'[q] = repoch[q]
      BY <2>2, Zenon DEF EnterLoad, EnterStore, Read, Exit, Drain, EType
    <3>3. /\ rpc'[r] # "out" => slot[r] # NoSlot
          /\ held'[r] # NoVersion => rpc'[r] = "in"
          /\ repoch'[r] <= global_epoch
      BY <2>2 DEF EnterLoad, EnterStore, Read, Exit, Drain, EType, Sections
    <3> QED BY <3>1, <3>2, <3>3, Zenon DEF Sections
  <2> QED BY <1>2, <2>1, <2>2, Zenon DEF ReaderStep
<1> QED BY <1>1, <1>2, Zenon

(* A step that moves no version. *)
LEMMA PlacesFrame ==
  ASSUME Places, NEW w \in Writers, Elsewhere(w), UNCHANGED <<retired, current, freed>>,
         local'[w].doomed = local[w].doomed, wpc'[w] # "delete" => local[w].doomed = {},
         Retiring(w)' => Retiring(w) /\ local'[w].version = local[w].version
  PROVE  Places'
<1>1. \A u \in Writers : local'[u].doomed = local[u].doomed
  BY Zenon DEF Elsewhere
<1>2. \A u \in Writers : Retiring(u)' => Retiring(u) /\ local'[u].version = local[u].version
  BY Zenon DEF Elsewhere, Retiring
<1>3. InHands'
  BY <1>1, Zenon DEF InHands, Places, Elsewhere
<1>4. ListedOnly' /\ DoomedOnly' /\ \A v \in freed' : v \in Old(current')
  BY <1>1, Zenon DEF ListedOnly, DoomedOnly, Places
<1>5. RetiringOnly'
  BY <1>1, <1>2, Zenon DEF RetiringOnly, Places
<1> QED BY <1>3, <1>4, <1>5, Zenon DEF Places

(* A version stays in one place. *)
LEMMA PlacesKeeps ==
  ASSUME EType, Bounds, Places, Sections,
         (\E r \in Readers : ReaderStep(r)) \/ (\E w \in Writers : WriterStep(w))
  PROVE  Places'
<1>1. ASSUME NEW r \in Readers, ReaderStep(r) PROVE Places'
  <2>1. UNCHANGED <<wpc, local, retired, current, freed>>
    BY <1>1, ReaderType, Zenon DEF writer
  <2> QED BY <2>1, Zenon DEF Places, Retiring, InHands, RetiringOnly, ListedOnly, DoomedOnly, Old
<1>2. ASSUME NEW w \in Writers, WriterStep(w) PROVE Places'
  <2>0. Elsewhere(w) /\ EType'
    BY <1>2, WriterType, Zenon
  <2>1. CASE Unlink(w)
    <3>1. /\ wpc[w] = "idle" /\ wpc'[w] = "retire" /\ local'[w].version = current
          /\ local'[w].doomed = local[w].doomed
          /\ current' = current + 1 /\ UNCHANGED <<retired, freed>>
      BY <2>1, UnlinkFields, Zenon DEF Unlink, Stay
    <3>2. \A u \in Writers : local'[u].doomed = local[u].doomed
      BY <2>0, <3>1, Zenon DEF Elsewhere
    <3>3. \A v : v \in Old(current) => v \in Old(current') /\ v # current
      BY <3>1 DEF Old, EType
    <3>4. current \in Old(current')
      BY <3>1 DEF Old, EType
    <3>5. InHands'
      BY <2>0, <3>1, Zenon DEF InHands, Places, Elsewhere
    <3>6. ListedOnly' /\ DoomedOnly' /\ \A v \in freed' : v \in Old(current')
      BY <3>1, <3>2, <3>3, Zenon DEF ListedOnly, DoomedOnly, Places
    <3>7. RetiringOnly'
      <4> SUFFICES ASSUME NEW u \in Writers, Retiring(u)'
                   PROVE  /\ local'[u].version \in Old(current') /\ local'[u].version \notin freed'
                          /\ \A d \in retired' : d.version # local'[u].version
                          /\ \A x \in Writers : local'[u].version \notin local'[x].doomed
                          /\ \A x \in Writers : Retiring(x)' /\ local'[x].version = local'[u].version => x = u
        BY Zenon DEF RetiringOnly
      <4>1. \A x \in Writers \ {w} : local'[x] = local[x] /\ (Retiring(x)' <=> Retiring(x))
        BY <2>0, Zenon DEF Elsewhere, Retiring
      <4>2. \A x \in Writers \ {w} : Retiring(x) => local[x].version \in Old(current)
        BY Zenon DEF Places, RetiringOnly
      <4>3. CASE u = w
        <5>1. local'[u].version = current
          BY <3>1, <4>3, Zenon
        <5>2. \A x \in Writers : current \notin local'[x].doomed
          BY <3>2, <3>3, Zenon DEF Places, DoomedOnly
        <5>3. (\A d \in retired' : d.version # current) /\ current \notin freed'
          BY <3>1, <3>3, Zenon DEF Places, ListedOnly
        <5> QED BY <3>3, <3>4, <4>1, <4>2, <4>3, <5>1, <5>2, <5>3, Zenon
      <4>4. CASE u # w
        BY <3>1, <3>2, <3>3, <4>1, <4>2, <4>4 DEF Places, RetiringOnly
      <4> QED BY <4>3, <4>4, Zenon
    <3> QED BY <3>5, <3>6, <3>7, Zenon DEF Places
  <2>2. CASE \/ RetireLoad(w) \/ ReclaimReturn(w) \/ AdvanceScan(w) \/ AdvanceEpoch(w)
             \/ AdvanceAdd(w) \/ MinLoad(w) \/ MinScan(w) \/ MinEpoch(w)
             \/ \E call \in {"advance", "reclaim"} : AdvanceLoad(w, call)
    <3>1. UNCHANGED <<retired, current, freed>>
      BY <2>2, Zenon DEF RetireLoad, AdvanceLoad, AdvanceScan, AdvanceEpoch,
         AdvanceAdd, MinLoad, MinScan, MinEpoch, ReclaimReturn, shared
    <3>2. ~ ReclaimReturn(w) => wpc[w] # "delete"
      BY <2>2, Zenon DEF RetireLoad, AdvanceLoad, AdvanceScan, AdvanceEpoch,
         AdvanceAdd, MinLoad, MinScan, MinEpoch
    <3>3. local[w].doomed = {}
      BY <3>2, Zenon DEF ReclaimReturn, Places, InHands
    <3>4. ASSUME MinEpoch(w) PROVE local[w].i \in SlotIds
      BY <3>4, BoundsAssumption, SMTT(30), Zenon DEF MinEpoch, Bounds, ScanBounds, EType, Locals, SlotIds
    <3>5. /\ local'[w].doomed = local[w].doomed
          /\ Retiring(w)' => Retiring(w) /\ local'[w].version = local[w].version
      <4>1. CASE RetireLoad(w)
        BY <4>1, RetireLoadFields, Zenon DEF RetireLoad, Retiring, Stay
      <4>2. CASE ReclaimReturn(w)
        BY <3>3, <4>2, DoneFields, Zenon DEF Retiring
      <4>3. CASE AdvanceScan(w) \/ MinScan(w)
        BY <4>3, ScanFields, Zenon DEF AdvanceScan, MinScan, Retiring, Stay
      <4>4. CASE AdvanceEpoch(w) \/ AdvanceAdd(w)
        BY <4>4, AdvanceEpochFields, AdvanceAddFields, Zenon DEF Retiring, Stay
      <4>5. CASE MinLoad(w) \/ MinEpoch(w)
        BY <3>4, <4>5, MinLoadFields, MinEpochFields, Zenon DEF Retiring, Stay
      <4>6. CASE \E call \in {"advance", "reclaim"} : AdvanceLoad(w, call)
        BY <3>3, <4>6, AdvanceLoadFields, Zenon DEF Retiring
      <4> QED BY <2>2, <4>1, <4>2, <4>3, <4>4, <4>5, <4>6, Zenon
    <3> QED BY <2>0, <3>1, <3>3, <3>5, PlacesFrame, Zenon
  <2>3. CASE RetirePush(w)
    <3> DEFINE d == [epoch |-> local[w].epoch, version |-> local[w].version]
    <3>1. /\ Retiring(w) /\ wpc[w] = "push" /\ UNCHANGED <<current, freed>>
          /\ retired' = retired \cup {d} /\ d.version = local[w].version
      BY <2>3, Zenon DEF RetirePush, Retiring
    <3>2. local'[w].doomed = {} /\ ~ Retiring(w)' /\ wpc'[w] = "idle"
      BY <2>3, DoneFields, Zenon DEF Retiring
    <3>3. \A u \in Writers : local'[u].doomed = local[u].doomed
      BY <2>0, <3>1, <3>2, Zenon DEF Elsewhere, Places, InHands
    <3>4. \A u \in Writers : Retiring(u)' => u # w /\ Retiring(u) /\ local'[u].version = local[u].version
      BY <2>0, <3>2, Zenon DEF Elsewhere, Retiring
    <3> HIDE DEF d
    <3>5. InHands'
      BY <2>0, <3>2, <3>3, Zenon DEF InHands, Places, Elsewhere
    <3>6. ListedOnly'
      <4>1. /\ d.version \in Old(current) /\ d.version \notin freed
            /\ \A u \in Writers : d.version \notin local[u].doomed
            /\ \A e \in retired : e.version # d.version
        BY <3>1, Zenon DEF Places, RetiringOnly
      <4> QED BY <3>1, <3>3, <4>1, Zenon DEF Places, ListedOnly
    <3>7. DoomedOnly' /\ \A v \in freed' : v \in Old(current')
      BY <3>1, <3>3, Zenon DEF DoomedOnly, Places
    <3>8. RetiringOnly'
      BY <3>1, <3>3, <3>4, ZenonT(30), SMT DEF RetiringOnly, Places
    <3> QED BY <3>5, <3>6, <3>7, <3>8, Zenon DEF Places
  <2>4. CASE Collect(w)
    <3> DEFINE old == {d \in retired : d.epoch < local[w].epoch}
    <3>1. /\ wpc[w] = "minscan" /\ wpc'[w] = "delete" /\ UNCHANGED <<current, freed>>
          /\ retired' = retired \ old /\ local'[w].doomed = {d.version : d \in old}
      BY <2>4, CollectFields, Zenon DEF Collect
    <3>2. \A u \in Writers : Retiring(u)' => u # w /\ Retiring(u) /\ local'[u].version = local[u].version
      BY <2>0, <3>1, Zenon DEF Elsewhere, Retiring
    <3>3. \A u \in Writers : u # w => local'[u].doomed = local[u].doomed
      BY <2>0, Zenon DEF Elsewhere
    <3>4. \A v \in local'[w].doomed : \E d \in retired : d.version = v /\ d \notin retired'
      BY <3>1, Zenon
    <3>5. retired' \subseteq retired
      BY <3>1, Zenon
    <3> HIDE DEF old
    <3>6. InHands'
      BY <2>0, <3>1, Zenon DEF InHands, Places, Elsewhere
    <3>7. ListedOnly'
      BY <3>1, <3>3, <3>4, <3>5 DEF ListedOnly, Places
    <3>8. DoomedOnly'
      BY <3>1, <3>3, <3>4 DEF DoomedOnly, ListedOnly, Places
    <3>9. RetiringOnly'
      <4> SUFFICES ASSUME NEW u \in Writers, Retiring(u)'
                   PROVE  /\ local'[u].version \in Old(current') /\ local'[u].version \notin freed'
                          /\ \A d \in retired' : d.version # local'[u].version
                          /\ \A x \in Writers : local'[u].version \notin local'[x].doomed
                          /\ \A x \in Writers : Retiring(x)' /\ local'[x].version = local'[u].version => x = u
        BY Zenon DEF RetiringOnly
      <4>1. Retiring(u) /\ local'[u].version = local[u].version
        BY <3>2, Zenon
      <4>2. /\ local[u].version \in Old(current) /\ local[u].version \notin freed
            /\ \A d \in retired : d.version # local[u].version
            /\ \A x \in Writers : local[u].version \notin local[x].doomed
            /\ \A x \in Writers : Retiring(x) /\ local[x].version = local[u].version => x = u
        BY <4>1, Zenon DEF RetiringOnly, Places
      <4>3. \A x \in Writers : local'[u].version \notin local'[x].doomed
        BY <3>3, <3>4, <4>1, <4>2, Zenon
      <4> QED BY <3>1, <3>2, <3>5, <4>1, <4>2, <4>3, Zenon
    <3> QED BY <3>1, <3>6, <3>7, <3>8, <3>9, Zenon DEF Places
  <2>5. CASE Delete(w)
    <3>1. PICK v \in local[w].doomed :
            /\ freed' = freed \cup {v} /\ wpc' = wpc /\ local'[w].doomed = local[w].doomed \ {v}
      BY <2>5, DeleteFields, Zenon
    <3>2. UNCHANGED <<current, retired>> /\ wpc[w] = "delete"
      BY <2>5, Zenon DEF Delete
    <3>3. \A u \in Writers : Retiring(u)' => u # w /\ Retiring(u) /\ local'[u].version = local[u].version
      BY <2>0, <3>1, <3>2, Zenon DEF Elsewhere, Retiring
    <3>4. \A u \in Writers : local'[u].doomed \subseteq local[u].doomed /\ v \notin local'[u].doomed
      BY <2>0, <3>1, Zenon DEF Elsewhere, Places, DoomedOnly
    <3>5. InHands'
      BY <3>1, <3>2, <3>4, Zenon DEF InHands, Places
    <3>6. ListedOnly'
      BY <3>1, <3>2, <3>4 DEF ListedOnly, Places
    <3>7. DoomedOnly' /\ \A x \in freed' : x \in Old(current')
      BY <3>1, <3>2, <3>4, SMTT(30) DEF DoomedOnly, Places
    <3>8. RetiringOnly'
      BY <3>1, <3>2, <3>3, <3>4 DEF RetiringOnly, Places
    <3> QED BY <3>5, <3>6, <3>7, <3>8, Zenon DEF Places
  <2> QED BY <1>2, <2>1, <2>2, <2>3, <2>4, <2>5, Zenon DEF WriterStep
<1> QED BY <1>1, <1>2, Zenon

-----------------------------------------------------------------------------
(* Which of a reader's variables its step may change. *)
LEMMA ReaderElsewhere ==
  ASSUME EType, Sections, NEW r \in Readers, ReaderStep(r)
  PROVE  \A q \in Readers \ {r} :
           /\ slot'[q] = slot[q] /\ buffer'[q] = buffer[q] /\ rpc'[q] = rpc[q]
           /\ repoch'[q] = repoch[q] /\ held'[q] = held[q]
  BY Zenon, SMT DEF ReaderStep, Register, Unregister, EnterLoad, EnterStore, Read, Exit, Drain, Issue, EType

(* The stores of enter, exit and unregister_thread *)
LEMMA StoresOwn ==
  ASSUME EType, Sections, NEW r \in Readers, Unregister(r) \/ EnterStore(r) \/ Exit(r)
  PROVE  OwnStores(r) /\ slot[r] \in SlotIds
<1>1. slot[r] \in SlotIds /\ repoch[r] \in Nat
  BY Zenon DEF Unregister, EnterStore, Exit, Sections, EType
<1> DEFINE x == <<slot[r], "active", FALSE>>
           y == <<slot[r], "epoch", 0>>
           u == <<slot[r], "epoch", repoch[r]>>
           v == <<slot[r], "active", TRUE>>
<1>2. x \in Stores /\ y \in Stores /\ u \in Stores /\ v \in Stores
      /\ x[1] = slot[r] /\ y[1] = slot[r] /\ u[1] = slot[r] /\ v[1] = slot[r]
  BY <1>1, StoresTyped, Zenon
<1>3. Issue(r, <<x>>) \/ Issue(r, <<x, y>>) \/ Issue(r, <<u, v>>)
  BY Zenon DEF Unregister, EnterStore, Exit
<1> HIDE DEF x, y, u, v
<1> QED BY <1>1, <1>2, <1>3, IssueOneFields, IssueTwoFields, Zenon

(* No step takes a slot that is another reader's. *)
LEMMA OwnershipKeeps ==
  ASSUME EType, Bounds, Sections, Ownership,
         (\E r \in Readers : ReaderStep(r)) \/ (\E w \in Writers : WriterStep(w))
  PROVE  Ownership'
<1>1. ASSUME NEW w \in Writers, WriterStep(w) PROVE Ownership'
  <2>1. UNCHANGED <<slot, buffer, allocated>>
    BY <1>1, WriterType, Zenon DEF reader
  <2> QED BY <2>1, ZenonT(30), SMT DEF Ownership, Owns
<1>2. ASSUME NEW r \in Readers, ReaderStep(r) PROVE Ownership'
  <2>1. \A q \in Readers \ {r}, s \in SlotIds : Owns(q, s)' => Owns(q, s)
    BY <1>2, ReaderElsewhere, Zenon, SMT DEF Owns
  <2>2. CASE Register(r)
    <3>1. allocated' = allocated + 1 /\ buffer' = buffer /\ allocated \in Nat
      BY <2>2, Zenon DEF Register, EType
    <3>2. allocated' <= MaxSlots => slot'[r] = allocated
      BY <2>2, <3>1, BoundsAssumption DEF Register, EType
    <3>3. ASSUME allocated' <= MaxSlots, NEW s \in SlotIds, Owns(r, s)'
          PROVE  s = allocated \/ Owns(r, s)
      BY <3>1, <3>2, <3>3 DEF Owns
    <3>4. allocated' <= MaxSlots => allocated <= MaxSlots
      BY <3>1, BoundsAssumption
    <3>5. \A s \in SlotIds : s < allocated => s < allocated' /\ s # allocated
      BY <3>1 DEF SlotIds
    <3>6. \A s \in SlotIds : s = allocated => s < allocated'
      BY <3>1
    <3> QED BY <2>1, <3>3, <3>4, <3>5, <3>6 DEF Ownership
  <2>3. CASE ~ Register(r)
    <3>1. allocated' = allocated
      BY <1>2, <2>3, Zenon DEF ReaderStep, Unregister, EnterLoad, EnterStore, Read, Exit, Drain, shared
    <3>2. ASSUME NEW s \in SlotIds, Owns(r, s)' PROVE Owns(r, s)
      <4>1. slot'[r] = s => slot[r] = s
        <5>1. CASE Unregister(r)
          <6>1. slot'[r] = NoSlot
            BY <5>1, Zenon DEF Unregister, EType
          <6> QED BY <6>1 DEF SlotIds, NoSlot
        <5>2. CASE ~ Unregister(r)
          BY <1>2, <2>3, <5>2, Zenon DEF ReaderStep, EnterLoad, EnterStore, Read, Exit, Drain
        <5> QED BY <5>1, <5>2, Zenon
      <4>2. CASE EnterLoad(r) \/ Read(r)
        BY <3>2, <4>1, <4>2 DEF EnterLoad, Read, Owns
      <4>3. CASE Unregister(r) \/ EnterStore(r) \/ Exit(r)
        BY <3>2, <4>1, <4>3, StoresOwn DEF OwnStores, Owns
      <4>4. CASE Drain(r)
        <5>1. /\ buffer[r] \in Seq(Stores) /\ buffer'[r] \in Seq(Stores)
              /\ Len(buffer'[r]) = Len(buffer[r]) - 1
              /\ \A k \in 1 .. Len(buffer[r]) - 1 : buffer'[r][k] = buffer[r][k + 1]
          BY <4>4, DrainFields, Zenon
        <5>2. \A k \in DOMAIN buffer'[r] : k + 1 \in DOMAIN buffer[r] /\ buffer'[r][k] = buffer[r][k + 1]
          <6>1. DOMAIN buffer[r] = 1 .. Len(buffer[r]) /\ Len(buffer[r]) \in Nat
            BY <5>1
          <6>2. DOMAIN buffer'[r] = 1 .. Len(buffer[r]) - 1
            BY <5>1
          <6>3. ASSUME NEW n \in Nat, NEW k \in 1 .. n - 1 PROVE k + 1 \in 1 .. n
            OBVIOUS
          <6> QED BY <5>1, <6>1, <6>2, <6>3, Zenon
        <5> QED BY <3>2, <4>1, <5>2 DEF Owns
      <4> QED BY <1>2, <2>3, <4>2, <4>3, <4>4, Zenon DEF ReaderStep
    <3> QED BY <2>1, <3>1, <3>2, Zenon DEF Ownership
  <2> QED BY <2>2, <2>3, Zenon
<1> QED BY <1>1, <1>2, Zenon

(* What a reader in its section announced becomes visible in order and is  *)
(* not overwritten.                                                        *)
LEMMA AnnouncementsKeep ==
  ASSUME EType, Bounds, Sections, Ownership, Announcements, Observe,
         (\E r \in Readers : ReaderStep(r)) \/ (\E w \in Writers : WriterStep(w))
  PROVE  Announcements'
<1>1. ~ overtook' => ~ overtook /\ \A r \in Readers :
        held[r] = NoVersion /\ held'[r] # NoVersion => buffer[r] = << >>
  BY Zenon DEF Observe
<1>2. ASSUME NEW w \in Writers, WriterStep(w) PROVE Announcements'
  <2>1. UNCHANGED <<reader, slots, allocated>>
    BY <1>2, WriterType, Zenon
  <2>2. \A q \in Readers : EpochMark(q)' = EpochMark(q) /\ ActiveMark(q)' = ActiveMark(q)
    BY <2>1, Zenon DEF EpochMark, ActiveMark, reader
  <2> QED BY <1>1, <2>1, <2>2, Zenon DEF Announcements, Announced, reader
<1>3. ASSUME NEW r \in Readers, ReaderStep(r), NEW q \in Readers
      PROVE  /\ allocated' <= MaxSlots /\ rpc'[q] = "in" => Announced(q)'
             /\ ~ overtook' /\ held'[q] # NoVersion => buffer'[q] = << >>
  <2>1. allocated' <= MaxSlots => allocated <= MaxSlots
    <3>1. allocated' = allocated \/ allocated' = allocated + 1
      BY <1>3, Zenon DEF ReaderStep, Register, Unregister, EnterLoad, EnterStore, Read, Exit, Drain, shared
    <3> QED BY <3>1, BoundsAssumption, SMTT(30) DEF EType
  <2>2. ~ Drain(r) => slots' = slots
    BY <1>3, Zenon DEF ReaderStep, Register, Unregister, EnterLoad, EnterStore, Read, Exit, shared
  <2>3. rpc[q] = "in" => slot[q] \in SlotIds
    BY Zenon DEF Sections, EType
  <2>4. CASE q # r
    <3>1. /\ slot'[q] = slot[q] /\ buffer'[q] = buffer[q] /\ rpc'[q] = rpc[q]
          /\ repoch'[q] = repoch[q] /\ held'[q] = held[q]
      BY <1>3, <2>4, ReaderElsewhere, Zenon
    <3>2. ASSUME allocated <= MaxSlots, rpc[q] = "in" PROVE slots'[slot[q]] = slots[slot[q]]
      <4>1. CASE Drain(r)
        <5> DEFINE s == buffer[r][1][1]
        <5>1. s \in SlotIds /\ 1 \in DOMAIN buffer[r] /\ \A x \in SlotIds : x # s => slots'[x] = slots[x]
          BY <4>1, DrainFields
        <5>2. Owns(r, s) /\ Owns(q, slot[q])
          BY <5>1, Zenon DEF Owns
        <5> HIDE DEF s
        <5> QED BY <2>3, <2>4, <3>2, <5>1, <5>2, Zenon, SMT DEF Ownership
      <4> QED BY <2>2, <4>1, Zenon
    <3>3. EpochMark(q)' = EpochMark(q) /\ ActiveMark(q)' = ActiveMark(q)
      BY <3>1, Zenon DEF EpochMark, ActiveMark
    <3>4. ASSUME allocated <= MaxSlots, rpc[q] = "in" PROVE Announced(q)'
      <4>1. Announced(q) /\ slots'[slot[q]] = slots[slot[q]]
        BY <3>2, <3>4, Zenon DEF Announcements
      <4> QED BY <3>1, <3>3, <4>1, Zenon DEF Announced
    <3> QED BY <1>1, <2>1, <3>1, <3>4, Zenon DEF Announcements
  <2>5. CASE q = r
    <3>1. CASE Register(r) \/ Unregister(r) \/ EnterLoad(r) \/ Exit(r)
      <4>1. rpc'[r] # "in" /\ held'[r] = NoVersion
        BY <3>1, Zenon DEF Register, Unregister, EnterLoad, Exit, Sections, EType
      <4> QED BY <2>5, <4>1, Zenon
    <3>2. CASE EnterStore(r)
      <4> DEFINE x == EpochMark(r)
                 y == ActiveMark(r)
      <4>0. x[1] = slot[r] /\ y[1] = slot[r]
        BY Zenon DEF EpochMark, ActiveMark
      <4>1. x \in Stores /\ y \in Stores /\ x[1] = slot[r] /\ y[1] = slot[r]
        BY <3>2, <4>0, StoresTyped, Zenon DEF EnterStore, Sections, EType, EpochMark, ActiveMark
      <4>2. Issue(r, <<x, y>>) /\ UNCHANGED <<slot, repoch, held>>
        BY <3>2, Zenon DEF EnterStore, EpochMark, ActiveMark
      <4> HIDE DEF x, y
      <4>3. /\ Len(buffer'[r]) = Len(buffer[r]) + 2
            /\ buffer'[r][Len(buffer[r]) + 1] = x /\ buffer'[r][Len(buffer[r]) + 2] = y
        BY <4>1, <4>2, IssueTwoFields, ZenonT(30), SMT
      <4>4. Len(buffer[r]) \in Nat
        BY DEF EType
      <4>5. /\ Len(buffer'[r]) > 1
            /\ buffer'[r][Len(buffer'[r]) - 1] = x /\ buffer'[r][Len(buffer'[r])] = y
        BY <4>3, <4>4
      <4>6. held[r] = NoVersion
        BY <3>2, Zenon DEF EnterStore, Sections
      <4>7. x = EpochMark(r)' /\ y = ActiveMark(r)'
        BY <4>2, Zenon DEF EpochMark, ActiveMark, x, y
      <4>8. Len(buffer'[r]) \in Nat
        BY <4>3, <4>4
      <4>9. Announced(r)'
        BY <4>5, <4>7, <4>8 DEF Announced
      <4> QED BY <2>5, <4>2, <4>6, <4>9, Zenon
    <3>3. CASE Read(r)
      <4>1. UNCHANGED <<slot, buffer, rpc, repoch, slots>> /\ held[r] = NoVersion
        BY <3>3, Zenon DEF Read, shared
      <4>2. EpochMark(r)' = EpochMark(r) /\ ActiveMark(r)' = ActiveMark(r)
        BY <4>1, Zenon DEF EpochMark, ActiveMark
      <4> QED BY <1>1, <2>1, <2>5, <4>1, <4>2, Zenon DEF Announcements, Announced
    <3>4. CASE Drain(r)
      <4>1. UNCHANGED <<slot, rpc, repoch, held>> /\ buffer[r] # << >>
        BY <3>4, Zenon DEF Drain
      <4>2. ASSUME allocated <= MaxSlots, rpc[r] = "in" PROVE Announced(r)'
        <5>1. Announced(r)
          BY <4>2, Zenon DEF Announcements
        <5>2. PICK n \in Nat : n = Len(buffer[r])
          <6>1. buffer[r] \in Seq(Stores)
            BY Zenon DEF EType
          <6> HIDE DEF Stores
          <6> QED BY <6>1
        <5>3. /\ n > 0 /\ Len(buffer'[r]) = n - 1
              /\ \A k \in 1 .. n - 1 : buffer'[r][k] = buffer[r][k + 1]
          BY <3>4, <5>2, DrainFields, Zenon
        <5>4. EpochMark(r)' = EpochMark(r) /\ ActiveMark(r)' = ActiveMark(r)
          BY <4>1, Zenon DEF EpochMark, ActiveMark
        <5>5. slot[r] \in SlotIds
          BY <2>3, <2>5, <4>2, Zenon
        <5>6. CASE n = 1
          <6>1. buffer[r][1] = ActiveMark(r) /\ slots[slot[r]].epoch = repoch[r]
            BY <5>1, <5>2, <5>6 DEF Announced
          <6>2. \A s \in SlotIds : \A v : buffer[r][1] = <<s, "active", v>> =>
                  slots'[s].epoch = slots[s].epoch /\ slots'[s].active = v
            BY <3>4, DrainFields, Zenon
          <6>3. slots'[slot[r]].epoch = repoch[r] /\ slots'[slot[r]].active = TRUE
            BY <5>5, <6>1, <6>2, Zenon DEF ActiveMark
          <6>4. Len(buffer'[r]) = 0
            BY <5>3, <5>6
          <6> QED BY <4>1, <6>3, <6>4 DEF Announced
        <5>7. CASE n = 2
          <6>1. buffer[r][1] = EpochMark(r) /\ buffer[r][2] = ActiveMark(r)
            BY <5>1, <5>2, <5>7 DEF Announced
          <6>2. \A s \in SlotIds : \A e : buffer[r][1] = <<s, "epoch", e>> => slots'[s].epoch = e
            BY <3>4, DrainFields
          <6>3. slots'[slot[r]].epoch = repoch[r]
            BY <5>5, <6>1, <6>2, Zenon DEF EpochMark
          <6>4. Len(buffer'[r]) = 1 /\ buffer'[r][1] = ActiveMark(r)
            BY <5>3, <5>7, <6>1
          <6> QED BY <4>1, <5>4, <6>3, <6>4 DEF Announced
        <5>8. CASE n > 2
          <6>1. buffer[r][n] = ActiveMark(r) /\ buffer[r][n - 1] = EpochMark(r)
            BY <5>1, <5>2, <5>8 DEF Announced
          <6>2. buffer'[r][n - 1] = ActiveMark(r) /\ buffer'[r][n - 2] = EpochMark(r)
            <7>1. n - 1 \in 1 .. n - 1 /\ n - 2 \in 1 .. n - 1
              BY <5>8
            <7>2. buffer'[r][n - 1] = buffer[r][(n - 1) + 1] /\ buffer'[r][n - 2] = buffer[r][(n - 2) + 1]
              BY <5>3, <7>1, Zenon
            <7>3. (n - 1) + 1 = n /\ (n - 2) + 1 = n - 1
              OBVIOUS
            <7> QED BY <6>1, <7>2, <7>3, Zenon
          <6>3. PICK m \in Nat : m = n - 1 /\ m > 1 /\ m - 1 = n - 2
            BY <5>8
          <6>4. Len(buffer'[r]) = m /\ buffer'[r][m] = ActiveMark(r) /\ buffer'[r][m - 1] = EpochMark(r)
            BY <5>3, <6>2, <6>3, Zenon
          <6> QED BY <4>1, <5>4, <6>3, <6>4 DEF Announced
        <5> QED BY <5>3, <5>6, <5>7, <5>8
      <4> QED BY <1>1, <2>1, <2>5, <4>1, <4>2, Zenon DEF Announcements
    <3> QED BY <1>3, <3>1, <3>2, <3>3, <3>4, Zenon DEF ReaderStep
  <2> QED BY <2>4, <2>5, Zenon
<1> QED BY <1>2, <1>3, Zenon DEF Announcements

-----------------------------------------------------------------------------
(* The epochs under which a version can be retired do not fall. *)
LEMMA FloorKeeps ==
  ASSUME EType, Bounds, NEW w \in Writers, WriterStep(w), NEW v, NEW e \in Nat, NotRetiredBefore(v, e)
  PROVE  /\ e <= global_epoch'
         /\ \A u \in Writers : wpc'[u] = "push" /\ local'[u].version = v => local'[u].epoch >= e
         /\ \A d \in retired' : d.version = v => d.epoch >= e
<1>1. e <= global_epoch'
  BY EpochGrows, WriterType, SMTT(30), Zenon DEF NotRetiredBefore, EType
<1>2. Elsewhere(w)
  BY WriterType, Zenon
<1>3. ASSUME MinEpoch(w) PROVE local[w].i \in SlotIds
  BY <1>3, BoundsAssumption, SMTT(30) DEF MinEpoch, Bounds, ScanBounds, EType, Locals, SlotIds
<1>4. wpc'[w] = "push" => RetireLoad(w)
  <2>1. wpc[w] \in WPlaces
    BY Zenon DEF EType
  <2>2. CASE AdvanceScan(w) \/ MinScan(w)
    BY <2>2, ScanFields, Zenon DEF AdvanceScan, MinScan
  <2>3. CASE Delete(w)
    BY <2>3, DeleteFields, Zenon DEF Delete
  <2>4. CASE \E call \in {"advance", "reclaim"} : AdvanceLoad(w, call)
    BY <2>4, AdvanceLoadFields, Zenon
  <2> QED BY <1>3, <2>2, <2>3, <2>4, UnlinkFields, DoneFields, AdvanceEpochFields, AdvanceAddFields,
             MinLoadFields, MinEpochFields, CollectFields, Zenon DEF WriterStep
<1>5. \A u \in Writers : wpc'[u] = "push" /\ local'[u].version = v => local'[u].epoch >= e
  <2>1. \A u \in Writers \ {w} : wpc'[u] = "push" /\ local'[u].version = v => local'[u].epoch >= e
    BY <1>2, Zenon DEF Elsewhere, NotRetiredBefore
  <2>2. RetireLoad(w) => local'[w].epoch = global_epoch
    BY RetireLoadFields, Zenon
  <2> QED BY <1>4, <2>1, <2>2, Zenon DEF NotRetiredBefore, EType
<1>6. \A d \in retired' : d.version = v => d.epoch >= e
  <2>1. CASE RetirePush(w)
    <3> DEFINE d == [epoch |-> local[w].epoch, version |-> local[w].version]
    <3>1. retired' = retired \cup {d} /\ wpc[w] = "push"
          /\ d.epoch = local[w].epoch /\ d.version = local[w].version
      BY <2>1, Zenon DEF RetirePush
    <3> HIDE DEF d
    <3> QED BY <3>1, Zenon DEF NotRetiredBefore
  <2>2. CASE ~ RetirePush(w)
    <3>1. retired' \subseteq retired
      BY <2>2, Zenon DEF WriterStep, Unlink, RetireLoad, AdvanceLoad, AdvanceScan, AdvanceEpoch,
         AdvanceAdd, MinLoad, MinScan, MinEpoch, Collect, Delete, ReclaimReturn, shared
    <3> QED BY <3>1, Zenon DEF NotRetiredBefore
  <2> QED BY <2>1, <2>2, Zenon
<1> QED BY <1>1, <1>5, <1>6, Zenon

(* A scan stays within the slots, and its bound below the epoch. *)
LEMMA ScanBoundsKeep ==
  ASSUME EType, Bounds, NEW w \in Writers, WriterStep(w)
  PROVE  ScanBounds'
<1>1. Elsewhere(w) /\ EType' /\ global_epoch' >= global_epoch
  BY WriterType, EpochGrows, Zenon
<1>2. ASSUME MinEpoch(w) PROVE local[w].i \in SlotIds
  BY <1>2, BoundsAssumption DEF MinEpoch, Bounds, ScanBounds, EType, Locals, SlotIds
<1>3. NumSlots <= MaxSlots
  BY BoundsAssumption DEF NumSlots, EType
<1>4. ASSUME NEW u \in Writers \ {w}
      PROVE  /\ local'[u].count <= MaxSlots
             /\ wpc'[u] = "minepoch" => local'[u].i < local'[u].count
             /\ Scanning(u)' => local'[u].epoch <= global_epoch'
  <2>1. local'[u] = local[u] /\ wpc'[u] = wpc[u] /\ local[u].epoch \in Nat
    BY <1>1, Zenon DEF Elsewhere, EType, Locals
  <2> QED BY <1>1, <2>1 DEF Bounds, ScanBounds, Scanning, EType
<1>5. /\ local'[w].count <= MaxSlots
      /\ wpc'[w] = "minepoch" => local'[w].i < local'[w].count
      /\ Scanning(w)' => local'[w].epoch <= global_epoch'
  <2>1. CASE AdvanceScan(w) \/ MinScan(w)
    <3>1. /\ local[w].count <= MaxSlots /\ local[w].i < local[w].count
          /\ MinScan(w) => local[w].epoch <= global_epoch
      BY <2>1, Zenon DEF Bounds, ScanBounds, Scanning, AdvanceScan, MinScan
    <3>2. global_epoch' = global_epoch /\ (AdvanceScan(w) => wpc[w] = "scan")
          /\ (MinScan(w) => wpc[w] = "minscan")
      BY <2>1, Zenon DEF AdvanceScan, MinScan, shared
    <3>3. local'[w].count = local[w].count /\ local'[w].epoch = local[w].epoch
      BY <2>1, ScanFields, Zenon DEF Stay
    <3> QED BY <2>1, <3>1, <3>2, <3>3, ScanFields, Zenon DEF Scanning
  <2>2. CASE MinLoad(w)
    <3>1. global_epoch' = global_epoch
      BY <2>2, Zenon DEF MinLoad, shared
    <3>2. local'[w].epoch = global_epoch /\ local'[w].count = NumSlots /\ wpc'[w] = "minscan"
      BY <2>2, MinLoadFields, Zenon
    <3> QED BY <1>3, <3>1, <3>2 DEF EType
  <2>3. CASE MinEpoch(w)
    <3>1. /\ local'[w].count = local[w].count /\ wpc'[w] = "minscan"
          /\ local'[w].epoch <= local[w].epoch
      BY <1>2, <2>3, MinEpochFields, Zenon DEF Stay
    <3>2. local[w].epoch <= global_epoch /\ local[w].count <= MaxSlots /\ global_epoch' = global_epoch
      BY <2>3, Zenon DEF Bounds, ScanBounds, Scanning, MinEpoch, shared
    <3>3. local[w].epoch \in Nat /\ local'[w].epoch \in Nat
      BY <1>1, Zenon DEF EType, Locals
    <3> QED BY <3>1, <3>2, <3>3 DEF EType
  <2>4. CASE RetirePush(w) \/ ReclaimReturn(w)
    BY <2>4, DoneFields, BoundsAssumption DEF Scanning
  <2>5. CASE \E call \in {"advance", "reclaim"} : AdvanceLoad(w, call)
    BY <1>3, <2>5, AdvanceLoadFields, Zenon DEF Scanning
  <2>6. CASE Unlink(w) \/ RetireLoad(w) \/ AdvanceEpoch(w) \/ AdvanceAdd(w) \/ Collect(w)
    BY <2>6, UnlinkFields, RetireLoadFields, AdvanceEpochFields, AdvanceAddFields, CollectFields, Zenon
       DEF Scanning, Stay, Bounds, ScanBounds
  <2>7. CASE Delete(w)
    BY <2>7, DeleteFields, Zenon DEF Delete, Scanning, Stay, Bounds, ScanBounds
  <2> QED BY <2>1, <2>2, <2>3, <2>4, <2>5, <2>6, <2>7, Zenon DEF WriterStep
<1> QED BY <1>4, <1>5, Zenon DEF ScanBounds

(* The announcement of a reader that holds something is visible. *)
LEMMA HolderVisible ==
  ASSUME EType, Sections, Ownership, Announcements, ~ overtook, allocated <= MaxSlots,
         NEW r \in Readers, held[r] # NoVersion
  PROVE  /\ slot[r] \in SlotIds /\ slot[r] < allocated
         /\ slots[slot[r]].active = TRUE /\ slots[slot[r]].epoch = repoch[r]
<1>1. rpc[r] = "in" /\ slot[r] \in SlotIds /\ buffer[r] = << >>
  BY Zenon DEF Sections, EType, Announcements
<1>2. slot[r] < allocated
  BY <1>1, Zenon DEF Ownership, Owns
<1>3. Announced(r) /\ Len(buffer[r]) = 0
  BY <1>1, Zenon DEF Announcements
<1>4. slots[slot[r]].active = TRUE /\ slots[slot[r]].epoch = repoch[r]
  BY <1>3 DEF Announced
<1> QED BY <1>1, <1>2, <1>4, Zenon

(* A lower bound protects what a higher one does. *)
LEMMA LowerFloor ==
  ASSUME EType, NEW v, NEW e \in Nat, NEW f \in Nat, e <= f, NotRetiredBefore(v, f)
  PROVE  NotRetiredBefore(v, e)
<1>1. \A u \in Writers : local[u].epoch \in Nat
  BY Zenon DEF EType, Locals
<1>2. \A d \in retired : d.epoch \in Nat
  BY Zenon DEF EType
<1> QED BY <1>1, <1>2 DEF NotRetiredBefore, EType

(* A writer's step does not touch what a reader holds. *)
LEMMA ProtectedKeeps ==
  ASSUME EType, Sections, Ownership, Announcements, Bounds, ~ overtook, allocated <= MaxSlots,
         NEW w \in Writers, WriterStep(w), NEW r \in Readers, held[r] # NoVersion
  PROVE  Protected(r)'
<1> DEFINE h == held[r]
<1>1. Elsewhere(w) /\ EType' /\ UNCHANGED <<slot, repoch, held, slots, allocated>>
  BY WriterType, Zenon DEF reader
<1>2. Protected(r) /\ ScanBounds
  BY Zenon DEF Bounds
<1>3. /\ slot[r] \in SlotIds /\ slot[r] \in Nat /\ slot[r] < allocated
      /\ slots[slot[r]].active = TRUE /\ slots[slot[r]].epoch = repoch[r]
  <2>1. /\ slot[r] \in SlotIds /\ slot[r] < allocated
        /\ slots[slot[r]].active = TRUE /\ slots[slot[r]].epoch = repoch[r]
    BY HolderVisible, Zenon
  <2> QED BY <2>1, BoundsAssumption DEF SlotIds
<1>4. /\ repoch[r] \in Nat
      /\ \A u \in Writers : local[u] \in Locals /\ local[u].epoch \in Nat
                            /\ local[u].i \in Nat /\ local[u].count \in Nat
      /\ \A u \in Writers : local'[u].epoch \in Nat /\ local'[u].i \in Nat /\ local'[u].count \in Nat
  BY <1>1, Zenon DEF EType, Locals
<1>5. ASSUME MinEpoch(w) PROVE local[w].i \in SlotIds
  BY <1>5, BoundsAssumption, SMTT(30) DEF MinEpoch, Bounds, ScanBounds, EType, Locals, SlotIds
<1>6. ASSUME NEW e \in Nat, NotRetiredBefore(h, e)
      PROVE  /\ e <= global_epoch'
             /\ \A u \in Writers : wpc'[u] = "push" /\ local'[u].version = h => local'[u].epoch >= e
             /\ \A d \in retired' : d.version = h => d.epoch >= e
  BY <1>6, FloorKeeps, Zenon
<1>8. h \notin freed'
  <2>1. CASE Delete(w)
    BY <1>2, <2>1, DeleteFields, Zenon DEF Protected
  <2>2. CASE ~ Delete(w)
    <3>1. freed' = freed
      BY <2>2, Zenon DEF WriterStep, Unlink, RetireLoad, RetirePush, AdvanceLoad, AdvanceScan, AdvanceEpoch,
         AdvanceAdd, MinLoad, MinScan, MinEpoch, Collect, ReclaimReturn, shared
    <3> QED BY <1>2, <3>1, Zenon DEF Protected
  <2> QED BY <2>1, <2>2, Zenon
<1>9. NotRetiredBefore(h, repoch[r])'
  BY <1>1, <1>2, <1>4, <1>6, Zenon DEF Protected, NotRetiredBefore
<1>10. ASSUME NEW u \in Writers \ {w}
       PROVE  /\ h \notin local'[u].doomed
              /\ Scanning(u)' /\ (local'[u].i > slot[r] \/ local'[u].count <= slot[r]) =>
                   NotRetiredBefore(h, local[u].epoch)
  BY <1>1, <1>2, Zenon DEF Protected, Elsewhere, Scanning
<1>11. h \notin local'[w].doomed
  <2>1. CASE Collect(w)
    <3>1. wpc[w] = "minscan" /\ local[w].i >= local[w].count
      BY <2>1, Zenon DEF Collect
    <3>2. local[w].i > slot[r] \/ local[w].count <= slot[r]
      BY <1>3, <1>4, <3>1, SMTT(30)
    <3>3. NotRetiredBefore(h, local[w].epoch)
      BY <1>2, <3>1, <3>2, Zenon DEF Protected, Scanning
    <3>4. \A d \in retired : d.epoch \in Nat
      BY Zenon DEF EType
    <3> QED BY <1>4, <2>1, <3>3, <3>4, CollectFields DEF NotRetiredBefore
  <2>2. CASE Delete(w)
    BY <1>2, <2>2, DeleteFields, Zenon DEF Protected
  <2>3. CASE ~ Collect(w) /\ ~ Delete(w)
    <3>1. local'[w].doomed = {} \/ local'[w].doomed = local[w].doomed
      BY <1>5, <2>3, UnlinkFields, RetireLoadFields, DoneFields, AdvanceLoadFields, ScanFields,
         AdvanceEpochFields, AdvanceAddFields, MinLoadFields, MinEpochFields, ZenonT(30) DEF WriterStep, Stay
    <3> QED BY <1>2, <3>1, Zenon DEF Protected
  <2> QED BY <2>1, <2>2, <2>3, Zenon
<1>12. ASSUME Scanning(w)', local'[w].i > slot[r] \/ local'[w].count <= slot[r]
       PROVE  \E e \in Nat : NotRetiredBefore(h, e) /\ e = local'[w].epoch
  <2>1. CASE MinLoad(w)
    <3>1. local'[w].i = 0 /\ local'[w].count = allocated
      <4>1. local'[w].i = 0 /\ local'[w].count = NumSlots
        BY <2>1, MinLoadFields, Zenon
      <4>2. NumSlots = allocated
        BY BoundsAssumption DEF NumSlots, EType
      <4> QED BY <4>1, <4>2, Zenon
    <3>2. allocated \in Nat /\ slot[r] \in Nat /\ slot[r] < allocated
      BY <1>3, Zenon DEF EType
    <3>3. ~ (0 > slot[r]) /\ ~ (allocated <= slot[r])
      BY <3>2, SMTT(30)
    <3> QED BY <1>12, <3>1, <3>3, Zenon
  <2>2. CASE MinScan(w)
    <3>1. local'[w].epoch = local[w].epoch /\ local'[w].count = local[w].count /\ Scanning(w)
      BY <2>2, ScanFields, Zenon DEF Stay, MinScan, Scanning
    <3>2. local[w].i > slot[r] \/ local[w].count <= slot[r]
      <4>1. CASE local'[w].i = local[w].i
        BY <1>12, <3>1, <4>1, Zenon
      <4>2. CASE local'[w].i = local[w].i + 1 /\ ~ slots[local[w].i].active
        <5>1. local[w].i # slot[r]
          BY <1>3, <4>2, Zenon
        <5>2. slot[r] \in Nat /\ local[w].i \in Nat
          BY <1>3, <1>4, Zenon
        <5>3. local[w].i + 1 > slot[r] \/ local[w].count <= slot[r]
          BY <1>12, <3>1, <4>2, Zenon
        <5> QED BY <5>1, <5>2, <5>3
      <4> QED BY <2>2, <4>1, <4>2, ScanFields, Zenon
    <3> QED BY <1>2, <1>4, <3>1, <3>2, Zenon DEF Protected
  <2>3. CASE MinEpoch(w)
    <3>1. /\ local'[w].count = local[w].count /\ local'[w].i = local[w].i + 1
          /\ local'[w].epoch <= slots[local[w].i].epoch /\ local'[w].epoch <= local[w].epoch
      BY <1>5, <2>3, MinEpochFields, Zenon DEF Stay
    <3>2. CASE local[w].i = slot[r]
      BY <1>2, <1>3, <1>4, <3>1, <3>2, LowerFloor, Zenon DEF Protected
    <3>3. CASE local[w].i # slot[r]
      <4>1. local[w].i > slot[r] \/ local[w].count <= slot[r]
        <5>1. slot[r] \in Nat /\ local[w].i \in Nat
          BY <1>3, <1>4, Zenon
        <5>2. local[w].i + 1 > slot[r] \/ local[w].count <= slot[r]
          BY <1>12, <3>1, Zenon
        <5> QED BY <3>3, <5>1, <5>2
      <4>2. NotRetiredBefore(h, local[w].epoch)
        BY <1>2, <2>3, <4>1, Zenon DEF Protected, MinEpoch, Scanning
      <4> QED BY <1>4, <3>1, <4>2, LowerFloor, Zenon
    <3> QED BY <3>2, <3>3, Zenon
  <2>4. CASE ~ MinLoad(w) /\ ~ MinScan(w) /\ ~ MinEpoch(w)
    <3>1. CASE AdvanceScan(w)
      BY <1>12, <3>1, ScanFields, Zenon DEF AdvanceScan, Scanning
    <3>2. CASE Delete(w)
      BY <1>12, <3>2, DeleteFields, Zenon DEF Delete, Scanning
    <3> QED BY <1>12, <2>4, <3>1, <3>2, UnlinkFields, RetireLoadFields, DoneFields, AdvanceLoadFields,
         AdvanceEpochFields, AdvanceAddFields, CollectFields, Zenon DEF WriterStep, Scanning
  <2> QED BY <2>1, <2>2, <2>3, <2>4, Zenon
<1>13. ASSUME NEW u \in Writers, Scanning(u)', local'[u].i > slot[r] \/ local'[u].count <= slot[r]
       PROVE  NotRetiredBefore(h, local[u].epoch)'
  <2>1. PICK e \in Nat : NotRetiredBefore(h, e) /\ e = local'[u].epoch
    <3>1. CASE u = w
      BY <1>12, <1>13, <3>1, Zenon
    <3>2. CASE u # w
      <4>1. local'[u].epoch = local[u].epoch
        BY <1>1, <3>2, Zenon DEF Elsewhere
      <4> QED BY <1>4, <1>10, <1>13, <3>2, <4>1, Zenon
    <3> QED BY <3>1, <3>2, Zenon
  <2> QED BY <1>1, <1>6, <2>1, Zenon DEF NotRetiredBefore
<1> HIDE DEF h
<1>14. \A u \in Writers : h \notin local'[u].doomed
  BY <1>10, <1>11, Zenon
<1>15. h' = h
  BY <1>1, Zenon DEF h
<1> QED BY <1>1, <1>8, <1>9, <1>13, <1>14, <1>15, Zenon DEF Protected, h

(* What has just been read is retired nowhere yet. *)
LEMMA CurrentFloor ==
  ASSUME EType, Places, NEW e \in Nat, e <= global_epoch
  PROVE  /\ current \notin freed /\ \A w \in Writers : current \notin local[w].doomed
         /\ NotRetiredBefore(current, e)
<1>1. current \notin Old(current)
  BY DEF Old, EType
<1>2. \A u \in Writers : wpc[u] = "push" => local[u].version # current
  BY <1>1, Zenon DEF Places, RetiringOnly, Retiring
<1>3. \A d \in retired : d.version # current
  BY <1>1, Zenon DEF Places, ListedOnly
<1> QED BY <1>1, <1>2, <1>3, Zenon DEF Places, DoomedOnly, NotRetiredBefore

(* The bounds protect what readers hold. *)
LEMMA BoundsKeep ==
  ASSUME EType, Sections, Places, Ownership, Announcements, Bounds, Observe,
         (\E r \in Readers : ReaderStep(r)) \/ (\E w \in Writers : WriterStep(w))
  PROVE  Bounds'
<1>1. ~ overtook' => ~ overtook
  BY Zenon DEF Observe
<1>2. ASSUME NEW w \in Writers, WriterStep(w) PROVE Bounds'
  <2>1. UNCHANGED <<held, allocated>>
    BY <1>2, WriterType, Zenon DEF reader
  <2>2. ScanBounds'
    BY <1>2, ScanBoundsKeep, Zenon
  <2> QED BY <1>1, <1>2, <2>1, <2>2, ProtectedKeeps, Zenon DEF Bounds
<1>3. ASSUME NEW r \in Readers, ReaderStep(r) PROVE Bounds'
  <2>1. UNCHANGED <<wpc, local, global_epoch, retired, current, freed>>
    BY <1>3, ReaderType, Zenon DEF writer
  <2>2. ScanBounds'
    BY <2>1, Zenon DEF Bounds, ScanBounds, Scanning
  <2>3. allocated' <= MaxSlots => allocated <= MaxSlots
    <3>1. allocated' = allocated \/ allocated' = allocated + 1
      BY <1>3, Zenon DEF ReaderStep, Register, Unregister, EnterLoad, EnterStore, Read, Exit, Drain, shared
    <3> QED BY <3>1, BoundsAssumption, SMTT(30) DEF EType
  <2>4. ASSUME ~ overtook', allocated' <= MaxSlots, NEW q \in Readers, held'[q] # NoVersion
        PROVE  Protected(q)'
    <3>1. CASE held'[q] = held[q] /\ repoch'[q] = repoch[q] /\ slot'[q] = slot[q]
      <4>1. Protected(q)
        BY <1>1, <2>3, <2>4, <3>1, Zenon DEF Bounds
      <4> QED BY <2>1, <3>1, <4>1, Zenon DEF Protected, NotRetiredBefore, Scanning
    <3>2. CASE q = r /\ Read(r)
      <4>1. held'[q] = current /\ UNCHANGED <<repoch, slot>>
        BY <3>2, Zenon DEF Read, EType
      <4>2. \A e \in Nat : e <= global_epoch =>
              /\ current \notin freed /\ \A w \in Writers : current \notin local[w].doomed
              /\ NotRetiredBefore(current, e)
        BY CurrentFloor, Zenon
      <4>3. repoch[q] \in Nat /\ repoch[q] <= global_epoch
        BY Zenon DEF EType, Sections
      <4>4. \A w \in Writers : Scanning(w) => local[w].epoch \in Nat /\ local[w].epoch <= global_epoch
        BY Zenon DEF Bounds, ScanBounds, EType, Locals
      <4>5. /\ current \notin freed /\ NotRetiredBefore(current, repoch[q])
            /\ \A w \in Writers : current \notin local[w].doomed
        BY <4>2, <4>3, Zenon
      <4>6. \A w \in Writers : Scanning(w) => NotRetiredBefore(current, local[w].epoch)
        BY <4>2, <4>4, Zenon
      <4> QED BY <2>1, <4>1, <4>5, <4>6, Zenon DEF Protected, NotRetiredBefore, Scanning
    <3>3. q # r => held'[q] = held[q] /\ repoch'[q] = repoch[q] /\ slot'[q] = slot[q]
      BY <1>3, ReaderElsewhere, Zenon
    <3>4. Drain(r) => held' = held /\ repoch' = repoch /\ slot' = slot
      BY Zenon DEF Drain
    <3>5. Register(r) \/ Unregister(r) \/ EnterLoad(r) \/ EnterStore(r) \/ Exit(r) => held'[r] = NoVersion
      BY Zenon DEF Register, Unregister, EnterLoad, EnterStore, Exit, Sections, EType
    <3> QED BY <1>3, <2>4, <3>1, <3>2, <3>3, <3>4, <3>5, Zenon DEF ReaderStep
  <2> QED BY <2>2, <2>4, Zenon DEF Bounds
<1> QED BY <1>2, <1>3, Zenon

-----------------------------------------------------------------------------
(* What the history variables of a step say. *)
LEMMA Observed ==
  ASSUME Observe, NEW w \in Writers
  PROVE  /\ quiet'[w] => wpc'[w] # "idle" /\ NoneActive' /\ (wpc[w] = "idle" \/ quiet[w])
         /\ wpc'[w] = "idle" => before'[w] = {}
         /\ wpc[w] = "idle" /\ wpc'[w] = "scan" => before'[w] = {d.version : d \in retired}
         /\ wpc'[w] # "idle" /\ ~ (wpc[w] = "idle" /\ wpc'[w] = "scan") => before'[w] = before[w]
<1>1. quiet'[w] <=> wpc'[w] # "idle" /\ NoneActive' /\ (wpc[w] = "idle" \/ quiet[w])
  BY Zenon DEF Observe
<1>2. before'[w] = CASE wpc'[w] = "idle" -> {}
         [] wpc[w] = "idle" /\ wpc'[w] = "scan" -> {d.version : d \in retired}
         [] OTHER -> before[w]
  BY Zenon DEF Observe
<1> QED BY <1>1, <1>2, Zenon

(* The epochs that are kept were loaded, so they are not in the future. *)
LEMMA LoadedKeeps ==
  ASSUME EType, Bounds, Loaded, NEW w \in Writers, WriterStep(w)
  PROVE  Loaded'
<1>1. Elsewhere(w) /\ EType' /\ global_epoch' >= global_epoch
  BY WriterType, EpochGrows, Zenon
<1>2. \A u \in Writers \ {w} : wpc'[u] \in {"push", "scan", "epoch"} => local'[u].epoch <= global_epoch'
  <2>1. \A u \in Writers : local[u].epoch \in Nat
    BY Zenon DEF EType, Locals
  <2> QED BY <1>1, <2>1 DEF Elsewhere, Loaded, EType
<1>3. wpc'[w] \in {"push", "scan", "epoch"} => local'[w].epoch <= global_epoch'
  <2>1. CASE RetireLoad(w) \/ \E call \in {"advance", "reclaim"} : AdvanceLoad(w, call)
    <3>1. local'[w].epoch = global_epoch
      BY <2>1, RetireLoadFields, AdvanceLoadFields, Zenon
    <3> QED BY <1>1, <3>1, Zenon
  <2>2. CASE AdvanceScan(w)
    <3>1. local'[w].epoch = local[w].epoch /\ local[w].epoch <= global_epoch /\ local[w].epoch \in Nat
      BY <2>2, ScanFields, Zenon DEF Stay, AdvanceScan, Loaded, EType, Locals
    <3> QED BY <1>1, <3>1 DEF EType
  <2>3. CASE AdvanceEpoch(w)
    <3>1. local'[w].epoch = local[w].epoch /\ local[w].epoch <= global_epoch /\ local[w].epoch \in Nat
      BY <2>3, AdvanceEpochFields, Zenon DEF Stay, AdvanceEpoch, Loaded, EType, Locals
    <3> QED BY <1>1, <3>1 DEF EType
  <2>4. ASSUME MinEpoch(w) PROVE local[w].i \in SlotIds
    BY <2>4, BoundsAssumption, SMTT(30), Zenon DEF MinEpoch, Bounds, ScanBounds, EType, Locals, SlotIds
  <2>5. CASE MinScan(w)
    BY <2>5, ScanFields, Zenon DEF MinScan
  <2>6. CASE Delete(w)
    BY <2>6, DeleteFields, Zenon DEF Delete
  <2> QED BY <2>1, <2>2, <2>3, <2>4, <2>5, <2>6, UnlinkFields, DoneFields, AdvanceAddFields,
             MinLoadFields, MinEpochFields, CollectFields, Zenon DEF WriterStep
<1>4. \A d \in retired' : d.epoch <= global_epoch'
  <2>1. \A d \in retired : d.epoch <= global_epoch'
    BY <1>1 DEF Loaded, EType
  <2>2. CASE RetirePush(w)
    <3> DEFINE d == [epoch |-> local[w].epoch, version |-> local[w].version]
    <3>1. retired' = retired \cup {d} /\ wpc[w] = "push" /\ global_epoch' = global_epoch
          /\ d.epoch = local[w].epoch
      BY <2>2, Zenon DEF RetirePush
    <3> HIDE DEF d
    <3> QED BY <2>1, <3>1, Zenon DEF Loaded
  <2>3. CASE ~ RetirePush(w)
    <3>1. retired' \subseteq retired
      BY <2>3, Zenon DEF WriterStep, Unlink, RetireLoad, AdvanceLoad, AdvanceScan, AdvanceEpoch,
         AdvanceAdd, MinLoad, MinScan, MinEpoch, Collect, Delete, ReclaimReturn, shared
    <3> QED BY <2>1, <3>1, Zenon
  <2> QED BY <2>2, <2>3, Zenon
<1> QED BY <1>2, <1>3, <1>4, Zenon DEF Loaded

(* What is deleted, or about to be, stays so; what was in the list is      *)
(* there still, or a reclaim has taken it.                                 *)
LEMMA GoneStays ==
  ASSUME EType, Bounds, Places, NEW w \in Writers, WriterStep(w), NEW v
  PROVE  /\ Gone(v) => v \in freed' \/ \E u \in Writers : v \in local'[u].doomed
         /\ (\E d \in retired : d.version = v) =>
              \/ \E d \in retired' : d.version = v
              \/ \E u \in Writers : v \in local'[u].doomed
<1>1. Elsewhere(w)
  BY WriterType, Zenon
<1>2. ASSUME MinEpoch(w) PROVE local[w].i \in SlotIds
  BY <1>2, BoundsAssumption DEF MinEpoch, Bounds, ScanBounds, EType, Locals, SlotIds
<1>3. CASE Delete(w)
  BY <1>1, <1>3, DeleteFields, Zenon DEF Gone, Elsewhere, Delete
<1>4. CASE Collect(w)
  <2>1. local[w].doomed = {} /\ freed' = freed
    BY <1>4, Zenon DEF Collect, Places, InHands
  <2>2. /\ local'[w].doomed = {d.version : d \in {d \in retired : d.epoch < local[w].epoch}}
        /\ retired' = retired \ {d \in retired : d.epoch < local[w].epoch}
    BY <1>4, CollectFields, Zenon DEF Collect
  <2> QED BY <1>1, <2>1, <2>2, Zenon DEF Gone, Elsewhere
<1>5. CASE ~ Delete(w) /\ ~ Collect(w)
  <2>1. freed' = freed /\ retired \subseteq retired'
    BY <1>5, Zenon DEF WriterStep, Unlink, RetireLoad, RetirePush, AdvanceLoad, AdvanceScan, AdvanceEpoch,
         AdvanceAdd, MinLoad, MinScan, MinEpoch, ReclaimReturn, shared
  <2>2. local[w].doomed = {}
    BY <1>5, Zenon DEF WriterStep, Unlink, RetireLoad, RetirePush, AdvanceLoad, AdvanceScan, AdvanceEpoch,
         AdvanceAdd, MinLoad, MinScan, MinEpoch, ReclaimReturn, Places, InHands
  <2> QED BY <1>1, <2>1, <2>2, Zenon DEF Gone, Elsewhere
<1> QED BY <1>3, <1>4, <1>5, Zenon

(* A reclaim that is not disturbed goes on to collect what it found. *)
LEMMA QuietKeeps ==
  ASSUME EType, Sections, Bounds, Places, Quiet, Observe, NEW x \in Writers, WriterStep(x)
  PROVE  Quiet'
<1>1. Elsewhere(x) /\ EType' /\ slots' = slots /\ global_epoch' >= global_epoch /\ Loaded'
  BY WriterType, EpochGrows, LoadedKeeps, Zenon DEF Quiet
<1>2. \A w \in Writers : wpc'[w] = "idle" => before'[w] = {}
  BY Observed, Zenon
<1>3. ASSUME NEW w \in Writers, quiet'[w] PROVE Undisturbed(w)'
  <2>1. wpc'[w] # "idle" /\ NoneActive' /\ (wpc[w] = "idle" \/ quiet[w]) /\ NoneActive
    BY <1>1, <1>3, Observed, Zenon DEF NoneActive
  <2>2. \A v : Gone(v) => Gone(v)'
    BY GoneStays, Zenon DEF Gone
  <2>3. \A v : (\E d \in retired : d.version = v) => Gone(v)' \/ \E d \in retired' : d.version = v
    BY GoneStays, Zenon DEF Gone
  <2>4. CASE w # x
    <3>1. wpc'[w] = wpc[w] /\ local'[w] = local[w] /\ Undisturbed(w) /\ before'[w] = before[w]
      BY <1>1, <2>1, <2>4, Observed, Zenon DEF Elsewhere, Quiet
    <3>2. \A d \in retired' : d.version \in before[w] => d \in retired
      <4>1. CASE RetirePush(x)
        <5> DEFINE d == [epoch |-> local[x].epoch, version |-> local[x].version]
        <5>1. retired' = retired \cup {d} /\ Retiring(x) /\ d.version = local[x].version
          BY <4>1, Zenon DEF RetirePush, Retiring
        <5> HIDE DEF d
        <5>2. ~ Gone(d.version) /\ \A e \in retired : e.version # d.version
          BY <5>1, Zenon DEF Places, RetiringOnly, Gone
        <5>3. d.version \notin before[w]
          BY <3>1, <5>2, Zenon DEF Undisturbed
        <5> QED BY <5>1, <5>3, Zenon
      <4>2. CASE ~ RetirePush(x)
        BY <4>2, Zenon DEF WriterStep, Unlink, RetireLoad, AdvanceLoad, AdvanceScan, AdvanceEpoch,
         AdvanceAdd, MinLoad, MinScan, MinEpoch, Collect, Delete, ReclaimReturn, shared
      <4> QED BY <4>1, <4>2, Zenon
    <3>3. \A d \in retired : d.epoch \in Nat
      BY Zenon DEF EType
    <3>4. \A d \in retired : d.version \in before[w] /\ wpc[w] = "minload" => d.epoch < global_epoch'
      <4>1. global_epoch \in Nat /\ global_epoch' \in Nat
        BY <1>1, Zenon DEF EType
      <4>2. \A d \in retired : d.version \in before[w] /\ wpc[w] = "minload" => d.epoch < global_epoch
        BY <3>1, Zenon DEF Undisturbed
      <4> QED BY <1>1, <3>3, <4>1, <4>2
    <3>5. \A v \in before[w] : Gone(v)' \/ \E d \in retired' : d.version = v
      BY <2>2, <2>3, <3>1, Zenon DEF Undisturbed
    <3>6. wpc[w] = "delete" => \A v \in before[w] : Gone(v)'
      BY <2>2, <3>1, Zenon DEF Undisturbed
    <3> QED BY <3>1, <3>2, <3>4, <3>5, <3>6, Zenon DEF Undisturbed
  <2>5. CASE w = x
    <3>1. quiet[w] => Undisturbed(w)
      BY Zenon DEF Quiet
    <3>2. \A d \in retired : d.epoch \in Nat
      BY Zenon DEF EType
    <3>3. local[w].epoch \in Nat /\ local[w].count \in Nat /\ local[w].i \in Nat
          /\ local[w].count <= MaxSlots
      BY Zenon DEF EType, Locals, Bounds, ScanBounds
    <3>4. CASE Unlink(x) \/ RetireLoad(x)
      <4>1. wpc'[w] \in {"retire", "push"} /\ before'[w] = before[w]
        BY <2>1, <2>5, <3>4, UnlinkFields, RetireLoadFields, Observed, Zenon
      <4>2. before[w] = {}
        BY <2>1, <2>5, <3>1, <3>4, Zenon DEF Unlink, RetireLoad, Quiet, Undisturbed
      <4> QED BY <4>1, <4>2, Zenon DEF Undisturbed
    <3>5. CASE \E call \in {"advance", "reclaim"} : AdvanceLoad(x, call)
      <4>1. /\ wpc[w] = "idle" /\ wpc'[w] = "scan" /\ local'[w].epoch = global_epoch
            /\ retired' = retired
        BY <2>5, <3>5, AdvanceLoadFields, Zenon DEF AdvanceLoad, shared
      <4>2. before'[w] = {d.version : d \in retired}
        BY <4>1, Observed, Zenon
      <4> QED BY <4>1, <4>2, Zenon DEF Undisturbed, Quiet, Loaded
    <3>6. CASE AdvanceScan(x) \/ MinScan(x)
      <4>1. wpc[w] \in {"scan", "minscan"} /\ local[w].i < local[w].count /\ UNCHANGED <<retired, freed>>
        BY <2>5, <3>6, Zenon DEF AdvanceScan, MinScan, shared
      <4>2. ~ slots[local[w].i].active
        BY <2>1, <3>3, <4>1, BoundsAssumption, SMTT(30) DEF NoneActive, SlotIds
      <4>3. wpc'[w] = wpc[w] /\ local'[w].epoch = local[w].epoch
        BY <2>5, <3>6, <4>2, ScanFields, Zenon DEF Stay
      <4>4. before'[w] = before[w] /\ Undisturbed(w)
        BY <2>1, <3>1, <4>1, <4>3, Observed, Zenon
      <4>5. \A v \in before[w] : Gone(v)' \/ \E d \in retired' : d.version = v
        BY <2>2, <2>3, <4>4, Zenon DEF Undisturbed
      <4> QED BY <4>1, <4>3, <4>4, <4>5, Zenon DEF Undisturbed
    <3>7. CASE AdvanceEpoch(x) \/ MinEpoch(x)
      BY <2>1, <2>5, <3>1, <3>7, Zenon DEF AdvanceEpoch, MinEpoch, Undisturbed
    <3>8. CASE AdvanceAdd(x)
      <4>1. /\ wpc[w] = "scan" /\ wpc'[w] = "minload" /\ global_epoch' = global_epoch + 1
            /\ retired' = retired
        BY <2>1, <2>5, <3>8, AdvanceAddFields, Zenon DEF AdvanceAdd
      <4>2. before'[w] = before[w] /\ Undisturbed(w) /\ local[w].epoch <= global_epoch
        BY <2>1, <3>1, <4>1, Observed, ZenonT(30) DEF Quiet, Loaded
      <4>3. \A d \in retired : d.version \in before[w] => d.epoch < global_epoch'
        BY <3>2, <3>3, <4>1, <4>2, SMTT(30) DEF Undisturbed, EType
      <4>4. \A v \in before[w] : Gone(v)' \/ \E d \in retired' : d.version = v
        BY <2>2, <2>3, <4>2, Zenon DEF Undisturbed
      <4> QED BY <4>1, <4>2, <4>3, <4>4, Zenon DEF Undisturbed
    <3>9. CASE MinLoad(x)
      <4>1. /\ wpc[w] = "minload" /\ wpc'[w] = "minscan" /\ local'[w].epoch = global_epoch
            /\ retired' = retired
        BY <2>5, <3>9, MinLoadFields, Zenon DEF MinLoad, shared
      <4>2. before'[w] = before[w] /\ Undisturbed(w)
        BY <2>1, <3>1, <4>1, Observed, Zenon
      <4>3. \A v \in before[w] : Gone(v)' \/ \E d \in retired' : d.version = v
        BY <2>2, <2>3, <4>2, Zenon DEF Undisturbed
      <4> QED BY <4>1, <4>2, <4>3, Zenon DEF Undisturbed
    <3>10. CASE Collect(x)
      <4>1. /\ wpc[w] = "minscan" /\ wpc'[w] = "delete"
            /\ local'[w].doomed = {d.version : d \in {d \in retired : d.epoch < local[w].epoch}}
        BY <2>5, <3>10, CollectFields, Zenon DEF Collect
      <4>2. before'[w] = before[w] /\ Undisturbed(w)
        BY <2>1, <3>1, <4>1, Observed, Zenon
      <4>3. \A v \in before[w] : Gone(v) \/ v \in local'[w].doomed
        BY <4>1, <4>2, ZenonT(30) DEF Undisturbed
      <4>4. \A v \in before[w] : Gone(v)'
        BY <2>2, <4>3, Zenon DEF Gone
      <4> QED BY <4>1, <4>2, <4>4, Zenon DEF Undisturbed
    <3>11. CASE Delete(x)
      <4>1. wpc[w] = "delete" /\ wpc'[w] = "delete"
        BY <2>5, <3>11, Zenon DEF Delete
      <4>2. before'[w] = before[w] /\ Undisturbed(w)
        BY <2>1, <3>1, <4>1, Observed, Zenon
      <4>3. \A v \in before[w] : Gone(v)'
        BY <2>2, <4>1, <4>2, Zenon DEF Undisturbed
      <4> QED BY <4>1, <4>2, <4>3, Zenon DEF Undisturbed
    <3>12. CASE RetirePush(x) \/ ReclaimReturn(x)
      BY <2>1, <2>5, <3>12, DoneFields, Zenon
    <3> QED BY <3>4, <3>5, <3>6, <3>7, <3>8, <3>9, <3>10, <3>11, <3>12, Zenon DEF WriterStep
  <2> QED BY <2>4, <2>5, Zenon
<1>4. ASSUME NEW w \in Writers, quiet'[w] PROVE NoneActive'
  BY <1>4, Observed, Zenon
<1> QED BY <1>1, <1>2, <1>3, <1>4, Zenon DEF Quiet

-----------------------------------------------------------------------------
(* EInv is inductive. *)
LEMMA ENext == EInv /\ [Next]_vars => EInv'
<1> SUFFICES ASSUME EInv, [Next]_vars PROVE EInv'
  BY Zenon
<1>1. CASE UNCHANGED vars
  <2> USE <1>1 DEF vars, shared, reader, writer, history
  <2>1. EType'
    BY Zenon DEF EInv, EType
  <2>2. Sections'
    BY Zenon DEF EInv, Sections
  <2>7. Ownership'
    <3>1. \A r \in Readers, x \in SlotIds : Owns(r, x)' <=> Owns(r, x)
      BY Zenon DEF Owns
    <3> QED BY <3>1, Zenon DEF EInv, Ownership
  <2>3. Places'
    BY Zenon DEF EInv, Places, Retiring, InHands, RetiringOnly, ListedOnly, DoomedOnly
  <2>4. Announcements'
    BY Zenon DEF EInv, Announcements, Announced, EpochMark, ActiveMark
  <2>5. Bounds'
    BY Zenon, SMT DEF EInv, Bounds, ScanBounds, Protected, NotRetiredBefore, Scanning
  <2>6. Quiet'
    BY Zenon DEF EInv, Quiet, Loaded, NoneActive, Undisturbed, Gone
  <2> QED BY <2>1, <2>2, <2>3, <2>4, <2>5, <2>6, <2>7, Zenon DEF EInv
<1>2. CASE Next
  <2>1. Observe /\ ((\E r \in Readers : ReaderStep(r)) \/ (\E w \in Writers : WriterStep(w)))
    BY <1>2, Zenon DEF Next
  <2>2. EType'
    BY <2>1, ReaderType, WriterType, Zenon DEF EInv
  <2>3. Sections' /\ Places' /\ Ownership' /\ Announcements' /\ Bounds'
    BY <2>1, SectionsKeeps, PlacesKeeps, OwnershipKeeps, AnnouncementsKeep, BoundsKeep, Zenon DEF EInv
  <2>4. ASSUME NEW r \in Readers, ReaderStep(r) PROVE Quiet'
    <3>1. UNCHANGED <<wpc, local, global_epoch, retired, freed>>
      BY <2>4, ReaderType, Zenon DEF EInv, writer
    <3>2. Loaded'
      BY <3>1, Zenon DEF EInv, Quiet, Loaded
    <3>3. \A w \in Writers : wpc'[w] = "idle" => before'[w] = {}
      BY <2>1, Observed, Zenon
    <3>4. ASSUME NEW w \in Writers, quiet'[w] PROVE NoneActive' /\ Undisturbed(w)'
      <4>1. NoneActive' /\ wpc[w] # "idle" /\ quiet[w] /\ before'[w] = before[w]
        BY <2>1, <3>1, <3>4, Observed, Zenon
      <4> QED BY <3>1, <4>1, Zenon DEF EInv, Quiet, Undisturbed, Gone
    <3> QED BY <3>2, <3>3, <3>4, Zenon DEF Quiet
  <2>5. Quiet'
    BY <2>1, <2>4, QuietKeeps, Zenon DEF EInv
  <2> QED BY <2>2, <2>3, <2>5, Zenon DEF EInv
<1> QED BY <1>1, <1>2, Zenon

(* The inductive invariant of EpochRcu holds in every behaviour. *)
THEOREM EpochInvariance == Spec => []EInv
BY EInit, ENext, PTL DEF Spec

(* reclaim never deletes what a reader that announced itself is reading,   *)
(* whatever the scans, forced advances and concurrent reclaims around it.  *)
THEOREM ReadersProtected == Spec => []ProtectedReads
<1>1. EInv => ProtectedReads
  <2> SUFFICES ASSUME EInv, ~ overtook, allocated <= MaxSlots, NEW r \in Readers
               PROVE  held[r] \notin freed
    BY Zenon DEF ProtectedReads, NoUseAfterFree
  <2>1. CASE held[r] # NoVersion
    BY <2>1, Zenon DEF EInv, Bounds, Protected
  <2>2. CASE held[r] = NoVersion
    <3>1. NoVersion \notin Old(current)
      BY DEF NoVersion, Old
    <3> QED BY <2>2, <3>1, Zenon DEF EInv, Places
  <2> QED BY <2>1, <2>2, Zenon
<1> QED BY <1>1, EpochInvariance, PTL

(* No deleter runs twice: what a reclaim has collected is in no list and   *)
(* in nobody else's hands.                                                 *)
THEOREM DeletersRunOnce == Spec => []DeletedOnce
<1>1. EInv => DeletedOnce
  BY DEF EInv, Places, ListedOnly, DoomedOnly, DeletedOnce
<1> QED BY <1>1, EpochInvariance, PTL

(* A reclaim during which no reader is active deletes all that had been    *)
(* retired before it began, or another reclaim has it.                     *)
THEOREM QuietReclaimFrees == Spec => ReclaimFreesAll
<1>1. EInv => \A w \in Writers : wpc[w] = "delete" /\ quiet[w] =>
        before[w] \subseteq freed \cup UNION {local[u].doomed : u \in Writers}
  <2> SUFFICES ASSUME EInv, NEW w \in Writers, wpc[w] = "delete", quiet[w], NEW v \in before[w]
               PROVE  v \in freed \cup UNION {local[u].doomed : u \in Writers}
    BY Zenon
  <2>1. Gone(v)
    BY Zenon DEF EInv, Quiet, Undisturbed
  <2> QED BY <2>1, Zenon DEF Gone
<1>2. EInv => [\A w \in Writers : wpc[w] = "delete" /\ wpc'[w] = "idle" /\ quiet[w] =>
        before[w] \subseteq freed \cup UNION {local[u].doomed : u \in Writers}]_vars
  BY <1>1, Zenon
<1> QED BY <1>2, EpochInvariance, PTL DEF ReclaimFreesAll
=============================================================================
