-------------------------- MODULE JournalAckProofs --------------------------
(***************************************************************************)
(* What append has returned a number for is replayed, for any number of    *)
(* threads, calls and records in a segment.                                *)
(*   AckInv    a segment append has left is complete and on disk, and the  *)
(*             mapped one is complete but for the places in use.           *)
(***************************************************************************)
EXTENDS JournalOrderProofs

-----------------------------------------------------------------------------
(* The inductive invariant.  Fifth part: what append has returned a number *)
(* for is found.                                                           *)
Whole == mishaps \subseteq {"overtaken"}

Valid(r, e) == r.seq # 0 /\ r.crc = e /\ r.event = e

(* A replay of F, when the directory has the segments ids, meets e. *)
Found(ids, F, id, i, e) ==
  /\ Valid(F[id].records[i], e)
  /\ \A s \in ids : s <= id => s \in DOMAIN F /\ F[s].header
  /\ \A j \in Slots : j < i => F[id].records[j].seq # 0

Stored ==
  \A e \in acked : \E id \in DOMAIN files : \E i \in Slots : Valid(files[id].records[i], e)
Promised ==
  \A e \in acked : \E id \in DOMAIN files : \E i \in Slots : Found(DOMAIN files, files, id, i, e)
Safe ==
  \A e \in flushed : \E id \in DOMAIN disk : \E i \in Slots : Found(DOMAIN files, disk, id, i, e)

(* Every segment has its header, but for one being set up; every one that  *)
(* is not mapped is complete and synced; the mapped one has a record in    *)
(* every place handed out, or an append that will put one there.           *)
Headed ==
  \A id \in DOMAIN files :
    files[id].header \/ (id = mapped /\ \E t \in Threads : pc[t] = "init")
Left ==
  \A id \in DOMAIN files : id # mapped =>
    /\ \A i \in Slots : files[id].records[i].seq # 0
    /\ id \in DOMAIN disk /\ disk[id] = files[id]
Filled ==
  mapped # NoSegment /\ (\A t \in Threads : pc[t] # "init") =>
    \A i \in Slots : i <= write_offset =>
      \/ files[mapped].records[i].seq # 0
      \/ \E t \in Threads : pc[t] \in {"number", "header"} /\ off[t] + 1 = i

AckInv ==
  /\ DiskInv
  /\ Whole => Stored /\ Safe
  /\ Whole /\ ~ is_open => Promised
  /\ Whole /\ is_open => Headed /\ Left /\ Filled

-----------------------------------------------------------------------------
(* What append has returned a number for is found *)

(* What is found stays found in files that agree with what was there. *)
LEMMA FoundStays ==
  ASSUME NEW F, NEW G, NEW ids, NEW new, NEW id \in DOMAIN F, NEW i \in Slots, NEW e,
         e # NoEvent, Found(ids, F, id, i, e),
         DOMAIN F \subseteq DOMAIN G, \A s \in DOMAIN F : Behind(F[s], G[s]),
         \A s \in new : s <= id => s \in ids
  PROVE  id \in DOMAIN G /\ Found(new, G, id, i, e)
<1>1. Valid(G[id].records[i], e)
  BY Zenon DEF Found, Valid, Behind
<1>2. \A s \in new : s <= id => s \in DOMAIN G /\ G[s].header
  BY Zenon DEF Found, Behind
<1>3. \A j \in Slots : j < i => G[id].records[j].seq # 0
  BY Zenon DEF Found, Behind
<1> QED BY <1>1, <1>2, <1>3, Zenon DEF Found

(* An open writer has every acknowledged event where a replay finds it,    *)
(* if no place before the last one taken is without a record header.       *)
LEMMA FoundNow ==
  ASSUME WType, Fresh, Stored, Headed, Left, Filled,
         \A t \in Threads : pc[t] \in {"number", "header"} => ~ (off[t] + 1 < write_offset)
  PROVE  Promised
<1>1. SUFFICES ASSUME NEW e \in acked
               PROVE  \E id \in DOMAIN files : \E i \in Slots : Found(DOMAIN files, files, id, i, e)
  BY Zenon DEF Promised
<1>2. PICK id \in DOMAIN files : \E i \in Slots : Valid(files[id].records[i], e)
  BY <1>1, Zenon DEF Stored
<1>3. PICK i \in Slots : Valid(files[id].records[i], e)
  BY <1>2, Zenon
<1>4. /\ \A s \in DOMAIN files : s \in Nat /\ s <= segment_id
      /\ segment_id \in Nat /\ write_offset \in Nat /\ off \in [Threads -> Nat]
      /\ mapped = NoSegment \/ mapped = segment_id
  BY Zenon DEF Fresh, WType
<1>5. files[id].records[i] # Nothing
  BY <1>3 DEF Valid, Nothing
<1>6. ~ (id = mapped /\ \E t \in Threads : pc[t] = "init")
  BY <1>5, Zenon DEF Fresh
<1>7. \A s \in DOMAIN files : s <= id => files[s].header
  <2>1. SUFFICES ASSUME NEW s \in DOMAIN files, s <= id, ~ files[s].header PROVE FALSE
    BY Zenon
  <2>2. s = mapped /\ \E t \in Threads : pc[t] = "init"
    BY <2>1, Zenon DEF Headed
  <2>3. id = mapped
    BY <1>4, <2>1, <2>2 DEF NoSegment
  <2> QED BY <1>6, <2>2, <2>3, Zenon
<1>8. ASSUME NEW j \in Slots, j < i PROVE files[id].records[j].seq # 0
  <2>1. CASE id # mapped
    BY <1>8, <2>1, Zenon DEF Left
  <2>2. CASE id = mapped
    <3>1. mapped # NoSegment /\ \A t \in Threads : pc[t] # "init"
      BY <1>4, <1>6, <2>2 DEF NoSegment
    <3>2. i <= write_offset
      BY <1>4, <1>5, <2>2, <3>1 DEF Fresh, Slots
    <3>3. j < write_offset /\ j <= write_offset
      BY <1>4, <1>8, <3>2 DEF Slots
    <3>4. \/ files[mapped].records[j].seq # 0
          \/ \E t \in Threads : pc[t] \in {"number", "header"} /\ off[t] + 1 = j
      BY <1>8, <3>1, <3>3, Zenon DEF Filled
    <3> QED BY <2>2, <3>3, <3>4, Zenon
  <2> QED BY <2>1, <2>2, Zenon
<1>9. Found(DOMAIN files, files, id, i, e)
  BY <1>3, <1>7, <1>8, Zenon DEF Found
<1> QED BY <1>9, Zenon

(* After a sync, what a replay of the files finds it finds on the disk. *)
LEMMA SyncedFinds ==
  ASSUME WType, Left, Promised
  PROVE  \A e \in acked : \E id \in DOMAIN Synced : \E i \in Slots :
           Found(DOMAIN files, Synced, id, i, e)
<1>1. \A id \in DOMAIN files : id \in DOMAIN Synced /\ Synced[id] = files[id]
  <2>1. CASE mapped = NoSegment
    <3>1. Synced = disk /\ \A id \in DOMAIN files : id # mapped
      BY <2>1, SyncedFacts DEF WType, NoSegment
    <3> QED BY <3>1, Zenon DEF Left
  <2>2. CASE mapped # NoSegment
    BY <2>2, SyncedFacts, Zenon DEF Left
  <2> QED BY <2>1, <2>2, Zenon
<1> QED BY <1>1 DEF Promised, Found

(* The first memcpy of append touches the mapped segment only. *)
LEMMA OthersStay ==
  ASSUME WType, Inside, NEW t \in Threads, WriteHeader(t) \/ WriteBody(t)
  PROVE  /\ mapped # NoSegment /\ UNCHANGED <<disk, mapping, write_offset, off>>
         /\ DOMAIN files' = DOMAIN files
         /\ \A id \in DOMAIN files : id # mapped => files'[id] = files[id]
         /\ \A id \in DOMAIN files : files'[id].header = files[id].header
         /\ \A u \in Threads : u # t => pc'[u] = pc[u]
         /\ pc'[t] \in {"body", "idle"}
<1>1. CASE WriteHeader(t)
  <2>1. Holding(t) /\ pc[t] = "header"
    BY <1>1, Zenon DEF WriteHeader, Holding
  <2>2. mapped # NoSegment /\ off[t] < SegmentRecords /\ ~ (off[t] >= SegmentRecords)
    BY <2>1, BoundsAssumption DEF Inside, WType
  <2>3. Goto(t, "body") /\ UNCHANGED <<disk, mapping, write_offset, off>>
    BY <1>1, <2>2, Zenon DEF WriteHeader
  <2>4. pc'[t] = "body" /\ \A u \in Threads : u # t => pc'[u] = pc[u]
    BY <2>3, GotoFacts, Zenon
  <2> QED BY <1>1, <2>2, <2>3, <2>4, WriteHeaderFacts, Zenon
<1>2. CASE WriteBody(t)
  <2>1. Holding(t) /\ pc[t] = "body"
    BY <1>2, Zenon DEF WriteBody, Holding
  <2>2. mapped # NoSegment /\ off[t] < SegmentRecords /\ dst[t] = Mapping
    BY <2>1, Zenon DEF Inside
  <2>3. /\ Goto(t, "idle") /\ UNCHANGED <<disk, mapping, write_offset, off>>
        /\ files' = [files EXCEPT ![mapped].records[off[t] + 1].event = EventOf(t)]
    BY <1>2, <2>2, Zenon DEF WriteBody, thread
  <2>4. pc'[t] = "idle" /\ \A u \in Threads : u # t => pc'[u] = pc[u]
    BY <2>3, GotoFacts, Zenon
  <2> QED BY <2>2, <2>3, <2>4, WriteBodyFacts, Zenon
<1> QED BY <1>1, <1>2, Zenon

(* A place taken is filled, or its append is about to fill it. *)
LEMMA FilledTaken ==
  ASSUME WType, Filled, NEW t \in Threads,
         pc'[t] = "number", \A u \in Threads : u # t => pc'[u] = pc[u],
         pc[t] \notin {"init", "number", "header"},
         off'[t] = write_offset, \A u \in Threads : u # t => off'[u] = off[u],
         write_offset' = write_offset + 1, UNCHANGED <<files, mapping>>
  PROVE  Filled'
<1>1. SUFFICES ASSUME mapped # NoSegment, \A u \in Threads : pc'[u] # "init",
                      NEW i \in Slots, i <= write_offset + 1
               PROVE  \/ files'[mapped].records[i].seq # 0
                      \/ \E u \in Threads : pc'[u] \in {"number", "header"} /\ off'[u] + 1 = i
  BY Zenon DEF Filled, mapping
<1>2. write_offset \in Nat /\ i \in Nat
  BY DEF WType, Slots
<1>3. CASE i = write_offset + 1
  BY <1>3, Zenon
<1>4. CASE i <= write_offset
  <2>1. \A u \in Threads : pc[u] # "init"
    BY <1>1, Zenon
  <2>2. \/ files[mapped].records[i].seq # 0
        \/ \E u \in Threads : pc[u] \in {"number", "header"} /\ off[u] + 1 = i
    BY <1>1, <1>4, <2>1, Zenon DEF Filled
  <2>3. CASE files[mapped].records[i].seq # 0
    BY <2>3, Zenon
  <2>4. CASE \E u \in Threads : pc[u] \in {"number", "header"} /\ off[u] + 1 = i
    <3>1. PICK u \in Threads : pc[u] \in {"number", "header"} /\ off[u] + 1 = i
      BY <2>4, Zenon
    <3>2. u # t /\ pc'[u] = pc[u] /\ off'[u] = off[u]
      BY <3>1, Zenon
    <3> QED BY <3>1, <3>2, Zenon
  <2> QED BY <2>2, <2>3, <2>4, Zenon
<1> QED BY <1>1, <1>2, <1>3, <1>4

(* A step that takes no place and gives none up. *)
LEMMA FilledStay ==
  ASSUME Filled, UNCHANGED <<files, mapping, write_offset>>,
         \A u \in Threads : pc[u] = "init" => pc'[u] = "init",
         \A u \in Threads : pc[u] \in {"number", "header"} =>
           pc'[u] \in {"number", "header"} /\ off'[u] = off[u]
  PROVE  Filled'
<1>1. SUFFICES ASSUME mapped # NoSegment, \A u \in Threads : pc'[u] # "init",
                      NEW i \in Slots, i <= write_offset
               PROVE  \/ files'[mapped].records[i].seq # 0
                      \/ \E u \in Threads : pc'[u] \in {"number", "header"} /\ off'[u] + 1 = i
  BY Zenon DEF Filled, mapping
<1>2. \A u \in Threads : pc[u] # "init"
  BY <1>1, Zenon
<1>3. \/ files[mapped].records[i].seq # 0
      \/ \E u \in Threads : pc[u] \in {"number", "header"} /\ off[u] + 1 = i
  BY <1>1, <1>2, Zenon DEF Filled
<1> QED BY <1>3, Zenon

(* Segments that append has left are complete and on disk; the mapped one  *)
(* is complete up to the places that are held.                             *)
LEMMA FullAppend ==
  ASSUME WType, Order, Inside, Fresh, Apart, Owned, Headed, Left, Filled,
         NEW t \in Threads, AppendStep(t), Whole', mishaps' = mishaps \cup NewMishaps
  PROVE  Headed' /\ Left' /\ Filled'
<1> USE BoundsAssumption
<1>1. /\ \A u \in Threads : pc[u] \in {"map", "init", "again"} => lock = u
      /\ \A u \in Threads : pc[u] = "map" => mapped = NoSegment
      /\ \A u \in Threads : pc[u] = "init" => mapped # NoSegment
  BY Zenon DEF Order, Rolling
<1>2. ASSUME UNCHANGED <<files, disk, mapping>>,
             \A u \in Threads : pc[u] = "init" => pc'[u] = "init"
      PROVE  Headed' /\ Left'
  BY <1>2, Zenon DEF Headed, Left, mapping
<1>3. CASE Reserve(t)
  <2>1. /\ Goto(t, IF write_offset + 1 > SegmentRecords THEN "lock" ELSE "number")
        /\ off' = [off EXCEPT ![t] = write_offset] /\ write_offset' = write_offset + 1
        /\ pc[t] = "reserve" /\ UNCHANGED <<files, disk, mapping>>
    BY <1>3, Zenon DEF Reserve, store
  <2>2. /\ off'[t] = write_offset /\ \A u \in Threads : u # t => off'[u] = off[u]
        /\ write_offset \in Nat
    BY <2>1, Zenon DEF WType
  <2>3. /\ pc'[t] = IF write_offset + 1 > SegmentRecords THEN "lock" ELSE "number"
        /\ \A u \in Threads : u # t => pc'[u] = pc[u]
    BY <2>1, GotoFacts, Zenon
  <2>4. Headed' /\ Left'
    BY <1>2, <2>1, <2>3, Zenon
  <2>5. CASE write_offset + 1 > SegmentRecords
    <3>1. SUFFICES ASSUME mapped # NoSegment, \A u \in Threads : pc'[u] # "init", NEW i \in Slots
                   PROVE  \/ files'[mapped].records[i].seq # 0
                          \/ \E u \in Threads : pc'[u] \in {"number", "header"} /\ off'[u] + 1 = i
      BY <2>1, <2>4, Zenon DEF Filled, mapping
    <3>2. i <= write_offset
      BY <2>2, <2>5 DEF Slots
    <3>3. \A u \in Threads : pc[u] # "init"
      BY <2>1, <2>3, <3>1, Zenon
    <3>4. \/ files[mapped].records[i].seq # 0
          \/ \E u \in Threads : pc[u] \in {"number", "header"} /\ off[u] + 1 = i
      BY <3>1, <3>2, <3>3, Zenon DEF Filled
    <3>5. \A u \in Threads : pc[u] \in {"number", "header"} => u # t
      BY <2>1, Zenon
    <3> QED BY <2>1, <2>2, <2>3, <3>4, <3>5, Zenon
  <2>6. CASE ~ (write_offset + 1 > SegmentRecords)
    BY <2>1, <2>2, <2>3, <2>4, <2>6, FilledTaken, Zenon
  <2> QED BY <2>5, <2>6, Zenon
<1>4. CASE ReserveAgain(t)
  <2>1. /\ Goto(t, "number") /\ pc[t] = "again" /\ off' = [off EXCEPT ![t] = write_offset]
        /\ write_offset' = write_offset + 1 /\ UNCHANGED <<files, disk, mapping>>
    BY <1>4, Zenon DEF ReserveAgain, store
  <2>2. off'[t] = write_offset /\ \A u \in Threads : u # t => off'[u] = off[u]
    BY <2>1, Zenon DEF WType
  <2>3. pc'[t] = "number" /\ \A u \in Threads : u # t => pc'[u] = pc[u]
    BY <2>1, GotoFacts, Zenon
  <2>4. Headed' /\ Left'
    BY <1>2, <2>1, <2>3, Zenon
  <2> QED BY <2>1, <2>2, <2>3, <2>4, FilledTaken, Zenon
<1>5. CASE RollDone(t) \/ Number(t)
  <2>1. /\ UNCHANGED <<files, disk, mapping, write_offset, off>>
        /\ (pc[t] = "lock" /\ Goto(t, "again")) \/ (pc[t] = "number" /\ Goto(t, "header"))
    BY <1>5, Zenon DEF RollDone, Number, store, thread
  <2>2. /\ (pc[t] = "lock" /\ pc'[t] = "again") \/ (pc[t] = "number" /\ pc'[t] = "header")
        /\ \A u \in Threads : u # t => pc'[u] = pc[u]
    BY <2>1, GotoFacts, Zenon
  <2>3. Headed' /\ Left'
    BY <1>2, <2>1, <2>2, Zenon
  <2> QED BY <2>1, <2>2, <2>3, FilledStay, Zenon
<1>6. CASE RollLock(t)
  <2>1. /\ Goto(t, "map") /\ pc[t] = "lock" /\ lock = NoThread
        /\ disk' = Synced /\ mapped' = NoSegment /\ files' = files
        /\ write_offset + 1 > SegmentRecords
    BY <1>6, Zenon DEF RollLock
  <2>2. pc'[t] = "map" /\ \A u \in Threads : u # t => pc'[u] = pc[u]
    BY <2>1, GotoFacts, Zenon
  <2>3. \A u \in Threads : pc[u] # "init" /\ pc[u] \notin {"number", "header"}
    <3>1. ~ InFlight
      BY MishapFacts, Zenon DEF Whole
    <3> QED BY <1>1, <2>1, <2>2, <3>1, Zenon DEF InFlight
  <2>4. Headed'
    BY <2>1, <2>3, Zenon DEF Headed
  <2>5. ASSUME NEW id \in DOMAIN files
        PROVE  /\ \A i \in Slots : files[id].records[i].seq # 0
               /\ id \in DOMAIN Synced /\ Synced[id] = files[id]
    <3>1. CASE id # mapped
      BY <2>5, <3>1, SyncedFacts, Zenon DEF Left
    <3>2. CASE id = mapped
      <4>1. mapped # NoSegment
        BY <2>5, <3>2 DEF WType, NoSegment
      <4>2. \A i \in Slots : i <= write_offset
        BY <2>1 DEF Slots, WType
      <4> QED BY <2>3, <3>2, <4>1, <4>2, SyncedFacts, Zenon DEF Filled
    <3> QED BY <3>1, <3>2, Zenon
  <2>6. Left'
    BY <2>1, <2>5, Zenon DEF Left
  <2>7. Filled'
    BY <2>1, Zenon DEF Filled
  <2> QED BY <2>4, <2>6, <2>7, Zenon
<1>7. CASE RollMap(t)
  <2>1. /\ Goto(t, "init") /\ pc[t] = "map" /\ files' = Created(segment_id)
        /\ mapped' = segment_id /\ disk' = disk
    BY <1>7, Zenon DEF RollMap
  <2>2. pc'[t] = "init"
    BY <2>1, GotoFacts, Zenon
  <2>3. mapped = NoSegment /\ segment_id \in Nat
    BY <1>1, <2>1, Zenon DEF WType
  <2>4. /\ DOMAIN files' = DOMAIN files \cup {segment_id}
        /\ \A id \in DOMAIN files : files'[id] = files[id]
    BY <2>1, <2>3, CreatedFacts, Zenon
  <2>5. \A id \in DOMAIN files : id # mapped
    BY <2>3 DEF WType, NoSegment
  <2>6. Headed'
    BY <2>1, <2>2, <2>4, <2>5, Zenon DEF Headed
  <2>7. Left'
    BY <2>1, <2>4, <2>5, ZenonT(30), SMT DEF Left
  <2>8. Filled'
    BY <2>2, Zenon DEF Filled
  <2> QED BY <2>6, <2>7, <2>8, Zenon
<1>8. CASE RollFail(t)
  <2>1. Goto(t, "failed") /\ pc[t] = "map" /\ UNCHANGED <<disk, mapping, write_offset>> /\ off' = off
    BY <1>8, Zenon DEF RollFail, thread
  <2>2. pc'[t] = "failed" /\ \A u \in Threads : u # t => pc'[u] = pc[u]
    BY <2>1, GotoFacts, Zenon
  <2>3. files' = files
    <3>1. ~ BadFile
      BY MishapFacts, Zenon DEF Whole
    <3> QED BY <2>1, <2>2, <3>1, Zenon DEF BadFile
  <2>4. Headed' /\ Left'
    BY <1>2, <2>1, <2>2, <2>3, Zenon
  <2> QED BY <2>1, <2>2, <2>3, <2>4, FilledStay, Zenon
<1>9. CASE RollHeader(t)
  <2>1. /\ Goto(t, "again") /\ pc[t] = "init" /\ files' = [files EXCEPT ![mapped].header = TRUE]
        /\ write_offset' = 0 /\ UNCHANGED <<disk, mapping>>
    BY <1>9, Zenon DEF RollHeader
  <2>2. mapped \in DOMAIN files
    BY <1>1, <2>1, Zenon DEF WType
  <2>3. /\ DOMAIN files' = DOMAIN files /\ files'[mapped].header = TRUE
        /\ \A id \in DOMAIN files : id # mapped => files'[id] = files[id]
    BY <2>1, <2>2, HeaderFacts, Zenon DEF WType
  <2>4. Headed'
    BY <2>3, Zenon DEF Headed
  <2>5. Left'
    BY <2>1, <2>3, Zenon DEF Left, mapping
  <2>6. Filled'
    BY <2>1 DEF Filled, Slots
  <2> QED BY <2>4, <2>5, <2>6, Zenon
<1>10. CASE WriteHeader(t) \/ WriteBody(t)
  <2>1. /\ mapped # NoSegment /\ UNCHANGED <<disk, mapping, write_offset, off>>
        /\ DOMAIN files' = DOMAIN files
        /\ \A id \in DOMAIN files : id # mapped => files'[id] = files[id]
        /\ \A id \in DOMAIN files : files'[id].header = files[id].header
        /\ \A u \in Threads : u # t => pc'[u] = pc[u]
        /\ pc'[t] \in {"body", "idle"} /\ pc[t] \in {"header", "body"}
    BY <1>10, OthersStay, Zenon DEF WriteHeader, WriteBody
  <2>2. Headed'
    BY <2>1, Zenon DEF Headed, mapping
  <2>3. Left'
    BY <2>1, ZenonT(30), SMT DEF Left, mapping
  <2>4. /\ \A i \in Slots : files[mapped].records[i].seq # 0 => files'[mapped].records[i].seq # 0
        /\ pc[t] = "header" => files'[mapped].records[off[t] + 1].seq # 0
    <3>1. CASE WriteHeader(t)
      <4>1. pc[t] = "header" /\ seq[t] # 0
        BY <3>1, Zenon DEF WriteHeader, Owned
      <4>2. off[t] < SegmentRecords
        BY <4>1, Zenon DEF Inside, Holding
      <4>3. /\ \A i \in Slots : i # off[t] + 1 => files'[mapped].records[i] = files[mapped].records[i]
            /\ files'[mapped].records[off[t] + 1].seq = seq[t]
        BY <2>1, <3>1, <4>2, WriteHeaderFacts, Zenon
      <4> QED BY <4>1, <4>3, Zenon
    <3>2. CASE WriteBody(t)
      <4>1. pc[t] = "body"
        BY <3>2, Zenon DEF WriteBody
      <4>2. ~ WriteHeader(t) /\ mapped \in DOMAIN files
        BY <2>1, <4>1, Zenon DEF WriteHeader, WType
      <4>3. \A i \in Slots : files'[mapped].records[i].seq = files[mapped].records[i].seq
        BY <4>2, RecordsStay, Zenon
      <4> QED BY <4>1, <4>3, Zenon
    <3> QED BY <1>10, <3>1, <3>2, Zenon
  <2>5. Filled'
    <3>1. SUFFICES ASSUME \A u \in Threads : pc'[u] # "init", NEW i \in Slots, i <= write_offset
                   PROVE  \/ files'[mapped].records[i].seq # 0
                          \/ \E u \in Threads : pc'[u] \in {"number", "header"} /\ off'[u] + 1 = i
      BY <2>1, Zenon DEF Filled, mapping
    <3>2. \A u \in Threads : pc[u] # "init"
      BY <2>1, <3>1, Zenon
    <3>3. \/ files[mapped].records[i].seq # 0
          \/ \E u \in Threads : pc[u] \in {"number", "header"} /\ off[u] + 1 = i
      BY <2>1, <3>1, <3>2, Zenon DEF Filled
    <3>4. ASSUME NEW u \in Threads, pc[u] \in {"number", "header"}, off[u] + 1 = i
          PROVE  \/ files'[mapped].records[i].seq # 0
                 \/ \E w \in Threads : pc'[w] \in {"number", "header"} /\ off'[w] + 1 = i
      <4>1. CASE u = t
        BY <2>1, <2>4, <3>4, <4>1, Zenon
      <4>2. CASE u # t
        BY <2>1, <3>4, <4>2, Zenon
      <4> QED BY <4>1, <4>2, Zenon
    <3> QED BY <2>4, <3>3, <3>4, Zenon
  <2> QED BY <2>2, <2>3, <2>5, Zenon
<1> QED BY <1>3, <1>4, <1>5, <1>6, <1>7, <1>8, <1>9, <1>10, Zenon DEF AppendStep

(* Nothing that append has returned a number for is an empty payload. *)
LEMMA EventsAreEvents ==
  ASSUME NEW e \in Threads \X Nat
  PROVE  e # NoEvent
<1>1. PICK a \in Threads, n \in Nat : e = <<a, n>>
  OBVIOUS
<1>2. Len(<<a, n>>) = 2 /\ Len(<< >>) = 0
  BY Zenon
<1> QED BY <1>1, <1>2, Zenon DEF NoEvent

(* A step of append keeps what is acknowledged in the files, and what was  *)
(* flushed on the disk.                                                    *)
LEMMA StoredAppend ==
  ASSUME DiskInv, Next, is_open, is_open', Whole, Inside, Fresh, Owned, Stored, Safe,
         NEW t \in Threads, AppendStep(t)
  PROVE  Stored' /\ Safe'
<1>1. WType /\ Order /\ PlaceInv /\ Undisturbed /\ Single
  BY Zenon DEF DiskInv, PlaceInv, RaceInv, Whole, Undisturbed, Single
<1>2. KeepsRecords
  BY <1>1, NothingOverwritten, Zenon
<1>3. DOMAIN files \subseteq DOMAIN files' /\ flushed' = flushed
  BY <1>1, AppendKeeps, Zenon
<1>4. \A e \in acked \cup flushed : e # NoEvent
  BY <1>1, EventsAreEvents, Zenon DEF WType
<1>5. ASSUME NEW id \in DOMAIN files, NEW i \in Slots, NEW e \in acked,
             Valid(files[id].records[i], e)
      PROVE  Valid(files'[id].records[i], e)
  BY <1>2, <1>4, <1>5, Zenon DEF KeepsRecords, Valid
<1>6. ASSUME NEW e \in acked
      PROVE  \E id \in DOMAIN files' : \E i \in Slots : Valid(files'[id].records[i], e)
  <2>1. PICK id \in DOMAIN files : \E i \in Slots : Valid(files[id].records[i], e)
    BY <1>6, Zenon DEF Stored
  <2> QED BY <1>3, <1>5, <1>6, <2>1, Zenon
<1>7. Stored'
  <2>1. CASE acked' = acked
    BY <1>6, <2>1, Zenon DEF Stored, Valid
  <2>2. CASE acked' # acked
    <3>1. WriteBody(t)
      BY <2>2, Zenon DEF AppendStep, Reserve, RollLock, RollDone, RollMap, RollFail, RollHeader,
                  ReserveAgain, Number, WriteHeader, Fault
    <3>2. pc[t] = "body" /\ Holding(t)
      BY <3>1, Zenon DEF WriteBody, Holding
    <3>3. mapped # NoSegment /\ off[t] < SegmentRecords /\ dst[t] = Mapping
      BY <3>2, Zenon DEF Inside
    <3>4. /\ files' = [files EXCEPT ![mapped].records[off[t] + 1].event = EventOf(t)]
          /\ acked' = acked \cup {EventOf(t)}
      BY <3>1, <3>3, Zenon DEF WriteBody
    <3>5. /\ mapped \in DOMAIN files /\ off[t] + 1 \in Slots
          /\ files'[mapped].records[off[t] + 1].seq = files[mapped].records[off[t] + 1].seq
          /\ files'[mapped].records[off[t] + 1].crc = files[mapped].records[off[t] + 1].crc
          /\ files'[mapped].records[off[t] + 1].event = EventOf(t)
      BY <1>1, <3>3, <3>4, WriteBodyFacts, Zenon
    <3>6. Valid(files'[mapped].records[off[t] + 1], EventOf(t))
      BY <3>2, <3>5, Zenon DEF Valid, Owned, Own
    <3>7. ASSUME NEW e \in acked'
          PROVE  \E id \in DOMAIN files' : \E i \in Slots : Valid(files'[id].records[i], e)
      <4>1. CASE e \in acked
        BY <1>6, <4>1, Zenon
      <4>2. CASE e = EventOf(t)
        <5>1. mapped \in DOMAIN files'
          BY <1>3, <3>5, Zenon
        <5> QED BY <3>5, <3>6, <4>2, <5>1, Zenon
      <4> QED BY <3>4, <3>7, <4>1, <4>2, Zenon
    <3> QED BY <3>7, Zenon DEF Stored, Valid
  <2> QED BY <2>1, <2>2, Zenon
<1>8. ASSUME NEW id \in DOMAIN disk, NEW s \in DOMAIN files', s <= id PROVE s \in DOMAIN files
  <2>1. CASE DOMAIN files' = DOMAIN files
    BY <1>8, <2>1, Zenon
  <2>2. CASE DOMAIN files' # DOMAIN files
    <3>1. RollMap(t) \/ RollFail(t)
      BY <2>2, Zenon DEF AppendStep, Reserve, RollLock, RollDone, RollHeader, ReserveAgain, Number,
                  WriteHeader, WriteBody, Fault, store
    <3>2. segment_id \in Nat /\ pc[t] = "map"
      BY <1>1, <3>1, Zenon DEF WType, RollMap, RollFail
    <3>3. DOMAIN Created(segment_id) = DOMAIN files \cup {segment_id}
      BY <1>1, <3>2, CreatedFacts, Zenon
    <3>4. DOMAIN files' \subseteq DOMAIN files \cup {segment_id}
      BY <3>1, <3>3, Zenon DEF RollMap, RollFail
    <3>5. id \in DOMAIN files /\ id \in Nat /\ id <= segment_id /\ id # segment_id
      BY <1>1, <1>8, <3>2, Zenon DEF WType, Fresh
    <3> QED BY <1>8, <3>2, <3>4, <3>5, SMTT(30)
  <2> QED BY <2>1, <2>2, Zenon
<1>9. Safe'
  <2>1. SUFFICES ASSUME NEW e \in flushed
                 PROVE  \E id \in DOMAIN disk' : \E i \in Slots : Found(DOMAIN files', disk', id, i, e)
    BY <1>3, Zenon DEF Safe, Found, Valid
  <2>2. PICK id \in DOMAIN disk : \E i \in Slots : Found(DOMAIN files, disk, id, i, e)
    BY <2>1, Zenon DEF Safe
  <2>3. PICK i \in Slots : Found(DOMAIN files, disk, id, i, e)
    BY <2>2, Zenon
  <2>4. e # NoEvent
    BY <1>4, <2>1, Zenon
  <2>5. DOMAIN disk \subseteq DOMAIN disk' /\ \A s \in DOMAIN disk : Behind(disk[s], disk'[s])
    <3>1. CASE disk' = disk
      BY <3>1, BehindItself, Zenon
    <3>2. CASE disk' = Synced
      <4>1. \A s \in DOMAIN disk : Behind(disk[s], files[s])
        BY <1>1, Zenon DEF DiskInv
      <4>2. \A s \in DOMAIN disk : s \in DOMAIN Synced /\ (Synced[s] = disk[s] \/ Synced[s] = files[s])
        BY <1>1, SyncedFacts, Zenon
      <4> QED BY <3>2, <4>1, <4>2, BehindItself, Zenon
    <3> QED BY <3>1, <3>2, AppendDisk, Zenon
  <2>6. \A s \in DOMAIN files' : s <= id => s \in DOMAIN files
    BY <1>8, Zenon
  <2>7. id \in DOMAIN disk' /\ Found(DOMAIN files', disk', id, i, e)
    BY <2>3, <2>4, <2>5, <2>6, FoundStays, Zenon
  <2> QED BY <2>7, Zenon
<1> QED BY <1>7, <1>9, Zenon

(* A power failure keeps on the disk, and so in the files, what was        *)
(* flushed.                                                                *)
LEMMA SafeAfterPowerLoss ==
  ASSUME DiskInv, Undisturbed, Safe, PowerLoss
  PROVE  Stored' /\ Promised' /\ Safe'
<1>1. WType
  BY Zenon DEF DiskInv, PlaceInv, RaceInv
<1>2. /\ DOMAIN files' = DOMAIN files /\ disk' = files' /\ acked' = flushed /\ flushed' = flushed
  BY <1>1, PowerLossFacts, Zenon DEF PowerLoss
<1>3. DOMAIN disk \subseteq DOMAIN files'
  BY <1>1, <1>2, Zenon DEF WType
<1>4. ASSUME NEW s \in DOMAIN disk PROVE Behind(disk[s], files'[s])
  <2>1. s \in DOMAIN files /\ Behind(disk[s], files[s]) /\ OnDisk(s) = disk[s]
    BY <1>1, <1>4, OnDiskFacts, Zenon DEF WType, DiskInv
  <2>2. files'[s].header = files[s].header \/ files'[s].header = disk[s].header
    BY <1>1, <2>1, PowerLossFacts, Zenon
  <2>3. ASSUME NEW i \in Slots
        PROVE  /\ \/ /\ files'[s].records[i].seq = files[s].records[i].seq
                     /\ files'[s].records[i].crc = files[s].records[i].crc
                  \/ /\ files'[s].records[i].seq = disk[s].records[i].seq
                     /\ files'[s].records[i].crc = disk[s].records[i].crc
               /\ \/ files'[s].records[i].event = files[s].records[i].event
                  \/ files'[s].records[i].event = disk[s].records[i].event
    BY <1>1, <2>1, <2>3, PowerLossFacts, Zenon
  <2> QED BY <2>1, <2>2, <2>3, Zenon DEF Behind
<1>5. ASSUME NEW e \in flushed
      PROVE  \E id \in DOMAIN files' : \E i \in Slots : Found(DOMAIN files', files', id, i, e)
  <2>1. PICK id \in DOMAIN disk : \E i \in Slots : Found(DOMAIN files, disk, id, i, e)
    BY <1>5, Zenon DEF Safe
  <2>2. PICK i \in Slots : Found(DOMAIN files, disk, id, i, e)
    BY <2>1, Zenon
  <2>3. e # NoEvent
    BY <1>1, <1>5, EventsAreEvents, Zenon DEF WType
  <2>4. \A s \in DOMAIN files' : s <= id => s \in DOMAIN files
    BY <1>2, Zenon
  <2>5. id \in DOMAIN files' /\ Found(DOMAIN files', files', id, i, e)
    BY <1>3, <1>4, <2>2, <2>3, <2>4, FoundStays, Zenon
  <2> QED BY <2>5, Zenon
<1>6. Promised'
  BY <1>2, <1>5, Zenon DEF Promised, Found, Valid
<1>7. Safe'
  BY <1>2, <1>5 DEF Safe, Found, Valid
<1>8. Stored'
  BY <1>2, <1>5 DEF Stored, Found, Valid
<1> QED BY <1>6, <1>7, <1>8, Zenon

(* Every step keeps what append has returned a number for. *)
LEMMA AckStep ==
  ASSUME AckInv, [Next]_vars
  PROVE  AckInv'
<1>1. DiskInv'
  BY DiskStep, Zenon DEF AckInv
<1>2. SUFFICES ASSUME Whole'
               PROVE  /\ Stored' /\ Safe' /\ (~ is_open' => Promised')
                      /\ is_open' => Headed' /\ Left' /\ Filled'
  BY <1>1, Zenon DEF AckInv
<1>3. DiskInv /\ PlaceInv /\ RaceInv /\ WType /\ Order
  BY Zenon DEF AckInv, DiskInv, PlaceInv, RaceInv
<1>4. CASE Next
  <2>1. mishaps' = mishaps \cup NewMishaps
    BY <1>4, Zenon DEF Next
  <2>2. mishaps \subseteq mishaps'
    BY <2>1, MishapFacts, Zenon
  <2>3. Whole /\ Single /\ Single' /\ Steady /\ Undisturbed
    BY <1>2, <2>2, Zenon DEF Whole, Single, Steady, Undisturbed
  <2>4. Stored /\ Safe /\ (~ is_open => Promised)
    BY <2>3, Zenon DEF AckInv
  <2>5. ASSUME is_open PROVE Inside /\ Fresh /\ Apart /\ Owned /\ Headed /\ Left /\ Filled
    BY <1>3, <2>3, <2>5, Zenon DEF AckInv, PlaceInv, RaceInv
  <2>6. ASSUME NEW t \in Threads, AppendStep(t)
        PROVE  /\ Stored' /\ Safe' /\ (~ is_open' => Promised')
               /\ is_open' => Headed' /\ Left' /\ Filled'
    <3>1. is_open /\ is_open'
      BY <1>3, <2>3, <2>6, StepBusy, AppendKeeps, Zenon DEF Order, Undisturbed
    <3>2. Stored' /\ Safe'
      BY <1>3, <1>4, <2>3, <2>4, <2>5, <2>6, <3>1, StoredAppend, Zenon
    <3>3. Headed' /\ Left' /\ Filled'
      BY <1>2, <1>3, <2>1, <2>5, <2>6, <3>1, FullAppend, Zenon
    <3> QED BY <3>1, <3>2, <3>3, Zenon
  <2>7. ASSUME NEW t \in Threads, AppendCall(t) \/ AppendRefused(t)
        PROVE  /\ Stored' /\ Safe' /\ (~ is_open' => Promised')
               /\ is_open' => Headed' /\ Left' /\ Filled'
    <3>1. /\ UNCHANGED <<files, disk, mapping, write_offset, off, is_open, acked, flushed>>
          /\ Goto(t, "reserve") \/ Goto(t, "refused")
      BY <2>7, Zenon DEF AppendCall, AppendRefused, store, thread
    <3>2. pc'[t] \in {"reserve", "refused"} /\ \A u \in Threads : u # t => pc'[u] = pc[u]
      BY <1>3, <3>1, GotoFacts, Zenon
    <3>3. Idle(t)
      BY <2>7, Zenon DEF AppendCall, AppendRefused
    <3>4. \A u \in Threads : pc[u] \in {"init", "number", "header"} => pc'[u] = pc[u]
      BY <3>2, <3>3, Zenon DEF Idle
    <3>5. Stored' /\ Safe' /\ (~ is_open' => Promised')
      BY <2>4, <3>1 DEF Stored, Safe, Promised, Found, Valid
    <3>6. ASSUME is_open' PROVE Headed' /\ Left' /\ Filled'
      <4>1. Headed /\ Left /\ Filled
        BY <2>5, <3>1, <3>6, Zenon
      <4>2. Headed' /\ Left'
        BY <3>1, <3>4, <4>1, Zenon DEF Headed, Left, mapping
      <4> QED BY <3>1, <3>4, <4>1, <4>2, FilledStay, Zenon
    <3> QED BY <3>5, <3>6, Zenon
  <2>8. CASE Open
    <3>1. /\ files = << >> /\ DOMAIN files' = {0} /\ mapped' = 0
          /\ files'[0].header = TRUE
      BY <1>3, <2>1, <2>3, <2>8, FirstOpen, Zenon
    <3>2. is_open' /\ acked' = acked /\ flushed' = flushed /\ write_offset' = 0
      BY <2>8, Zenon DEF Open
    <3>3. DOMAIN files = {} /\ DOMAIN disk = {}
      <4>1. DOMAIN files = {}
        BY <3>1
      <4> QED BY <1>3, <4>1, Zenon DEF WType
    <3>4. acked = {} /\ flushed = {}
      BY <2>4, <3>3, Zenon DEF Stored, Safe
    <3>5. Stored' /\ Safe'
      BY <3>2, <3>4, Zenon DEF Stored, Safe
    <3>6. Headed' /\ Left'
      BY <3>1, Zenon DEF Headed, Left
    <3>7. Filled'
      BY <3>2 DEF Filled, Slots
    <3> QED BY <3>2, <3>5, <3>6, <3>7, Zenon
  <2>9. CASE OpenFails
    <3>1. /\ ~ is_open /\ ~ is_open' /\ acked' = acked /\ flushed' = flushed /\ disk' = Synced
          /\ files' = files \/ files' = Created(0)
      BY <2>9, Zenon DEF OpenFails
    <3>2. disk' = disk
      <4>1. mapped = NoSegment
        BY <1>3, <2>3, <3>1, Zenon DEF Order, Undisturbed
      <4> QED BY <1>3, <3>1, <4>1, SyncedFacts, Zenon
    <3>3. CASE 0 \in DOMAIN files
      <4>1. /\ DOMAIN Created(0) = DOMAIN files
            /\ \A id \in DOMAIN files : Created(0)[id] = files[id]
        BY <1>3, <3>3, CreatedFacts, Zenon
      <4>2. DOMAIN files' = DOMAIN files /\ \A id \in DOMAIN files : files'[id] = files[id]
        BY <3>1, <4>1, Zenon
      <4>3. Stored'
        BY <2>4, <3>1, <4>2 DEF Stored, Valid
      <4>4. Safe'
        BY <2>4, <3>1, <3>2, <4>2 DEF Safe, Found, Valid
      <4>5. Promised'
        BY <2>4, <3>1, <4>2 DEF Promised, Found, Valid
      <4> QED BY <3>1, <4>3, <4>4, <4>5, Zenon
    <3>4. CASE 0 \notin DOMAIN files
      <4>1. files = << >>
        BY <1>3, <3>4, Zenon DEF Order
      <4>2. DOMAIN files = {} /\ DOMAIN disk = {}
        <5>1. DOMAIN files = {}
          BY <4>1
        <5> QED BY <1>3, <5>1, Zenon DEF WType
      <4>3. acked = {} /\ flushed = {}
        BY <2>4, <4>2, Zenon DEF Stored, Safe
      <4> QED BY <3>1, <4>3, Zenon DEF Stored, Safe, Promised
    <3> QED BY <3>3, <3>4, Zenon
  <2>10. ASSUME is_open, Flush \/ Close \/ Kill PROVE Promised
    <3>1. ~ Hole
      BY <1>2, <2>1, MishapFacts, Zenon DEF Whole
    <3>2. ~ is_open' \/ flushes' # flushes
      <4>1. CASE Flush
        <5>1. flushes' = flushes + 1 /\ opens' = opens
          BY <4>1, Zenon DEF Flush
        <5>2. flushes \in Nat
          BY <1>3, Zenon DEF WType
        <5> QED BY <5>1, <5>2
      <4>2. CASE Close \/ Kill
        BY <4>2, Zenon DEF Close, Kill, Restarted
      <4> QED BY <2>10, <4>1, <4>2, Zenon
    <3>3. \A t \in Threads : pc[t] \in {"number", "header"} => ~ (off[t] + 1 < write_offset)
      BY <2>10, <3>1, <3>2, Zenon DEF Hole
    <3> QED BY <1>3, <2>4, <2>5, <2>10, <3>3, FoundNow, Zenon
  <2>11. CASE Flush
    <3>1. /\ is_open /\ is_open' /\ disk' = Synced /\ flushed' = acked /\ acked' = acked
          /\ UNCHANGED <<files, mapping, write_offset, pc, off>>
      BY <2>11, Zenon DEF Flush, thread
    <3>2. Promised /\ Headed /\ Left /\ Filled
      BY <2>5, <2>10, <2>11, <3>1, Zenon
    <3>3. Safe'
      BY <1>3, <3>1, <3>2, SyncedFinds DEF Safe, Found, Valid
    <3>4. Stored'
      BY <2>4, <3>1, Zenon, SMT DEF Stored, Valid
    <3>5. Headed'
      BY <3>1, <3>2, Zenon DEF Headed, mapping
    <3>6. Left'
      <4>1. \A id \in DOMAIN disk : id # mapped => id \in DOMAIN Synced /\ Synced[id] = disk[id]
        BY <1>3, SyncedFacts, Zenon
      <4> QED BY <3>1, <3>2, <4>1, Zenon DEF Left, mapping
    <3>7. Filled'
      BY <3>1, <3>2, FilledStay, Zenon
    <3> QED BY <3>1, <3>3, <3>4, <3>5, <3>6, <3>7, Zenon
  <2>12. CASE Close
    <3>1. /\ is_open /\ ~ is_open' /\ disk' = Synced /\ flushed' = acked /\ acked' = acked
          /\ files' = files
      BY <2>12, Zenon DEF Close
    <3>2. Promised /\ Left
      BY <2>5, <2>10, <2>12, <3>1, Zenon
    <3>3. Safe'
      BY <1>3, <3>1, <3>2, SyncedFinds, SMTT(30) DEF Safe, Found, Valid
    <3>4. Stored' /\ Promised'
      BY <2>4, <3>1, <3>2 DEF Stored, Promised, Found, Valid
    <3> QED BY <3>1, <3>3, <3>4, Zenon
  <2>13. CASE Kill
    <3>1. is_open /\ ~ is_open' /\ UNCHANGED <<files, disk, acked, flushed>>
      BY <2>13, Zenon DEF Kill, Restarted, store
    <3>2. Promised
      BY <2>10, <2>13, <3>1, Zenon
    <3>3. Stored' /\ Safe' /\ Promised'
      BY <2>4, <3>1, <3>2 DEF Stored, Safe, Promised, Found, Valid
    <3> QED BY <3>1, <3>3, Zenon
  <2>14. CASE PowerLoss
    <3>1. ~ is_open'
      BY <2>14, Zenon DEF PowerLoss, Restarted
    <3> QED BY <1>3, <2>3, <2>4, <2>14, <3>1, SafeAfterPowerLoss, Zenon
  <2> QED BY <1>4, <2>6, <2>7, <2>8, <2>9, <2>11, <2>12, <2>13, <2>14, Zenon, SMT DEF Next
<1>5. CASE UNCHANGED vars
  <2>1. /\ UNCHANGED <<files, disk, mapping, write_offset, off, pc, is_open, acked, flushed, mishaps>>
    BY <1>5, Zenon DEF vars, store, thread
  <2>2. Whole
    BY <1>2, <2>1, Zenon, SMT DEF Whole
  <2>3. Stored' /\ Safe' /\ (~ is_open' => Promised')
    BY <2>1, <2>2 DEF AckInv, Stored, Safe, Promised, Found, Valid
  <2>4. ASSUME is_open' PROVE Headed' /\ Left' /\ Filled'
    <3>1. Headed /\ Left /\ Filled
      BY <2>1, <2>2, <2>4, Zenon DEF AckInv
    <3>2. Headed' /\ Left'
      BY <2>1, <3>1, Zenon DEF Headed, Left, mapping
    <3> QED BY <2>1, <3>1, <3>2, FilledStay, Zenon
  <2> QED BY <2>3, <2>4, Zenon
<1> QED BY <1>4, <1>5, Zenon

(* What append has returned a number for is kept, always. *)
THEOREM AckInvariance == Spec => []AckInv
<1>1. Init => AckInv
  <2>1. Init => DOMAIN disk = {} /\ ~ is_open /\ acked = {} /\ flushed = {}
    BY DEF Init
  <2> QED BY <2>1, RaceStart, Zenon DEF AckInv, DiskInv, PlaceInv, Stored, Safe, Promised
<1> QED BY <1>1, AckStep, PTL DEF Spec

(* What is found in the files is what JournalReader returns. *)
LEMMA FoundIsReplayed ==
  ASSUME NEW id \in DOMAIN files, NEW i \in Slots, NEW e, Found(DOMAIN files, files, id, i, e)
  PROVE  <<id, i>> \in Replayed(Journal) /\ Record(<<id, i>>).event = e
<1>1. /\ DOMAIN Journal = DOMAIN files
      /\ \A s \in DOMAIN files : /\ DOMAIN Journal[s].records = Slots
                                 /\ Journal[s].header = files[s].header
      /\ \A s \in DOMAIN files : \A j \in Slots :
           Journal[s].records[j] = KindOf(files[s].records[j])
  BY Zenon DEF Journal
<1>2. \A r : r.seq # 0 => KindOf(r) \notin {"zero", "damaged"}
  BY Zenon DEF KindOf
<1>3. KindOf(files[id].records[i]) = "valid"
  BY Zenon DEF Found, Valid, KindOf
<1>4. <<id, i>> \in Places(Journal)
  BY <1>1 DEF Places
<1>5. \A s \in DOMAIN Journal : s <= id => Journal[s].header
  BY <1>1, Zenon DEF Found
<1>6. \A j \in DOMAIN Journal[id].records :
        j < i => Journal[id].records[j] \notin {"zero", "damaged"}
  BY <1>1, <1>2 DEF Found
<1>7. <<id, i>> \in Replayed(Journal)
  <2>1. <<id, i>>[1] = id /\ <<id, i>>[2] = i
    BY Zenon
  <2>2. <<id, i>> \in ValidRecords(Journal)
    BY <1>1, <1>3, <1>4, <2>1, Zenon DEF ValidRecords
  <2>3. ~ SomeBefore(Journal, <<id, i>>, {"zero"}) /\ ~ SomeBefore(Journal, <<id, i>>, {"damaged"})
    BY <1>6, <2>1, Zenon DEF SomeBefore
  <2> QED BY <1>5, <2>1, <2>2, <2>3, Zenon DEF Replayed, PromisedRecords
<1> QED BY <1>7, Zenon DEF Found, Valid, Record

(* replay_engine.h:35 and :43, "Replays all events": what append has       *)
(* returned a number for is found by a replay, and after a power failure   *)
(* what was flushed, as long as no rollover or close races with an append, *)
(* no hole or bad file is left, and no directory is opened again.          *)
THEOREM AckedAreReplayed == Spec => []AckedReplayed
<1>1. AckInv => AckedReplayed
  <2>1. SUFFICES ASSUME AckInv, Whole, Quiescent, NEW e \in acked
                 PROVE  e \in {Record(place).event : place \in Replayed(Journal)}
    BY Zenon DEF AckedReplayed, AllAckedReplayed, Whole
  <2>2. Promised
    <3>1. CASE ~ is_open
      BY <2>1, <3>1, Zenon DEF AckInv
    <3>2. CASE is_open
      <4>1. WType /\ Fresh /\ Stored /\ Headed /\ Left /\ Filled
        BY <2>1, <3>2, Zenon DEF AckInv, DiskInv, PlaceInv, RaceInv, Whole, Single
      <4>2. \A t \in Threads : pc[t] \notin {"number", "header"}
        BY <2>1, Zenon DEF Quiescent, Idle
      <4> QED BY <4>1, <4>2, FoundNow, Zenon
    <3> QED BY <3>1, <3>2, Zenon
  <2>3. PICK id \in DOMAIN files : \E i \in Slots : Found(DOMAIN files, files, id, i, e)
    BY <2>1, <2>2, Zenon DEF Promised
  <2>4. PICK i \in Slots : Found(DOMAIN files, files, id, i, e)
    BY <2>3, Zenon
  <2>5. <<id, i>> \in Replayed(Journal) /\ Record(<<id, i>>).event = e
    BY <2>4, FoundIsReplayed, Zenon
  <2> QED BY <2>5, Zenon
<1> QED BY <1>1, AckInvariance, PTL
=============================================================================
