------------------------ MODULE JournalWriterProofs ------------------------
(***************************************************************************)
(* What JournalWriter promises, for any number of threads, calls and       *)
(* records in a segment.  The history variable mishaps says which races    *)
(* have happened; the fewer there were, the more of the invariant holds.   *)
(* It has five parts, each resting on ones before.  This module has the    *)
(* first:                                                                  *)
(*   RaceInv   who holds the rollover lock, and that the places appends    *)
(*             hold are inside the mapped segment.                         *)
(* JournalOrderProofs and JournalAckProofs have the others.                *)
(***************************************************************************)
EXTENDS JournalWriter, TLAPS

-----------------------------------------------------------------------------
(* The inductive invariant.  First part: types, and who is where. *)

Steps ==
  {"idle", "failed", "refused", "reserve", "lock", "map", "init", "again", "number",
   "header", "body"}

IsRecord(r) == DOMAIN r = {"seq", "crc", "event"} /\ r.seq \in Nat
IsFile(f) ==
  /\ DOMAIN f = {"header", "records"} /\ DOMAIN f.records = Slots
  /\ \A i \in Slots : IsRecord(f.records[i])

WType ==
  /\ DOMAIN files \subseteq Nat /\ \A id \in DOMAIN files : IsFile(files[id])
  /\ DOMAIN disk \subseteq DOMAIN files /\ \A id \in DOMAIN disk : IsFile(disk[id])
  /\ segment_id \in Nat /\ mapped \in {NoSegment, segment_id}
  /\ mapped # NoSegment => mapped \in DOMAIN files
  /\ write_offset \in Nat /\ sequence_counter \in Nat /\ flushes \in Nat
  /\ pc \in [Threads -> Steps]
  /\ off \in [Threads -> Nat] /\ seq \in [Threads -> Nat] /\ calls \in [Threads -> Nat]
  /\ DOMAIN dst = Threads /\ \A t \in Threads : pc[t] = "body" => off[t] < SegmentRecords
  /\ acked \subseteq Threads \X Nat /\ flushed \subseteq Threads \X Nat

(* A thread in a rollover has the lock; one that holds a place has done    *)
(* its fetch_add and not yet returned.                                     *)
Rolling(t) == pc[t] \in {"map", "init", "again"}
Holding(t) == pc[t] \in {"number", "header", "body"}

Order ==
  /\ \A t \in Threads : Rolling(t) => lock = t
  /\ \A t \in Threads : pc[t] = "map" => mapped = NoSegment
  /\ \A t \in Threads : pc[t] = "init" => mapped # NoSegment
  /\ 0 \notin DOMAIN files => files = << >> /\ ~ is_open /\ Quiescent
  /\ "closed" \notin mishaps /\ ~ is_open => Quiescent /\ mapped = NoSegment
  /\ FaultOnlyInRaces

Steady ==
  /\ "inflight" \notin mishaps /\ "overshot" \notin mishaps
  /\ "closed" \notin mishaps \/ "reopened" \notin mishaps

(* An append that holds a place holds one of the mapped segment; while     *)
(* none is mapped the offset sends every append to the lock.               *)
Inside ==
  /\ \A t \in Threads : Holding(t) =>
       /\ mapped # NoSegment /\ off[t] < SegmentRecords
       /\ pc[t] = "body" => dst[t] = Mapping
  /\ mapped = NoSegment => write_offset >= SegmentRecords
  /\ \A t \in Threads : pc[t] \in {"map", "init"} => write_offset >= SegmentRecords
  /\ \A t \in Threads : pc[t] = "again" => mapped # NoSegment

RaceInv == WType /\ Order /\ (Steady /\ is_open => Inside)

-----------------------------------------------------------------------------
(* Facts about the steps *)

(* What a step records of the mishaps it meets. *)
LEMMA MishapFacts ==
  ASSUME mishaps' = mishaps \cup NewMishaps
  PROVE  /\ mishaps \subseteq mishaps'
         /\ "inflight" \notin mishaps' => ~ InFlight
         /\ "overshot" \notin mishaps' => ~ Overshot
         /\ "closed" \notin mishaps' => ~ ClosedUnder
         /\ "hole" \notin mishaps' => ~ Hole
         /\ "badfile" \notin mishaps' => ~ BadFile
         /\ "reopened" \notin mishaps' => ~ Reopened
         /\ "overtaken" \notin mishaps' => ~ Overtaken
  BY Zenon DEF NewMishaps

(* A new segment file is empty, and the others are kept. *)
LEMMA CreatedFacts ==
  ASSUME WType, NEW id \in Nat
  PROVE  /\ DOMAIN Created(id) = DOMAIN files \cup {id}
         /\ \A i \in DOMAIN files : Created(id)[i] = files[i]
         /\ id \notin DOMAIN files => Created(id)[id] = EmptyFile
         /\ \A i \in DOMAIN Created(id) : IsFile(Created(id)[i])
         /\ Created(id) # << >>
<1>1. IsFile(EmptyFile)
  BY Zenon DEF IsFile, IsRecord, EmptyFile, Nothing
<1>2. /\ DOMAIN Created(id) = DOMAIN files \cup {id}
      /\ \A i \in DOMAIN files : Created(id)[i] = files[i]
      /\ id \notin DOMAIN files => Created(id)[id] = EmptyFile
  BY Zenon DEF Created
<1>3. \A i \in DOMAIN Created(id) : IsFile(Created(id)[i])
  BY <1>1, <1>2, Zenon DEF WType
<1>4. DOMAIN << >> = {}
  OBVIOUS
<1>5. Created(id) # << >>
  BY <1>2, <1>4, Zenon
<1> QED BY <1>2, <1>3, <1>5, Zenon

(* A sync brings the mapped segment to the disk. *)
LEMMA SyncedFacts ==
  ASSUME WType
  PROVE  /\ mapped = NoSegment => Synced = disk
         /\ mapped # NoSegment =>
              DOMAIN Synced = DOMAIN disk \cup {mapped} /\ Synced[mapped] = files[mapped]
         /\ \A id \in DOMAIN disk : id # mapped => Synced[id] = disk[id]
         /\ DOMAIN disk \subseteq DOMAIN Synced /\ DOMAIN Synced \subseteq DOMAIN files
         /\ \A id \in DOMAIN Synced : IsFile(Synced[id])
<1>1. CASE mapped = NoSegment
  BY <1>1, Zenon DEF Synced, WType
<1>2. CASE mapped # NoSegment
  <2>1. /\ DOMAIN Synced = DOMAIN disk \cup {mapped} /\ Synced[mapped] = files[mapped]
        /\ \A id \in DOMAIN disk : id # mapped => Synced[id] = disk[id]
    BY <1>2, Zenon DEF Synced
  <2> QED BY <1>2, <2>1, Zenon DEF WType
<1> QED BY <1>1, <1>2, Zenon

(* The header of a segment is written. *)
LEMMA HeaderFacts ==
  ASSUME NEW F, \A id \in DOMAIN F : IsFile(F[id]), NEW m \in DOMAIN F
  PROVE  LET G == [F EXCEPT ![m].header = TRUE] IN
         /\ DOMAIN G = DOMAIN F /\ \A id \in DOMAIN F : IsFile(G[id])
         /\ \A id \in DOMAIN F : G[id].records = F[id].records
         /\ \A id \in DOMAIN F : id # m => G[id] = F[id]
         /\ G[m].header = TRUE
  BY Zenon DEF IsFile

(* The first memcpy of append: sequence number and CRC of one record. *)
LEMMA WriteHeaderFacts ==
  ASSUME WType, NEW t \in Threads, WriteHeader(t), mapped # NoSegment, off[t] < SegmentRecords
  PROVE  /\ mapped \in DOMAIN files /\ off[t] + 1 \in Slots
         /\ DOMAIN files' = DOMAIN files /\ \A id \in DOMAIN files : IsFile(files'[id])
         /\ \A id \in DOMAIN files : files'[id].header = files[id].header
         /\ \A id \in DOMAIN files : id # mapped => files'[id] = files[id]
         /\ \A i \in Slots : i # off[t] + 1 => files'[mapped].records[i] = files[mapped].records[i]
         /\ files'[mapped].records[off[t] + 1].seq = seq[t]
         /\ files'[mapped].records[off[t] + 1].crc = EventOf(t)
         /\ files'[mapped].records[off[t] + 1].event = files[mapped].records[off[t] + 1].event
<1>1. /\ mapped \in DOMAIN files /\ off[t] + 1 \in Slots
      /\ IsFile(files[mapped]) /\ seq[t] \in Nat
  BY BoundsAssumption DEF WType, Slots
<1>2. PICK k \in Slots : k = off[t] + 1
  BY <1>1, Zenon
<1>3. PICK x \in Nat : x = seq[t]
  BY <1>1, Zenon
<1>4. PICK v : v = EventOf(t)
  BY Zenon
<1>5. files' = [files EXCEPT ![mapped].records[k].seq = x, ![mapped].records[k].crc = v]
  <2>1. ~ (off[t] >= SegmentRecords)
    BY BoundsAssumption DEF WType
  <2>2. files' = [files EXCEPT ![mapped].records[off[t] + 1].seq = seq[t],
                               ![mapped].records[off[t] + 1].crc = EventOf(t)]
    BY <2>1, Zenon DEF WriteHeader
  <2> QED BY <1>2, <1>3, <1>4, <2>2, Zenon
<1>6. PICK G : G = [files EXCEPT ![mapped].records[k].seq = x]
  BY Zenon
<1>7. /\ DOMAIN G = DOMAIN files /\ IsFile(G[mapped])
      /\ \A id \in DOMAIN files : id # mapped => G[id] = files[id]
      /\ G[mapped].header = files[mapped].header
      /\ \A i \in Slots : i # k => G[mapped].records[i] = files[mapped].records[i]
      /\ G[mapped].records[k].seq = x
      /\ G[mapped].records[k].event = files[mapped].records[k].event
  BY <1>1, <1>6, Zenon DEF IsFile, IsRecord
<1>8. PICK H : H = [G EXCEPT ![mapped].records[k].crc = v]
  BY Zenon
<1>9. /\ DOMAIN H = DOMAIN G /\ IsFile(H[mapped])
      /\ \A id \in DOMAIN G : id # mapped => H[id] = G[id]
      /\ H[mapped].header = G[mapped].header
      /\ \A i \in Slots : i # k => H[mapped].records[i] = G[mapped].records[i]
      /\ H[mapped].records[k].seq = G[mapped].records[k].seq
      /\ H[mapped].records[k].event = G[mapped].records[k].event
      /\ H[mapped].records[k].crc = v
  BY <1>1, <1>7, <1>8 DEF IsFile, IsRecord
<1>10. files' = H
  BY <1>5, <1>6, <1>8, Zenon
<1> QED BY <1>1, <1>2, <1>3, <1>4, <1>7, <1>9, <1>10, ZenonT(30), SMT DEF WType

(* The second memcpy of append: the payload of one record. *)
LEMMA WriteBodyFacts ==
  ASSUME WType, NEW t \in Threads, mapped # NoSegment, off[t] < SegmentRecords,
         files' = [files EXCEPT ![mapped].records[off[t] + 1].event = EventOf(t)]
  PROVE  /\ mapped \in DOMAIN files /\ off[t] + 1 \in Slots
         /\ DOMAIN files' = DOMAIN files /\ \A id \in DOMAIN files : IsFile(files'[id])
         /\ \A id \in DOMAIN files : files'[id].header = files[id].header
         /\ \A id \in DOMAIN files : id # mapped => files'[id] = files[id]
         /\ \A i \in Slots : i # off[t] + 1 => files'[mapped].records[i] = files[mapped].records[i]
         /\ files'[mapped].records[off[t] + 1].seq = files[mapped].records[off[t] + 1].seq
         /\ files'[mapped].records[off[t] + 1].crc = files[mapped].records[off[t] + 1].crc
         /\ files'[mapped].records[off[t] + 1].event = EventOf(t)
<1> DEFINE k == off[t] + 1
           v == EventOf(t)
<1>1. files' = [files EXCEPT ![mapped].records[k].event = v]
  BY Zenon
<1> HIDE DEF v
<1>2. mapped \in DOMAIN files /\ k \in Slots /\ IsFile(files[mapped])
  BY BoundsAssumption DEF WType, Slots
<1> HIDE DEF k
<1>4. /\ DOMAIN files' = DOMAIN files /\ IsFile(files'[mapped])
      /\ \A id \in DOMAIN files : id # mapped => files'[id] = files[id]
      /\ files'[mapped].header = files[mapped].header
      /\ \A i \in Slots : i # k => files'[mapped].records[i] = files[mapped].records[i]
      /\ files'[mapped].records[k].seq = files[mapped].records[k].seq
      /\ files'[mapped].records[k].event = v
      /\ files'[mapped].records[k].crc = files[mapped].records[k].crc
  BY <1>1, <1>2 DEF IsFile, IsRecord
<1> QED BY <1>2, <1>4, Zenon DEF WType, k, v

(* What the disk has of a segment, if it has the segment, is a segment. *)
LEMMA OnDiskFacts ==
  ASSUME WType, NEW id \in DOMAIN files
  PROVE  /\ IsFile(OnDisk(id))
         /\ id \in DOMAIN disk => OnDisk(id) = disk[id]
         /\ id \notin DOMAIN disk => \A i \in Slots : OnDisk(id).records[i] = Nothing
<1>1. IsFile(EmptyFile) /\ \A i \in Slots : EmptyFile.records[i] = Nothing
  BY Zenon DEF IsFile, IsRecord, EmptyFile, Nothing
<1> QED BY <1>1, Zenon DEF OnDisk, WType

(* A power failure leaves of each record header, and of each payload, what *)
(* the page cache or what the disk has.                                    *)
LEMMA PowerLossFacts ==
  ASSUME WType, PowerLoss
  PROVE  /\ DOMAIN files' = DOMAIN files /\ \A id \in DOMAIN files : IsFile(files'[id])
         /\ disk' = files'
         /\ \A id \in DOMAIN files :
              \/ files'[id].header = files[id].header
              \/ files'[id].header = OnDisk(id).header
         /\ \A id \in DOMAIN files : \A i \in Slots :
              \/ /\ files'[id].records[i].seq = files[id].records[i].seq
                 /\ files'[id].records[i].crc = files[id].records[i].crc
              \/ /\ files'[id].records[i].seq = OnDisk(id).records[i].seq
                 /\ files'[id].records[i].crc = OnDisk(id).records[i].crc
         /\ \A id \in DOMAIN files : \A i \in Slots :
              \/ files'[id].records[i].event = files[id].records[i].event
              \/ files'[id].records[i].event = OnDisk(id).records[i].event
<1>1. PICK headers \in SUBSET DOMAIN files, heads \in SUBSET Dirty, bodies \in SUBSET Dirty :
       files' = [id \in DOMAIN files |->
         [header |-> IF id \in headers THEN files[id].header ELSE OnDisk(id).header,
          records |-> [i \in Slots |->
            LET new == files[id].records[i]
                old == OnDisk(id).records[i]
                hdr == IF <<id, i>> \in heads THEN new ELSE old
            IN [seq |-> hdr.seq, crc |-> hdr.crc,
                event |-> IF <<id, i>> \in bodies THEN new.event ELSE old.event]]]]
  BY Zenon DEF PowerLoss
<1>2. DOMAIN files' = DOMAIN files /\ disk' = files'
  BY <1>1, Zenon DEF PowerLoss
<1>3. ASSUME NEW id \in DOMAIN files
      PROVE  /\ DOMAIN files'[id] = {"header", "records"} /\ DOMAIN files'[id].records = Slots
             /\ \/ files'[id].header = files[id].header
                \/ files'[id].header = OnDisk(id).header
  BY <1>1, <1>3, Zenon
<1>4. ASSUME NEW id \in DOMAIN files, NEW i \in Slots
      PROVE  /\ IsRecord(files'[id].records[i])
             /\ \/ /\ files'[id].records[i].seq = files[id].records[i].seq
                   /\ files'[id].records[i].crc = files[id].records[i].crc
                \/ /\ files'[id].records[i].seq = OnDisk(id).records[i].seq
                   /\ files'[id].records[i].crc = OnDisk(id).records[i].crc
             /\ \/ files'[id].records[i].event = files[id].records[i].event
                \/ files'[id].records[i].event = OnDisk(id).records[i].event
  <2>1. PICK new : new = files[id].records[i]
    BY Zenon
  <2>2. PICK old : old = OnDisk(id).records[i]
    BY Zenon
  <2>3. PICK hdr : hdr = IF <<id, i>> \in heads THEN new ELSE old
    BY Zenon
  <2>4. PICK body : body = IF <<id, i>> \in bodies THEN new.event ELSE old.event
    BY Zenon
  <2>5. files'[id].records[i] = [seq |-> hdr.seq, crc |-> hdr.crc, event |-> body]
    BY <1>1, <1>4, <2>1, <2>2, <2>3, <2>4, Zenon
  <2>6. IsRecord(new) /\ IsRecord(old)
    BY <1>4, <2>1, <2>2, OnDiskFacts, Zenon DEF WType, IsFile
  <2>7. hdr.seq \in Nat
    BY <2>3, <2>6, Zenon DEF IsRecord
  <2>8. IsRecord(files'[id].records[i])
    BY <2>5, <2>7 DEF IsRecord
  <2>9. /\ files'[id].records[i].seq = hdr.seq /\ files'[id].records[i].crc = hdr.crc
        /\ files'[id].records[i].event = body
    BY <2>5
  <2> QED BY <2>1, <2>2, <2>3, <2>4, <2>8, <2>9, Zenon
<1>5. \A id \in DOMAIN files : IsFile(files'[id])
  BY <1>3, <1>4, Zenon DEF IsFile
<1> QED BY <1>2, <1>3, <1>4, <1>5, Zenon

-----------------------------------------------------------------------------
(* No store outside the mapping except in the three races *)

(* A step of append keeps the types. *)
LEMMA TypeAppend ==
  ASSUME WType, NEW t \in Threads, AppendCall(t) \/ AppendRefused(t) \/ AppendStep(t)
  PROVE  WType'
<1> DEFINE Moved == /\ pc' \in [Threads -> Steps]
                    /\ \A u \in Threads : pc'[u] = "body" => off'[u] < SegmentRecords
           FilesOK == /\ DOMAIN files' \subseteq Nat /\ \A id \in DOMAIN files' : IsFile(files'[id])
                      /\ DOMAIN files \subseteq DOMAIN files'
<1> USE BoundsAssumption
<1>1. CASE AppendCall(t)
  <2>1. Moved
    BY <1>1, Zenon DEF AppendCall, Goto, thread, bounds, WType, Steps
  <2>2. calls' \in [Threads -> Nat]
    BY <1>1 DEF AppendCall, bounds, WType
  <2> QED BY <1>1, <2>1, <2>2, Zenon DEF AppendCall, store, mapping, counters, thread, bounds, WType
<1>2. CASE AppendRefused(t)
  <2>1. Moved
    BY <1>2, Zenon DEF AppendRefused, Goto, thread, bounds, WType, Steps
  <2> QED BY <1>2, <2>1, Zenon DEF AppendRefused, store, mapping, counters, thread, bounds, WType
<1>3. CASE Reserve(t)
  <2>1. Moved
    BY <1>3, Zenon DEF Reserve, Goto, bounds, WType, Steps
  <2>2. off' \in [Threads -> Nat] /\ write_offset' \in Nat
    BY <1>3 DEF Reserve, bounds, WType
  <2> QED BY <1>3, <2>1, <2>2, Zenon DEF Reserve, store, mapping, counters, bounds, WType
<1>4. CASE RollLock(t)
  <2>1. Moved
    BY <1>4, Zenon DEF RollLock, Goto, thread, bounds, WType, Steps
  <2>2. /\ DOMAIN disk' \subseteq DOMAIN files /\ \A id \in DOMAIN disk' : IsFile(disk'[id])
    BY <1>4, SyncedFacts, Zenon DEF RollLock
  <2>3. segment_id' \in Nat /\ mapped' = NoSegment
    BY <1>4 DEF RollLock, bounds, WType
  <2> QED BY <1>4, <2>1, <2>2, <2>3, Zenon DEF RollLock, counters, thread, bounds, WType
<1>5. CASE RollDone(t)
  <2>1. Moved
    BY <1>5, Zenon DEF RollDone, Goto, thread, bounds, WType, Steps
  <2> QED BY <1>5, <2>1, Zenon DEF RollDone, store, mapping, counters, thread, bounds, WType
<1>6. CASE RollMap(t)
  <2>1. Moved
    BY <1>6, Zenon DEF RollMap, Goto, thread, bounds, WType, Steps
  <2>2. FilesOK /\ segment_id \in DOMAIN files'
    <3>1. segment_id \in Nat
      BY Zenon DEF WType
    <3>2. /\ DOMAIN Created(segment_id) = DOMAIN files \cup {segment_id}
          /\ \A id \in DOMAIN Created(segment_id) : IsFile(Created(segment_id)[id])
      BY <3>1, CreatedFacts, Zenon
    <3> QED BY <1>6, <3>1, <3>2, Zenon DEF RollMap, bounds, WType
  <2> QED BY <1>6, <2>1, <2>2, Zenon DEF RollMap, counters, thread, bounds, WType
<1>7. CASE RollFail(t)
  <2>1. Moved
    BY <1>7, Zenon DEF RollFail, Goto, thread, bounds, WType, Steps
  <2>2. FilesOK
    <3>1. segment_id \in Nat
      BY Zenon DEF WType
    <3>2. /\ DOMAIN Created(segment_id) = DOMAIN files \cup {segment_id}
          /\ \A id \in DOMAIN Created(segment_id) : IsFile(Created(segment_id)[id])
      BY <3>1, CreatedFacts, Zenon
    <3> QED BY <1>7, <3>1, <3>2, Zenon DEF RollFail, bounds, WType
  <2> QED BY <1>7, <2>1, <2>2, Zenon DEF RollFail, mapping, counters, thread, bounds, WType
<1>8. CASE RollHeader(t)
  <2>1. Moved
    BY <1>8, Zenon DEF RollHeader, Goto, thread, bounds, WType, Steps
  <2>2. DOMAIN files' = DOMAIN files /\ \A id \in DOMAIN files' : IsFile(files'[id])
    <3>1. CASE mapped \in DOMAIN files
      BY <1>8, <3>1, HeaderFacts, Zenon DEF RollHeader, bounds, WType
    <3>2. CASE mapped \notin DOMAIN files
      <4>1. DOMAIN files' = DOMAIN files /\ \A id \in DOMAIN files : files'[id] = files[id]
        BY <1>8, <3>2, Zenon DEF RollHeader
      <4> QED BY <4>1, Zenon DEF WType
    <3> QED BY <3>1, <3>2, Zenon
  <2> QED BY <1>8, <2>1, <2>2, Zenon DEF RollHeader, mapping, counters, thread, bounds, WType
<1>9. CASE ReserveAgain(t)
  <2>1. Moved
    BY <1>9, Zenon DEF ReserveAgain, Goto, bounds, WType, Steps
  <2>2. off' \in [Threads -> Nat] /\ write_offset' \in Nat
    BY <1>9 DEF ReserveAgain, bounds, WType
  <2> QED BY <1>9, <2>1, <2>2, Zenon DEF ReserveAgain, store, mapping, counters, bounds, WType
<1>10. CASE Number(t)
  <2>1. Moved
    BY <1>10, Zenon DEF Number, Goto, bounds, WType, Steps
  <2>2. seq' \in [Threads -> Nat] /\ sequence_counter' \in Nat
    BY <1>10 DEF Number, bounds, WType
  <2> QED BY <1>10, <2>1, <2>2, Zenon DEF Number, store, mapping, bounds, WType
<1>11. CASE WriteHeader(t)
  <2>1. CASE mapped # NoSegment /\ off[t] < SegmentRecords
    <3>1. /\ UNCHANGED <<disk, mapping, write_offset, counters, off, seq, calls, bounds, acked, flushed>>
          /\ dst' = [dst EXCEPT ![t] = Mapping] /\ Goto(t, "body")
      <4>1. ~ (off[t] >= SegmentRecords)
        BY <2>1 DEF WType
      <4> QED BY <1>11, <2>1, <4>1, Zenon DEF WriteHeader
    <3>2. Moved
      BY <2>1, <3>1, Zenon DEF Goto, bounds, WType, Steps
    <3>3. DOMAIN files' = DOMAIN files /\ \A id \in DOMAIN files' : IsFile(files'[id])
      BY <1>11, <2>1, WriteHeaderFacts, Zenon
    <3>4. DOMAIN dst' = Threads
      BY <3>1, Zenon DEF WType
    <3> QED BY <3>1, <3>2, <3>3, <3>4, Zenon DEF mapping, counters, bounds, WType
  <2>2. CASE ~ (mapped # NoSegment /\ off[t] < SegmentRecords)
    <3>1. Fault
      BY <1>11, <2>2, Zenon DEF WriteHeader
    <3> QED BY <3>1, Zenon DEF Fault, store, mapping, counters, thread, bounds, WType
  <2> QED BY <2>1, <2>2, Zenon
<1>12. CASE WriteBody(t)
  <2>1. CASE Fault
    BY <2>1, Zenon DEF Fault, store, mapping, counters, thread, bounds, WType
  <2>2. CASE /\ mapped # NoSegment
             /\ files' = [files EXCEPT ![mapped].records[off[t] + 1].event = EventOf(t)]
             /\ acked' = acked \cup {EventOf(t)}
             /\ Goto(t, "idle")
             /\ UNCHANGED <<disk, mapping, write_offset, sequence_counter, thread, calls, bounds, flushed>>
    <3>1. Moved
      BY <2>2, Zenon DEF Goto, thread, bounds, WType, Steps
    <3>2. off[t] < SegmentRecords
      BY <1>12, Zenon DEF WriteBody, bounds, WType
    <3>3. DOMAIN files' = DOMAIN files /\ \A id \in DOMAIN files' : IsFile(files'[id])
      BY <2>2, <3>2, WriteBodyFacts, Zenon
    <3>4. acked' \subseteq Threads \X Nat
      BY <2>2 DEF EventOf, bounds, WType
    <3> QED BY <2>2, <3>1, <3>3, <3>4, Zenon DEF mapping, thread, bounds, WType
  <2> QED BY <1>12, <2>1, <2>2, Zenon DEF WriteBody
<1> QED BY <1>1, <1>2, <1>3, <1>4, <1>5, <1>6, <1>7, <1>8, <1>9, <1>10, <1>11, <1>12, Zenon DEF AppendStep

(* open, flush, close and the end of a process keep the types. *)
LEMMA TypeOther ==
  ASSUME WType, Open \/ OpenFails \/ Flush \/ Close \/ Kill \/ PowerLoss
  PROVE  WType'
<1> USE BoundsAssumption
<1>1. ASSUME disk' = Synced
      PROVE  DOMAIN disk' \subseteq DOMAIN files /\ \A id \in DOMAIN disk' : IsFile(disk'[id])
  BY <1>1, SyncedFacts, Zenon
<1>2. CASE Open
  <2>1. /\ DOMAIN Created(0) = DOMAIN files \cup {0}
        /\ \A id \in DOMAIN Created(0) : IsFile(Created(0)[id])
    BY CreatedFacts, Zenon
  <2>2. files' = [Created(0) EXCEPT ![0].header = TRUE]
    BY <1>2, Zenon DEF Open
  <2>3. DOMAIN files' = DOMAIN files \cup {0} /\ \A id \in DOMAIN files' : IsFile(files'[id])
    BY <2>1, <2>2, HeaderFacts, Zenon
  <2>4. /\ disk' = Synced /\ segment_id' = 0 /\ mapped' = 0 /\ write_offset' = 0
        /\ UNCHANGED <<counters, pc, thread, calls, flushes, acked, flushed>>
    BY <1>2, Zenon DEF Open
  <2> QED BY <1>1, <2>3, <2>4 DEF counters, thread, bounds, WType
<1>3. CASE OpenFails
  <2>1. /\ DOMAIN Created(0) = DOMAIN files \cup {0}
        /\ \A id \in DOMAIN Created(0) : IsFile(Created(0)[id])
    BY CreatedFacts, Zenon
  <2>2. /\ DOMAIN files' \subseteq Nat /\ DOMAIN files \subseteq DOMAIN files'
        /\ \A id \in DOMAIN files' : IsFile(files'[id])
    BY <1>3, <2>1 DEF OpenFails, bounds, WType
  <2> QED BY <1>1, <1>3, <2>2, Zenon DEF OpenFails, counters, thread, bounds, WType
<1>4. CASE Flush
  BY <1>1, <1>4 DEF Flush, mapping, counters, thread, bounds, WType
<1>5. CASE Close
  BY <1>1, <1>5, Zenon DEF Close, counters, thread, bounds, WType
<1>6. CASE Kill
  BY <1>6, Zenon DEF Kill, Restarted, store, thread, bounds, WType, Steps
<1>7. CASE PowerLoss
  <2>1. /\ DOMAIN files' = DOMAIN files /\ \A id \in DOMAIN files : IsFile(files'[id])
        /\ disk' = files'
    BY <1>7, PowerLossFacts, Zenon
  <2>2. /\ Restarted /\ acked' = flushed /\ flushed' = flushed
    BY <1>7, Zenon DEF PowerLoss
  <2> QED BY <2>1, <2>2, Zenon DEF Restarted, thread, bounds, WType, Steps
<1> QED BY <1>2, <1>3, <1>4, <1>5, <1>6, <1>7, Zenon

(* A step of append moves one thread. *)
LEMMA GotoFacts ==
  ASSUME WType, NEW t \in Threads, NEW place, Goto(t, place)
  PROVE  pc'[t] = place /\ \A u \in Threads : u # t => pc'[u] = pc[u]
  BY Zenon DEF WType, Goto

(* A thread is inside append when it takes a step of append. *)
LEMMA StepBusy ==
  ASSUME NEW t \in Threads, AppendStep(t)
  PROVE  ~ Idle(t) /\ ~ Quiescent
  BY Zenon DEF AppendStep, Idle, Quiescent, Reserve, RollLock, RollDone, RollMap, RollFail,
         RollHeader, ReserveAgain, Number, WriteHeader, WriteBody

(* append neither opens nor closes the writer, and removes no file. *)
LEMMA AppendKeeps ==
  ASSUME WType, NEW t \in Threads, AppendStep(t)
  PROVE  /\ is_open' = is_open /\ opens' = opens /\ flushes' = flushes /\ calls' = calls
         /\ DOMAIN files \subseteq DOMAIN files' /\ flushed' = flushed
<1>1. CASE Reserve(t) \/ RollDone(t) \/ ReserveAgain(t) \/ Number(t) \/ RollLock(t)
  BY <1>1, Zenon DEF Reserve, RollDone, ReserveAgain, Number, RollLock, store, bounds
<1>2. CASE RollMap(t) \/ RollFail(t)
  <2>1. segment_id \in Nat
    BY Zenon DEF WType
  <2>2. DOMAIN files \subseteq DOMAIN Created(segment_id)
    BY <2>1, CreatedFacts, Zenon
  <2> QED BY <1>2, <2>2, Zenon DEF RollMap, RollFail, bounds
<1>3. CASE RollHeader(t)
  BY <1>3, Zenon DEF RollHeader, bounds
<1>4. CASE WriteHeader(t)
  BY <1>4, Zenon DEF WriteHeader, Fault, store, bounds
<1>5. CASE WriteBody(t)
  BY <1>5, Zenon DEF WriteBody, Fault, store, bounds
<1> QED BY <1>1, <1>2, <1>3, <1>4, <1>5, Zenon DEF AppendStep

(* The lock discipline holds after a step of append. *)
LEMMA OrderAppend ==
  ASSUME WType, Order, NEW t \in Threads, AppendStep(t), ~ fault,
         Steady /\ is_open => Inside, mishaps' = mishaps \cup NewMishaps
  PROVE  Order'
<1> USE BoundsAssumption
<1> DEFINE Locks == /\ \A u \in Threads : pc'[u] \in {"map", "init", "again"} => lock' = u
                    /\ \A u \in Threads : pc'[u] = "map" => mapped' = NoSegment
                    /\ \A u \in Threads : pc'[u] = "init" => mapped' # NoSegment
<1>1. ~ Quiescent /\ is_open' = is_open /\ 0 \in DOMAIN files'
  BY StepBusy, AppendKeeps, Zenon DEF Order
<1>2. "closed" \notin mishaps' => is_open'
  <2>1. mishaps \subseteq mishaps'
    BY MishapFacts, Zenon
  <2> QED BY <1>1, <2>1, Zenon DEF Order
<1>3. ASSUME Locks, fault' => mishaps' \cap {"inflight", "overshot", "closed"} # {}
      PROVE  Order'
  BY <1>1, <1>2, <1>3, Zenon DEF Order, Rolling, FaultOnlyInRaces
<1>4. (\A u \in Threads : pc[u] \in {"map", "init", "again"} => lock = u)
      /\ (\A u \in Threads : pc[u] = "map" => mapped = NoSegment)
      /\ (\A u \in Threads : pc[u] = "init" => mapped # NoSegment)
  BY Zenon DEF Order, Rolling
<1>5. ASSUME fault' = fault PROVE ~ fault'
  BY <1>5, Zenon
<1>6. CASE Reserve(t)
  <2>1. PICK place \in {"lock", "number"} : Goto(t, place)
    BY <1>6, Zenon DEF Reserve
  <2>2. pc'[t] \in {"lock", "number"} /\ \A u \in Threads : u # t => pc'[u] = pc[u]
    BY <2>1, GotoFacts, Zenon
  <2>3. Locks
    BY <1>4, <1>6, <2>2, Zenon DEF Reserve, mapping
  <2>4. fault' = fault
    BY <1>6, Zenon DEF Reserve
  <2> QED BY <1>3, <1>5, <2>3, <2>4, Zenon
<1>7. CASE RollLock(t)
  <2>1. Goto(t, "map")
    BY <1>7, Zenon DEF RollLock
  <2>2. pc'[t] = "map" /\ \A u \in Threads : u # t => pc'[u] = pc[u]
    BY <2>1, GotoFacts, Zenon
  <2>3. Locks
    BY <1>4, <1>7, <2>2, Zenon DEF RollLock
  <2>4. fault' = fault
    BY <1>7, Zenon DEF RollLock
  <2> QED BY <1>3, <1>5, <2>3, <2>4, Zenon
<1>8. CASE RollDone(t)
  <2>1. Goto(t, "again")
    BY <1>8, Zenon DEF RollDone
  <2>2. pc'[t] = "again" /\ \A u \in Threads : u # t => pc'[u] = pc[u]
    BY <2>1, GotoFacts, Zenon
  <2>3. Locks
    BY <1>4, <1>8, <2>2, Zenon DEF RollDone, mapping
  <2>4. fault' = fault
    BY <1>8, Zenon DEF RollDone
  <2> QED BY <1>3, <1>5, <2>3, <2>4, Zenon
<1>9. CASE RollMap(t)
  <2>1. Goto(t, "init")
    BY <1>9, Zenon DEF RollMap
  <2>2. pc'[t] = "init" /\ \A u \in Threads : u # t => pc'[u] = pc[u]
    BY <2>1, GotoFacts, Zenon
  <2>3. Locks
    BY <1>4, <1>9, <2>2 DEF RollMap, NoSegment, WType
  <2>4. fault' = fault
    BY <1>9, Zenon DEF RollMap
  <2> QED BY <1>3, <1>5, <2>3, <2>4, Zenon
<1>10. CASE RollFail(t)
  <2>1. Goto(t, "failed")
    BY <1>10, Zenon DEF RollFail
  <2>2. pc'[t] = "failed" /\ \A u \in Threads : u # t => pc'[u] = pc[u]
    BY <2>1, GotoFacts, Zenon
  <2>3. Locks
    BY <1>4, <1>10, <2>2, Zenon DEF RollFail, mapping
  <2>4. fault' = fault
    BY <1>10, Zenon DEF RollFail
  <2> QED BY <1>3, <1>5, <2>3, <2>4, Zenon
<1>11. CASE RollHeader(t)
  <2>1. Goto(t, "again")
    BY <1>11, Zenon DEF RollHeader
  <2>2. pc'[t] = "again" /\ \A u \in Threads : u # t => pc'[u] = pc[u]
    BY <2>1, GotoFacts, Zenon
  <2>3. Locks
    BY <1>4, <1>11, <2>2, Zenon DEF RollHeader, mapping
  <2>4. fault' = fault
    BY <1>11, Zenon DEF RollHeader
  <2> QED BY <1>3, <1>5, <2>3, <2>4, Zenon
<1>12. CASE ReserveAgain(t)
  <2>1. Goto(t, "number")
    BY <1>12, Zenon DEF ReserveAgain
  <2>2. pc'[t] = "number" /\ \A u \in Threads : u # t => pc'[u] = pc[u]
    BY <2>1, GotoFacts, Zenon
  <2>3. Locks
    BY <1>4, <1>12, <2>2, Zenon DEF ReserveAgain, mapping
  <2>4. fault' = fault
    BY <1>12, Zenon DEF ReserveAgain
  <2> QED BY <1>3, <1>5, <2>3, <2>4, Zenon
<1>13. CASE Number(t)
  <2>1. Goto(t, "header")
    BY <1>13, Zenon DEF Number
  <2>2. pc'[t] = "header" /\ \A u \in Threads : u # t => pc'[u] = pc[u]
    BY <2>1, GotoFacts, Zenon
  <2>3. Locks
    BY <1>4, <1>13, <2>2, Zenon DEF Number, mapping
  <2>4. fault' = fault
    BY <1>13, Zenon DEF Number
  <2> QED BY <1>3, <1>5, <2>3, <2>4, Zenon
<1>14. ASSUME Fault, Steady /\ is_open => FALSE PROVE Order'
  <2>1. Locks
    BY <1>4, <1>14, Zenon DEF Fault, mapping
  <2>2. mishaps \subseteq mishaps'
    BY MishapFacts, Zenon
  <2>3. mishaps' \cap {"inflight", "overshot", "closed"} # {}
    BY <1>14, <1>1, <1>2, <2>2, Zenon DEF Steady
  <2> QED BY <1>3, <2>1, <2>3, Zenon
<1>15. CASE WriteHeader(t)
  <2>1. CASE mapped # NoSegment /\ off[t] < SegmentRecords
    <3>1. ~ (off[t] >= SegmentRecords)
      BY <2>1 DEF WType
    <3>2. Goto(t, "body") /\ fault' = fault /\ UNCHANGED <<mapping, lock>>
      BY <1>15, <2>1, <3>1, Zenon DEF WriteHeader
    <3>3. pc'[t] = "body" /\ \A u \in Threads : u # t => pc'[u] = pc[u]
      BY <3>2, GotoFacts, Zenon
    <3>4. Locks
      BY <1>4, <3>2, <3>3, Zenon DEF mapping
    <3> QED BY <1>3, <1>5, <3>2, <3>4, Zenon
  <2>2. CASE ~ (mapped # NoSegment /\ off[t] < SegmentRecords)
    <3>1. Fault
      BY <1>15, <2>2, Zenon DEF WriteHeader
    <3>2. Steady /\ is_open => FALSE
      BY <1>15, <2>2, Zenon DEF WriteHeader, Inside, Holding
    <3> QED BY <1>14, <3>1, <3>2, Zenon
  <2> QED BY <2>1, <2>2, Zenon
<1>16. CASE WriteBody(t)
  <2>1. CASE dst[t] # Mapping /\ Fault
    <3>1. Steady /\ is_open => FALSE
      BY <1>16, <2>1, Zenon DEF WriteBody, Inside, Holding
    <3> QED BY <1>14, <2>1, <3>1, Zenon
  <2>2. CASE Goto(t, "idle") /\ fault' = fault /\ UNCHANGED <<mapping, lock>>
    <3>1. pc'[t] = "idle" /\ \A u \in Threads : u # t => pc'[u] = pc[u]
      BY <2>2, GotoFacts, Zenon
    <3>2. Locks
      BY <1>4, <2>2, <3>1, Zenon DEF mapping
    <3> QED BY <1>3, <1>5, <2>2, <3>2, Zenon
  <2> QED BY <1>16, <2>1, <2>2, Zenon DEF WriteBody
<1> QED BY <1>6, <1>7, <1>8, <1>9, <1>10, <1>11, <1>12, <1>13, <1>15, <1>16, Zenon DEF AppendStep

(* The places that append holds stay inside the mapped segment. *)
LEMMA InsideAppend ==
  ASSUME WType, Order, NEW t \in Threads, AppendStep(t), Steady', Inside,
         mishaps' = mishaps \cup NewMishaps
  PROVE  Inside'
<1> USE BoundsAssumption
<1> DEFINE Held == \A u \in Threads : pc'[u] \in {"number", "header", "body"} =>
                     /\ mapped' # NoSegment /\ off'[u] < SegmentRecords
                     /\ pc'[u] = "body" => dst'[u] = <<mapped', opens'>>
           Ends == /\ mapped' = NoSegment => write_offset' >= SegmentRecords
                   /\ \A u \in Threads : pc'[u] \in {"map", "init"} => write_offset' >= SegmentRecords
                   /\ \A u \in Threads : pc'[u] = "again" => mapped' # NoSegment
<1>1. Held /\ Ends => Inside'
  BY Zenon DEF Inside, Holding, Mapping
<1>2. /\ \A u \in Threads : pc[u] \in {"number", "header", "body"} =>
                     /\ mapped # NoSegment /\ off[u] < SegmentRecords
                     /\ pc[u] = "body" => dst[u] = <<mapped, opens>>
      /\ mapped = NoSegment => write_offset >= SegmentRecords
      /\ \A u \in Threads : pc[u] \in {"map", "init"} => write_offset >= SegmentRecords
      /\ \A u \in Threads : pc[u] = "again" => mapped # NoSegment
  BY Zenon DEF Inside, Holding, Mapping
<1>3. /\ \A u \in Threads : pc[u] \in {"map", "init", "again"} => lock = u
      /\ \A u \in Threads : pc[u] = "map" => mapped = NoSegment
      /\ \A u \in Threads : pc[u] = "init" => mapped # NoSegment
  BY Zenon DEF Order, Rolling
<1>4. opens' = opens
  BY AppendKeeps, Zenon
<1>5. /\ off \in [Threads -> Nat] /\ write_offset \in Nat /\ DOMAIN dst = Threads
      /\ segment_id \in Nat
  BY Zenon DEF WType
<1>6. CASE Reserve(t)
  <2>1. Goto(t, IF write_offset + 1 > SegmentRecords THEN "lock" ELSE "number")
    BY <1>6, Zenon DEF Reserve
  <2>2. /\ pc'[t] = (IF write_offset + 1 > SegmentRecords THEN "lock" ELSE "number")
        /\ \A u \in Threads : u # t => pc'[u] = pc[u]
    BY <2>1, GotoFacts, Zenon
  <2>3. off'[t] = write_offset /\ \A u \in Threads : u # t => off'[u] = off[u]
    BY <1>5, <1>6, Zenon DEF Reserve
  <2>5. Held
    BY <1>2, <1>4, <1>5, <1>6, <2>2, <2>3, SMTT(30) DEF Reserve, mapping
  <2>6. Ends
    BY <1>2, <1>3, <1>5, <1>6, <2>2 DEF Reserve, mapping
  <2> QED BY <1>1, <2>5, <2>6, Zenon
<1>7. CASE RollLock(t)
  <2>1. Goto(t, "map")
    BY <1>7, Zenon DEF RollLock
  <2>2. pc'[t] = "map" /\ \A u \in Threads : u # t => pc'[u] = pc[u]
    BY <2>1, GotoFacts, Zenon
  <2>3. \A u \in Threads : pc'[u] \notin {"number", "header", "body"}
    <3>1. "inflight" \notin mishaps'
      BY Zenon DEF Steady
    <3>2. ~ InFlight
      BY <3>1, MishapFacts, Zenon
    <3> QED BY <1>7, <2>2, <3>2, Zenon DEF InFlight, RollLock
  <2>4. Ends
    BY <1>3, <1>5, <1>7, <2>2 DEF RollLock
  <2> QED BY <1>1, <2>3, <2>4, Zenon
<1>8. CASE RollDone(t)
  <2>1. Goto(t, "again")
    BY <1>8, Zenon DEF RollDone
  <2>2. pc'[t] = "again" /\ \A u \in Threads : u # t => pc'[u] = pc[u]
    BY <2>1, GotoFacts, Zenon
  <2>3. Held
    BY <1>2, <1>3, <1>4, <1>8, <2>2, Zenon DEF RollDone, mapping, thread
  <2>4. Ends
    BY <1>2, <1>3, <1>5, <1>8, <2>2 DEF RollDone, mapping, thread
  <2> QED BY <1>1, <2>3, <2>4, Zenon
<1>9. CASE RollMap(t)
  <2>1. Goto(t, "init")
    BY <1>9, Zenon DEF RollMap
  <2>2. pc'[t] = "init" /\ \A u \in Threads : u # t => pc'[u] = pc[u]
    BY <2>1, GotoFacts, Zenon
  <2>3. Held
    BY <1>2, <1>3, <1>4, <1>9, <2>2, Zenon DEF RollMap, thread, NoSegment
  <2>4. Ends
    BY <1>2, <1>3, <1>5, <1>9, <2>2, Zenon DEF RollMap, thread, NoSegment
  <2> QED BY <1>1, <2>3, <2>4, Zenon
<1>10. CASE RollFail(t)
  <2>1. Goto(t, "failed")
    BY <1>10, Zenon DEF RollFail
  <2>2. pc'[t] = "failed" /\ \A u \in Threads : u # t => pc'[u] = pc[u]
    BY <2>1, GotoFacts, Zenon
  <2>3. Held
    BY <1>2, <1>3, <1>4, <1>10, <2>2, Zenon DEF RollFail, mapping, thread
  <2>4. Ends
    BY <1>2, <1>3, <1>5, <1>10, <2>2, Zenon DEF RollFail, mapping, thread
  <2> QED BY <1>1, <2>3, <2>4, Zenon
<1>11. CASE RollHeader(t)
  <2>1. Goto(t, "again")
    BY <1>11, Zenon DEF RollHeader
  <2>2. pc'[t] = "again" /\ \A u \in Threads : u # t => pc'[u] = pc[u]
    BY <2>1, GotoFacts, Zenon
  <2>3. Held
    BY <1>2, <1>3, <1>4, <1>11, <2>2, Zenon DEF RollHeader, mapping, thread
  <2>4. Ends
    BY <1>2, <1>3, <1>5, <1>11, <2>2, Zenon DEF RollHeader, mapping, thread
  <2> QED BY <1>1, <2>3, <2>4, Zenon
<1>12. CASE ReserveAgain(t)
  <2>1. Goto(t, "number")
    BY <1>12, Zenon DEF ReserveAgain
  <2>2. pc'[t] = "number" /\ \A u \in Threads : u # t => pc'[u] = pc[u]
    BY <2>1, GotoFacts, Zenon
  <2>3. off'[t] = write_offset /\ \A u \in Threads : u # t => off'[u] = off[u]
    BY <1>5, <1>12, Zenon DEF ReserveAgain
  <2>4. off'[t] < SegmentRecords
    <3>1. "overshot" \notin mishaps'
      BY Zenon DEF Steady
    <3>2. ~ Overshot
      BY <3>1, MishapFacts, Zenon
    <3>3. pc[t] = "again"
      BY <1>12, Zenon DEF ReserveAgain
    <3>4. ~ (off'[t] >= SegmentRecords)
      BY <2>2, <3>2, <3>3, Zenon DEF Overshot
    <3>5. off'[t] \in Nat
      BY <1>5, <2>3, Zenon
    <3> QED BY <3>4, <3>5
  <2>5. Held
    BY <1>2, <1>4, <1>12, <2>2, <2>3, <2>4, Zenon DEF ReserveAgain, mapping
  <2>6. Ends
    BY <1>2, <1>3, <1>5, <1>12, <2>2, Zenon DEF ReserveAgain, mapping
  <2> QED BY <1>1, <2>5, <2>6, Zenon
<1>13. CASE Number(t)
  <2>1. Goto(t, "header")
    BY <1>13, Zenon DEF Number
  <2>2. pc'[t] = "header" /\ \A u \in Threads : u # t => pc'[u] = pc[u]
    BY <2>1, GotoFacts, Zenon
  <2>3. Held
    BY <1>2, <1>3, <1>4, <1>13, <2>2, Zenon DEF Number, mapping
  <2>4. Ends
    BY <1>2, <1>3, <1>5, <1>13, <2>2, Zenon DEF Number, mapping
  <2> QED BY <1>1, <2>3, <2>4, Zenon
<1>14. CASE Fault
  BY <1>1, <1>2, <1>14, Zenon DEF Fault, mapping, thread, bounds
<1>15. CASE WriteHeader(t)
  <2>1. CASE /\ dst' = [dst EXCEPT ![t] = Mapping] /\ Goto(t, "body")
             /\ UNCHANGED <<mapping, write_offset, lock, off>>
    <3>1. pc'[t] = "body" /\ \A u \in Threads : u # t => pc'[u] = pc[u]
      BY <2>1, GotoFacts, Zenon
    <3>2. dst'[t] = <<mapped, opens>> /\ \A u \in Threads : u # t => dst'[u] = dst[u]
      BY <1>5, <2>1, Zenon DEF Mapping
    <3>3. pc[t] = "header"
      BY <1>15, Zenon DEF WriteHeader
    <3>4. Held
      BY <1>2, <1>4, <2>1, <3>1, <3>2, <3>3, Zenon DEF mapping
    <3>5. Ends
      BY <1>2, <2>1, <3>1, Zenon DEF mapping
    <3> QED BY <1>1, <3>4, <3>5, Zenon
  <2> QED BY <1>14, <1>15, <2>1, Zenon DEF WriteHeader
<1>16. CASE WriteBody(t)
  <2>1. CASE /\ Goto(t, "idle")
             /\ UNCHANGED <<mapping, write_offset, lock, thread>>
    <3>1. pc'[t] = "idle" /\ \A u \in Threads : u # t => pc'[u] = pc[u]
      BY <2>1, GotoFacts, Zenon
    <3>2. Held
      BY <1>2, <1>4, <2>1, <3>1, Zenon DEF mapping, thread
    <3>3. Ends
      BY <1>2, <2>1, <3>1, Zenon DEF mapping
    <3> QED BY <1>1, <3>2, <3>3, Zenon
  <2> QED BY <1>14, <1>16, <2>1, Zenon DEF WriteBody
<1> QED BY <1>6, <1>7, <1>8, <1>9, <1>10, <1>11, <1>12, <1>13, <1>15, <1>16, Zenon DEF AppendStep

(* A call of append that is accepted, or refused, keeps all of it. *)
LEMMA RaceCall ==
  ASSUME RaceInv, NEW t \in Threads, AppendCall(t) \/ AppendRefused(t), ~ fault,
         mishaps' = mishaps \cup NewMishaps
  PROVE  RaceInv'
<1> USE BoundsAssumption
<1>1. PICK place \in {"reserve", "refused"} :
        /\ pc'[t] = place /\ \A u \in Threads : u # t => pc'[u] = pc[u]
        /\ place = "reserve" => is_open
  <2>1. CASE AppendCall(t)
    <3>1. Goto(t, "reserve") /\ is_open
      BY <2>1, Zenon DEF AppendCall
    <3> QED BY <3>1, GotoFacts, Zenon DEF RaceInv
  <2>2. CASE AppendRefused(t)
    <3>1. Goto(t, "refused")
      BY <2>2, Zenon DEF AppendRefused
    <3> QED BY <3>1, GotoFacts, Zenon DEF RaceInv
  <2> QED BY <2>1, <2>2, Zenon
<1>2. /\ UNCHANGED <<store, mapping, write_offset, is_open, lock, thread, bounds, fault>>
      /\ Idle(t)
  BY Zenon DEF AppendCall, AppendRefused
<1>3. mishaps \subseteq mishaps'
  BY MishapFacts, Zenon
<1>4. WType'
  BY TypeAppend, Zenon DEF RaceInv
<1>5. ASSUME place = "refused" PROVE Quiescent => Quiescent'
  BY <1>1, <1>5, Zenon DEF Quiescent, Idle
<1>6. Order'
  <2>1. ~ is_open => place = "refused"
    BY <1>1, Zenon
  <2>2. /\ \A u \in Threads : Rolling(u)' => lock' = u
        /\ \A u \in Threads : pc'[u] = "map" => mapped' = NoSegment
        /\ \A u \in Threads : pc'[u] = "init" => mapped' # NoSegment
    BY <1>1, <1>2, Zenon DEF RaceInv, Order, Rolling, mapping
  <2>3. 0 \notin DOMAIN files' => files' = << >> /\ ~ is_open' /\ Quiescent'
    BY <1>2, <1>5, <2>1, Zenon DEF RaceInv, Order, store
  <2>4. "closed" \notin mishaps' /\ ~ is_open' => Quiescent' /\ mapped' = NoSegment
    BY <1>2, <1>3, <1>5, <2>1, Zenon DEF RaceInv, Order, mapping
  <2>5. FaultOnlyInRaces'
    BY <1>2, Zenon DEF FaultOnlyInRaces
  <2> QED BY <2>2, <2>3, <2>4, <2>5, Zenon DEF Order
<1>7. ASSUME Steady', is_open' PROVE Inside'
  <2>1. Inside
    BY <1>2, <1>3, <1>7, Zenon DEF RaceInv, Steady
  <2> QED BY <1>1, <1>2, <2>1, Zenon DEF Inside, Holding, Mapping, mapping, thread, bounds
<1> QED BY <1>4, <1>6, <1>7, Zenon DEF RaceInv

(* open, flush, close and the end of a process keep all of it. *)
LEMMA RaceOther ==
  ASSUME RaceInv, Open \/ OpenFails \/ Flush \/ Close \/ Kill \/ PowerLoss, ~ fault,
         mishaps' = mishaps \cup NewMishaps
  PROVE  RaceInv'
<1> USE BoundsAssumption
<1>1. WType'
  BY TypeOther, Zenon DEF RaceInv
<1>2. /\ mishaps \subseteq mishaps'
      /\ "closed" \notin mishaps' => ~ ClosedUnder
      /\ "reopened" \notin mishaps' => ~ Reopened
  BY MishapFacts, Zenon
<1>3. fault' = fault
  BY Zenon DEF Open, OpenFails, Flush, Close, Kill, PowerLoss, Restarted
<1>4. FaultOnlyInRaces'
  BY <1>3, Zenon DEF FaultOnlyInRaces
<1>5. CASE Open
  <2>1. /\ ~ is_open /\ lock = NoThread /\ is_open' /\ UNCHANGED <<lock, pc>>
        /\ mapped' = 0 /\ files' = [Created(0) EXCEPT ![0].header = TRUE]
    BY <1>5, Zenon DEF Open
  <2>2. 0 \in DOMAIN files' /\ mapped' # NoSegment
    <3>1. DOMAIN Created(0) = DOMAIN files \cup {0}
      BY CreatedFacts, Zenon DEF RaceInv
    <3> QED BY <2>1, <3>1 DEF NoSegment
  <2>3. \A u \in Threads : ~ Rolling(u)
    BY <2>1, Zenon DEF RaceInv, Order
  <2>4. Order'
    BY <1>4, <2>1, <2>2, <2>3, Zenon DEF Order, Rolling
  <2>5. ASSUME Steady' PROVE Inside'
    <3>1. Quiescent
      <4>1. CASE "closed" \notin mishaps
        BY <2>1, <4>1, Zenon DEF RaceInv, Order
      <4>2. CASE "closed" \in mishaps
        <5>1. "reopened" \notin mishaps'
          BY <1>2, <2>5, <4>2, Zenon DEF Steady
        <5>2. files = << >>
          BY <1>2, <2>1, <5>1, Zenon DEF Reopened
        <5>3. DOMAIN << >> = {}
          OBVIOUS
        <5>4. 0 \notin DOMAIN files
          BY <5>2, <5>3, Zenon
        <5> QED BY <5>4, Zenon DEF RaceInv, Order
      <4> QED BY <4>1, <4>2, Zenon
    <3>2. \A u \in Threads : pc'[u] \in {"idle", "failed", "refused"}
      BY <2>1, <3>1, Zenon DEF Quiescent, Idle
    <3> QED BY <2>2, <3>2, Zenon DEF Inside, Holding
  <2> QED BY <1>1, <2>4, <2>5, Zenon DEF RaceInv
<1>6. CASE OpenFails
  <2>1. /\ ~ is_open /\ lock = NoThread /\ UNCHANGED <<lock, pc, is_open>>
        /\ mapped' = NoSegment /\ (files' = files \/ files' = Created(0))
    BY <1>6, Zenon DEF OpenFails
  <2>2. 0 \in DOMAIN files' \/ files' = files
    BY <2>1, CreatedFacts, Zenon DEF RaceInv
  <2>3. \A u \in Threads : ~ Rolling(u)
    BY <2>1, Zenon DEF RaceInv, Order
  <2>4. 0 \notin DOMAIN files' => files' = << >> /\ ~ is_open' /\ Quiescent'
    BY <2>1, <2>2, Zenon DEF RaceInv, Order, Quiescent, Idle
  <2>5. "closed" \notin mishaps' /\ ~ is_open' => Quiescent' /\ mapped' = NoSegment
    BY <1>2, <2>1, Zenon DEF RaceInv, Order, Quiescent, Idle
  <2>6. Order'
    BY <1>4, <2>1, <2>3, <2>4, <2>5, Zenon DEF Order, Rolling
  <2> QED BY <1>1, <2>1, <2>6, Zenon DEF RaceInv
<1>7. CASE Flush
  <2>1. UNCHANGED <<files, mapping, write_offset, is_open, lock, pc, thread, opens>> /\ is_open
    BY <1>7, Zenon DEF Flush
  <2>2. Order'
    <3>1. /\ \A u \in Threads : Rolling(u)' => lock' = u
          /\ \A u \in Threads : pc'[u] = "map" => mapped' = NoSegment
          /\ \A u \in Threads : pc'[u] = "init" => mapped' # NoSegment
      BY <2>1, Zenon DEF RaceInv, Order, Rolling, mapping
    <3>2. 0 \in DOMAIN files'
      BY <2>1, Zenon DEF RaceInv, Order
    <3> QED BY <1>4, <2>1, <3>1, <3>2, Zenon DEF Order
  <2>3. ASSUME Steady' PROVE Inside'
    <3>1. Inside
      BY <1>2, <2>1, <2>3, Zenon DEF RaceInv, Steady
    <3> QED BY <2>1, <3>1, Zenon DEF Inside, Holding, Mapping, mapping, thread
  <2> QED BY <1>1, <2>2, <2>3, Zenon DEF RaceInv
<1>8. CASE Close
  <2>1. /\ is_open /\ ~ is_open' /\ lock = NoThread /\ UNCHANGED <<files, lock, pc>>
        /\ mapped' = NoSegment
    BY <1>8, Zenon DEF Close
  <2>2. \A u \in Threads : ~ Rolling(u)
    BY <2>1, Zenon DEF RaceInv, Order
  <2>3. 0 \in DOMAIN files'
    BY <2>1, Zenon DEF RaceInv, Order
  <2>4. "closed" \notin mishaps' => Quiescent'
    BY <1>2, <2>1, Zenon DEF ClosedUnder, Quiescent, Idle
  <2>5. Order'
    BY <1>4, <2>1, <2>2, <2>3, <2>4, Zenon DEF Order, Rolling
  <2> QED BY <1>1, <2>1, <2>5, Zenon DEF RaceInv
<1>9. CASE Kill \/ PowerLoss
  <2>1. /\ is_open /\ ~ is_open' /\ mapped' = NoSegment /\ DOMAIN files' = DOMAIN files
        /\ \A u \in Threads : pc'[u] = "idle"
    <3>1. Restarted /\ is_open
      BY <1>9, Zenon DEF Kill, PowerLoss
    <3>2. DOMAIN files' = DOMAIN files
      <4>1. CASE Kill
        BY <4>1, Zenon DEF Kill, store
      <4>2. CASE PowerLoss
        BY <4>2, PowerLossFacts, Zenon DEF RaceInv
      <4> QED BY <1>9, <4>1, <4>2, Zenon
    <3> QED BY <3>1, <3>2, Zenon DEF Restarted
  <2>2. 0 \in DOMAIN files'
    BY <2>1, Zenon DEF RaceInv, Order
  <2>3. Quiescent'
    BY <2>1, Zenon DEF Quiescent, Idle
  <2>4. Order'
    BY <1>4, <2>1, <2>2, <2>3, Zenon DEF Order, Rolling
  <2> QED BY <1>1, <2>1, <2>4, Zenon DEF RaceInv
<1> QED BY <1>5, <1>6, <1>7, <1>8, <1>9, Zenon

(* Every step keeps all of it. *)
LEMMA RaceStep ==
  ASSUME RaceInv, [Next]_vars
  PROVE  RaceInv'
<1>1. CASE Next
  <2>1. ~ fault /\ mishaps' = mishaps \cup NewMishaps
    BY <1>1, Zenon DEF Next
  <2>2. ASSUME NEW t \in Threads, AppendStep(t) PROVE RaceInv'
    <3>1. WType'
      BY <2>2, TypeAppend, Zenon DEF RaceInv
    <3>2. Order'
      BY <2>1, <2>2, OrderAppend, Zenon DEF RaceInv
    <3>3. ASSUME Steady', is_open' PROVE Inside'
      <4>1. is_open
        BY <2>2, <3>3, AppendKeeps, Zenon DEF RaceInv
      <4>2. mishaps \subseteq mishaps'
        BY <2>1, MishapFacts, Zenon
      <4>3. Inside
        BY <3>3, <4>1, <4>2, Zenon DEF RaceInv, Steady
      <4> QED BY <2>1, <2>2, <3>3, <4>3, InsideAppend, Zenon DEF RaceInv
    <3> QED BY <3>1, <3>2, <3>3, Zenon DEF RaceInv
  <2>3. ASSUME NEW t \in Threads, AppendCall(t) \/ AppendRefused(t) PROVE RaceInv'
    BY <2>1, <2>3, RaceCall, Zenon
  <2>4. CASE Open \/ OpenFails \/ Flush \/ Close \/ Kill \/ PowerLoss
    BY <2>1, <2>4, RaceOther, Zenon
  <2> QED BY <1>1, <2>2, <2>3, <2>4, Zenon DEF Next
<1>2. CASE UNCHANGED vars
  <2>1. WType'
    BY <1>2, Zenon DEF RaceInv, WType, vars, store, mapping, counters, thread, bounds
  <2>2. Order'
    BY <1>2, Zenon DEF RaceInv, Order, Rolling, FaultOnlyInRaces, Quiescent, Idle, vars, store, mapping
  <2>3. Steady' /\ is_open' => Inside'
    BY <1>2, Zenon DEF RaceInv, Steady, Inside, Holding, Mapping, vars, mapping, thread, bounds
  <2> QED BY <2>1, <2>2, <2>3, Zenon DEF RaceInv
<1> QED BY <1>1, <1>2, Zenon

(* The initial state satisfies it. *)
LEMMA RaceStart ==
  ASSUME Init
  PROVE  RaceInv
<1>1. DOMAIN << >> = {}
  OBVIOUS
<1>2. WType
  BY <1>1, Zenon DEF Init, WType, Steps, NoSegment
<1>3. Order
  BY <1>1, Zenon DEF Init, Order, Rolling, FaultOnlyInRaces, Quiescent, Idle
<1>4. ~ is_open
  BY Zenon DEF Init
<1> QED BY <1>2, <1>3, <1>4, Zenon DEF RaceInv

(* The lock discipline of rollovers, and the places of appends inside the  *)
(* mapped segment, for any number of threads and any size of segment.      *)
THEOREM WriterInvariance == Spec => []RaceInv
  BY RaceStart, RaceStep, PTL DEF Spec

(* journal_writer.h:80, "thread-safe": a store of append goes outside the  *)
(* mapped segment only after a rollover, or a close, that raced with an    *)
(* append.                                                                 *)
THEOREM FaultNeedsRace == Spec => []FaultOnlyInRaces
<1>1. RaceInv => FaultOnlyInRaces
  BY Zenon DEF RaceInv, Order
<1> QED BY <1>1, WriterInvariance, PTL
=============================================================================
