------------------------- MODULE JournalOrderProofs -------------------------
(***************************************************************************)
(* The places and the numbers JournalWriter hands out, for any number of   *)
(* threads, calls and records in a segment.                                *)
(*   PlaceInv  no two appends hold the same place, and a place is empty    *)
(*             until its append fills it;                                  *)
(*   DiskInv   the disk never contradicts the page cache;                  *)
(*   TurnInv   the record headers carry numbers in the order of their      *)
(*             places, also when an append has a number and no header yet. *)
(***************************************************************************)
EXTENDS JournalWriterProofs

-----------------------------------------------------------------------------
(* The inductive invariant.  Second part: a place is handed out once. *)
Single ==
  "inflight" \notin mishaps /\ "overshot" \notin mishaps /\ "reopened" \notin mishaps

Own(t) == files[mapped].records[off[t] + 1]

Fresh ==
  /\ \A id \in DOMAIN files : id <= segment_id
  /\ \A t \in Threads : pc[t] = "map" => segment_id \notin DOMAIN files
  /\ \A t \in Threads : pc[t] = "init" =>
       /\ \A i \in Slots : files[mapped].records[i] = Nothing
       /\ \A u \in Threads : ~ Holding(u)
  /\ mapped # NoSegment =>
       \A i \in Slots : i > write_offset => files[mapped].records[i] = Nothing

Apart ==
  /\ \A t \in Threads : Holding(t) => off[t] < write_offset
  /\ \A t, u \in Threads : Holding(t) /\ Holding(u) /\ off[t] = off[u] => t = u

Owned ==
  /\ \A t \in Threads : pc[t] \in {"number", "header"} => Own(t) = Nothing
  /\ \A t \in Threads : pc[t] = "body" =>
       Own(t).seq # 0 /\ Own(t).crc = EventOf(t) /\ Own(t).event = NoEvent
  /\ \A t \in Threads : pc[t] = "header" => seq[t] # 0

PlaceInv == RaceInv /\ (Single /\ is_open => Fresh /\ Apart /\ Owned)

(* Third part: what the disk has is what the page cache has, or older. *)
Undisturbed == Single /\ "closed" \notin mishaps

Behind(old, new) ==
  /\ old.header => new.header
  /\ \A i \in Slots :
       /\ old.records[i].seq # 0 => /\ new.records[i].seq = old.records[i].seq
                                    /\ new.records[i].crc = old.records[i].crc
       /\ old.records[i].event # NoEvent => new.records[i].event = old.records[i].event

DiskInv == PlaceInv /\ (Undisturbed => \A id \in DOMAIN disk : Behind(disk[id], files[id]))

(* Fourth part: numbers are drawn in the order of the places. *)
Ordered == mishaps \subseteq {"hole", "badfile"}
SeqAt(id, i) == files[id].records[i].seq

Increasing ==
  \A a, b \in DOMAIN files : \A i, j \in Slots :
    /\ a < b \/ (a = b /\ i < j)
    /\ SeqAt(a, i) # 0 /\ SeqAt(b, j) # 0
    => SeqAt(a, i) < SeqAt(b, j)

Counted ==
  /\ \A id \in DOMAIN files : \A i \in Slots : SeqAt(id, i) <= sequence_counter
  /\ \A t \in Threads : pc[t] = "header" => seq[t] <= sequence_counter

Turns ==
  /\ \A t \in Threads : pc[t] = "header" =>
       \A id \in DOMAIN files : \A i \in Slots : SeqAt(id, i) # 0 =>
         /\ id # mapped => SeqAt(id, i) < seq[t]
         /\ id = mapped /\ i < off[t] + 1 => SeqAt(id, i) < seq[t]
         /\ id = mapped /\ i > off[t] + 1 => SeqAt(id, i) > seq[t]
  /\ \A t, u \in Threads :
       pc[t] = "header" /\ pc[u] = "header" /\ off[t] < off[u] => seq[t] < seq[u]
  /\ \A t \in Threads : pc[t] = "number" =>
       /\ \A i \in Slots : i > off[t] => SeqAt(mapped, i) = 0
       /\ \A u \in Threads : pc[u] = "header" => off[u] < off[t]

TurnInv ==
  DiskInv /\ (Ordered => Increasing) /\ (Ordered /\ is_open => Counted /\ Turns)

-----------------------------------------------------------------------------
(* A place is handed out once *)

(* A step of append that changes neither the files nor the mapping, and    *)
(* hands out no place, keeps the places apart.                             *)
LEMMA PlaceStay ==
  ASSUME Fresh, Apart, Owned,
         UNCHANGED <<files, mapping, write_offset, off>>,
         \A u \in Threads : pc'[u] \in {"map", "init"} => pc'[u] = pc[u],
         \A u \in Threads : Holding(u)' => Holding(u) /\ calls'[u] = calls[u],
         \A u \in Threads : pc'[u] = "body" => pc[u] = "body",
         \A u \in Threads : pc'[u] \in {"number", "header"} => pc[u] \in {"number", "header"},
         \A u \in Threads : pc'[u] = "header" => seq'[u] # 0
  PROVE  (Fresh /\ Apart /\ Owned)'
<1>1. Fresh'
  BY Zenon DEF Fresh, Holding, mapping
<1>2. Apart'
  BY Zenon DEF Apart, Holding
<1>3. Owned'
  BY ZenonT(30) DEF Owned, Own, EventOf, mapping, Holding
<1> QED BY <1>1, <1>2, <1>3, Zenon

(* The place that a fetch_add takes is nobody else's, and empty. *)
LEMMA PlaceTaken ==
  ASSUME WType, Fresh, Apart, Owned, NEW t \in Threads, mapped # NoSegment,
         write_offset < SegmentRecords,
         pc'[t] = "number", \A u \in Threads : u # t => pc'[u] = pc[u],
         off'[t] = write_offset, \A u \in Threads : u # t => off'[u] = off[u],
         write_offset' = write_offset + 1,
         \A u \in Threads : u # t => pc[u] # "init",
         UNCHANGED <<files, mapping, seq, calls>>
  PROVE  (Fresh /\ Apart /\ Owned)'
<1> USE BoundsAssumption
<1>1. write_offset \in Nat /\ off \in [Threads -> Nat] /\ write_offset + 1 \in Slots
  BY DEF WType, Slots
<1>2. Fresh'
  <2>1. \A i \in Slots : i > write_offset + 1 => i > write_offset
    BY <1>1 DEF Slots
  <2> QED BY <2>1, Zenon DEF Fresh, mapping
<1>3. Apart'
  <2>1. \A u \in Threads : Holding(u) => off[u] < write_offset /\ off[u] \in Nat
    BY <1>1, Zenon DEF Apart
  <2>2. \A u \in Threads : Holding(u)' => u = t \/ (Holding(u) /\ off'[u] = off[u])
    BY Zenon DEF Holding
  <2>3. \A u \in Threads : Holding(u)' => off'[u] < write_offset'
    BY <1>1, <2>1, <2>2
  <2>4. ASSUME NEW u \in Threads, NEW w \in Threads, Holding(u)', Holding(w)', off'[u] = off'[w]
        PROVE  u = w
    <3>1. u # t => off'[u] < write_offset /\ off'[u] \in Nat
      BY <2>1, <2>2, <2>4, Zenon
    <3>2. w # t => off'[w] < write_offset /\ off'[w] \in Nat
      BY <2>1, <2>2, <2>4, Zenon
    <3> QED BY <1>1, <2>2, <2>4, <3>1, <3>2 DEF Apart
  <2> QED BY <2>3, <2>4, Zenon DEF Apart
<1>4. Owned'
  <2>1. Own(t)' = Nothing
    <3>1. files[mapped].records[write_offset + 1] = Nothing
      BY <1>1 DEF Fresh
    <3> QED BY <3>1, Zenon DEF Own, mapping
  <2>2. \A u \in Threads : u # t => Own(u)' = Own(u) /\ EventOf(u)' = EventOf(u)
    BY Zenon DEF Own, EventOf, mapping
  <2> QED BY <2>1, <2>2 DEF Owned
<1> QED BY <1>2, <1>3, <1>4, Zenon

(* The steps of append keep the places apart. *)
LEMMA PlaceAppend ==
  ASSUME RaceInv, Inside, Fresh, Apart, Owned, NEW t \in Threads, AppendStep(t), Single',
         mishaps' = mishaps \cup NewMishaps
  PROVE  (Fresh /\ Apart /\ Owned)'
<1> USE BoundsAssumption
<1>1. WType /\ calls' = calls
  BY AppendKeeps, Zenon DEF RaceInv
<1>2. /\ \A u \in Threads : pc[u] \in {"map", "init", "again"} => lock = u
      /\ \A u \in Threads : pc[u] = "map" => mapped = NoSegment
      /\ \A u \in Threads : pc[u] = "init" => mapped # NoSegment
  BY Zenon DEF RaceInv, Order, Rolling
<1>3. CASE Reserve(t)
  <2>1. /\ Goto(t, IF write_offset + 1 > SegmentRecords THEN "lock" ELSE "number")
        /\ off' = [off EXCEPT ![t] = write_offset] /\ write_offset' = write_offset + 1
        /\ UNCHANGED <<files, mapping, seq>>
    BY <1>3, Zenon DEF Reserve, store
  <2>2. /\ off'[t] = write_offset /\ \A u \in Threads : u # t => off'[u] = off[u]
        /\ write_offset \in Nat
    BY <1>1, <2>1, Zenon DEF WType
  <2>3. CASE write_offset + 1 > SegmentRecords
    <3>1. pc'[t] = "lock" /\ \A u \in Threads : u # t => pc'[u] = pc[u]
      BY <1>1, <2>1, <2>3, GotoFacts, Zenon
    <3>2. Fresh'
      <4>1. \A i \in Slots : ~ (i > write_offset')
        BY <2>1, <2>2, <2>3 DEF Slots
      <4> QED BY <2>1, <3>1, <4>1, Zenon DEF Fresh, mapping, Holding
    <3>3. Apart'
      <4>1. \A u \in Threads : Holding(u)' => Holding(u) /\ off'[u] = off[u] /\ off[u] \in Nat
        BY <1>1, <2>2, <3>1, Zenon DEF Holding, WType
      <4> QED BY <2>1, <2>2, <4>1 DEF Apart
    <3>4. Owned'
      <4>1. files' = files /\ mapped' = mapped /\ seq' = seq
        BY <2>1, Zenon DEF mapping
      <4>2. \A u \in Threads : u # t => Own(u)' = Own(u) /\ EventOf(u)' = EventOf(u)
        BY <1>1, <2>2, <4>1, Zenon DEF Own, EventOf
      <4>3. \A u \in Threads : pc'[u] \in {"number", "header", "body"} => u # t /\ pc'[u] = pc[u]
        BY <3>1, Zenon
      <4> QED BY <4>1, <4>2, <4>3, Zenon DEF Owned
    <3> QED BY <3>2, <3>3, <3>4, Zenon
  <2>4. CASE ~ (write_offset + 1 > SegmentRecords)
    <3>1. pc'[t] = "number" /\ \A u \in Threads : u # t => pc'[u] = pc[u]
      BY <1>1, <2>1, <2>4, GotoFacts, Zenon
    <3>2. write_offset < SegmentRecords /\ mapped # NoSegment /\ \A u \in Threads : pc[u] # "init"
      BY <2>2, <2>4 DEF Inside
    <3> QED BY <1>1, <2>1, <2>2, <3>1, <3>2, PlaceTaken, Zenon
  <2> QED BY <2>3, <2>4, Zenon
<1>4. CASE ReserveAgain(t)
  <2>1. /\ Goto(t, "number") /\ pc[t] = "again"
        /\ off' = [off EXCEPT ![t] = write_offset] /\ write_offset' = write_offset + 1
        /\ UNCHANGED <<files, mapping, seq>>
    BY <1>4, Zenon DEF ReserveAgain, store
  <2>2. /\ off'[t] = write_offset /\ \A u \in Threads : u # t => off'[u] = off[u]
        /\ write_offset \in Nat
    BY <1>1, <2>1, Zenon DEF WType
  <2>3. pc'[t] = "number" /\ \A u \in Threads : u # t => pc'[u] = pc[u]
    BY <1>1, <2>1, GotoFacts, Zenon
  <2>4. write_offset < SegmentRecords
    <3>1. ~ Overshot
      BY MishapFacts, Zenon DEF Single
    <3> QED BY <2>1, <2>2, <2>3, <3>1 DEF Overshot
  <2>5. mapped # NoSegment /\ \A u \in Threads : u # t => pc[u] # "init"
    BY <1>2, <2>1, Zenon DEF Inside
  <2> QED BY <1>1, <2>1, <2>2, <2>3, <2>4, <2>5, PlaceTaken, Zenon
<1>5. CASE RollLock(t)
  <2>1. /\ Goto(t, "map") /\ pc[t] = "lock" /\ lock = NoThread
        /\ segment_id' = segment_id + 1 /\ mapped' = NoSegment
        /\ UNCHANGED <<files, write_offset, off>>
    BY <1>5, Zenon DEF RollLock, thread
  <2>2. pc'[t] = "map" /\ \A u \in Threads : u # t => pc'[u] = pc[u]
    BY <1>1, <2>1, GotoFacts, Zenon
  <2>3. \A u \in Threads : ~ Holding(u)'
    <3>1. ~ InFlight
      BY MishapFacts, Zenon DEF Single
    <3> QED BY <2>1, <2>2, <3>1, Zenon DEF InFlight, Holding
  <2>4. Fresh'
    <3>1. \A u \in Threads : pc'[u] # "init"
      BY <1>2, <2>1, <2>2, Zenon
    <3>2. \A id \in DOMAIN files : id <= segment_id /\ id \in Nat /\ segment_id \in Nat
      BY <1>1, Zenon DEF WType, Fresh
    <3>3. \A id \in DOMAIN files' : id <= segment_id' /\ id # segment_id'
      BY <2>1, <3>2
    <3> QED BY <2>1, <3>1, <3>3, Zenon DEF Fresh
  <2>5. Apart' /\ Owned'
    BY <2>3, Zenon DEF Apart, Owned, Holding
  <2> QED BY <2>4, <2>5, Zenon
<1>6. CASE RollDone(t)
  <2>1. Goto(t, "again") /\ UNCHANGED <<files, mapping, write_offset, off, seq>>
    BY <1>6, Zenon DEF RollDone, store, thread
  <2>2. pc'[t] = "again" /\ \A u \in Threads : u # t => pc'[u] = pc[u]
    BY <1>1, <2>1, GotoFacts, Zenon
  <2> QED BY <1>1, <2>1, <2>2, PlaceStay, Zenon DEF Holding, Owned
<1>7. CASE RollMap(t)
  <2>1. /\ Goto(t, "init") /\ pc[t] = "map" /\ files' = Created(segment_id)
        /\ mapped' = segment_id /\ segment_id' = segment_id /\ off' = off
    BY <1>7, Zenon DEF RollMap, thread
  <2>2. pc'[t] = "init" /\ \A u \in Threads : u # t => pc'[u] = pc[u]
    BY <1>1, <2>1, GotoFacts, Zenon
  <2>3. \A u \in Threads : ~ Holding(u)'
    BY <1>2, <2>1, <2>2, Zenon DEF Inside, Holding
  <2>4. segment_id \in Nat /\ segment_id \notin DOMAIN files
    BY <1>1, <2>1, Zenon DEF WType, Fresh
  <2>5. DOMAIN files' = DOMAIN files \cup {segment_id} /\ files'[segment_id] = EmptyFile
    BY <1>1, <2>1, <2>4, CreatedFacts, Zenon
  <2>6. \A i \in Slots : files'[mapped'].records[i] = Nothing
    BY <2>1, <2>5 DEF EmptyFile
  <2>7. Fresh'
    <3>1. \A u \in Threads : pc'[u] # "map"
      BY <1>2, <2>1, <2>2, Zenon
    <3>2. \A id \in DOMAIN files' : id <= segment_id'
      BY <2>1, <2>4, <2>5 DEF Fresh
    <3> QED BY <2>3, <2>6, <3>1, <3>2, Zenon DEF Fresh
  <2>8. Apart' /\ Owned'
    BY <2>3, Zenon DEF Apart, Owned, Holding
  <2> QED BY <2>7, <2>8, Zenon
<1>8. CASE RollFail(t)
  <2>1. /\ Goto(t, "failed") /\ pc[t] = "map" /\ files' \in {files, Created(segment_id)}
        /\ UNCHANGED <<mapping, off>>
    BY <1>8, Zenon DEF RollFail, thread
  <2>2. pc'[t] = "failed" /\ \A u \in Threads : u # t => pc'[u] = pc[u]
    BY <1>1, <2>1, GotoFacts, Zenon
  <2>3. \A u \in Threads : ~ Holding(u)'
    BY <1>2, <2>1, <2>2, Zenon DEF Inside, Holding
  <2>4. segment_id \in Nat
    BY <1>1, Zenon DEF WType
  <2>5. DOMAIN Created(segment_id) = DOMAIN files \cup {segment_id}
    BY <1>1, <2>4, CreatedFacts, Zenon
  <2>6. Fresh'
    <3>1. \A u \in Threads : pc'[u] # "map" /\ pc'[u] # "init"
      BY <1>2, <2>1, <2>2, Zenon
    <3>2. \A id \in DOMAIN files' : id <= segment_id'
      BY <2>1, <2>4, <2>5 DEF Fresh, mapping
    <3>3. mapped' = NoSegment
      BY <1>2, <2>1, Zenon DEF mapping
    <3> QED BY <3>1, <3>2, <3>3, Zenon DEF Fresh
  <2>7. Apart' /\ Owned'
    BY <2>3, Zenon DEF Apart, Owned, Holding
  <2> QED BY <2>6, <2>7, Zenon
<1>9. CASE RollHeader(t)
  <2>1. /\ Goto(t, "again") /\ pc[t] = "init" /\ files' = [files EXCEPT ![mapped].header = TRUE]
        /\ UNCHANGED <<mapping, off>>
    BY <1>9, Zenon DEF RollHeader, thread
  <2>2. pc'[t] = "again" /\ \A u \in Threads : u # t => pc'[u] = pc[u]
    BY <1>1, <2>1, GotoFacts, Zenon
  <2>3. \A u \in Threads : ~ Holding(u)'
    BY <2>1, <2>2, Zenon DEF Fresh, Holding
  <2>4. mapped \in DOMAIN files
    BY <1>1, <1>2, <2>1, Zenon DEF WType
  <2>5. DOMAIN files' = DOMAIN files /\ files'[mapped].records = files[mapped].records
    BY <1>1, <2>1, <2>4, HeaderFacts, Zenon DEF WType
  <2>6. Fresh'
    <3>1. \A u \in Threads : pc'[u] # "map" /\ pc'[u] # "init"
      BY <1>2, <2>1, <2>2, Zenon
    <3>2. \A i \in Slots : files'[mapped'].records[i] = Nothing
      BY <2>1, <2>5, Zenon DEF Fresh, mapping
    <3> QED BY <2>1, <2>5, <3>1, <3>2, Zenon DEF Fresh, mapping
  <2>7. Apart' /\ Owned'
    BY <2>3, Zenon DEF Apart, Owned, Holding
  <2> QED BY <2>6, <2>7, Zenon
<1>10. CASE Number(t)
  <2>1. /\ Goto(t, "header") /\ pc[t] = "number"
        /\ seq' = [seq EXCEPT ![t] = sequence_counter + 1]
        /\ UNCHANGED <<files, mapping, write_offset, off>>
    BY <1>10, Zenon DEF Number, store
  <2>2. pc'[t] = "header" /\ \A u \in Threads : u # t => pc'[u] = pc[u]
    BY <1>1, <2>1, GotoFacts, Zenon
  <2>3. seq'[t] # 0 /\ \A u \in Threads : u # t => seq'[u] = seq[u]
    BY <1>1, <2>1 DEF WType
  <2> QED BY <1>1, <2>1, <2>2, <2>3, PlaceStay, Zenon DEF Holding, Owned
<1>11. CASE WriteHeader(t)
  <2>1. pc[t] = "header" /\ Holding(t)
    BY <1>11, Zenon DEF WriteHeader, Holding
  <2>2. mapped # NoSegment /\ off[t] < SegmentRecords /\ ~ (off[t] >= SegmentRecords)
    BY <1>1, <2>1 DEF Inside, WType
  <2>3. Goto(t, "body") /\ UNCHANGED <<mapping, write_offset, off, seq>>
    BY <1>11, <2>2, Zenon DEF WriteHeader
  <2>4. pc'[t] = "body" /\ \A u \in Threads : u # t => pc'[u] = pc[u]
    BY <1>1, <2>3, GotoFacts, Zenon
  <2>5. /\ mapped \in DOMAIN files /\ off[t] + 1 \in Slots /\ DOMAIN files' = DOMAIN files
        /\ \A i \in Slots : i # off[t] + 1 => files'[mapped].records[i] = files[mapped].records[i]
        /\ files'[mapped].records[off[t] + 1].seq = seq[t]
        /\ files'[mapped].records[off[t] + 1].crc = EventOf(t)
        /\ files'[mapped].records[off[t] + 1].event = files[mapped].records[off[t] + 1].event
    BY <1>1, <1>11, <2>2, WriteHeaderFacts, Zenon
  <2>6. Fresh'
    <3>1. \A u \in Threads : pc'[u] # "init"
      BY <2>1, <2>4, Zenon DEF Fresh
    <3>2. \A i \in Slots : i > write_offset => i # off[t] + 1
      BY <1>1, <2>1 DEF Apart, WType, Slots
    <3> QED BY <2>3, <2>4, <2>5, <3>1, <3>2, Zenon DEF Fresh, mapping
  <2>7. Apart'
    BY <2>1, <2>3, <2>4, Zenon DEF Apart, Holding
  <2>8. Owned'
    <3>1. ASSUME NEW u \in Threads, u # t, Holding(u) PROVE Own(u)' = Own(u)
      <4>1. off[u] # off[t] /\ off[u] + 1 \in Slots /\ off[u] \in Nat /\ off[t] \in Nat
        BY <1>1, <2>1, <3>1 DEF Apart, Inside, WType, Slots
      <4>2. off[u] + 1 # off[t] + 1
        BY <4>1
      <4> QED BY <2>3, <2>5, <4>1, <4>2, Zenon DEF Own, mapping
    <3>2. \A u \in Threads : EventOf(u)' = EventOf(u)
      BY <1>1, Zenon DEF EventOf
    <3>3. Own(t)'.seq # 0 /\ Own(t)'.crc = EventOf(t)' /\ Own(t)'.event = NoEvent
      <4>1. files[mapped].records[off[t] + 1].event = NoEvent
        BY <2>1 DEF Owned, Own, Nothing
      <4> QED BY <2>1, <2>3, <2>5, <3>2, <4>1, ZenonT(30) DEF Own, Owned, mapping
    <3> QED BY <2>3, <2>4, <3>1, <3>2, <3>3, ZenonT(30), SMT DEF Owned, Holding
  <2> QED BY <2>6, <2>7, <2>8, Zenon
<1>12. CASE WriteBody(t)
  <2>1. pc[t] = "body" /\ Holding(t)
    BY <1>12, Zenon DEF WriteBody, Holding
  <2>2. mapped # NoSegment /\ off[t] < SegmentRecords /\ dst[t] = Mapping
    BY <2>1, Zenon DEF Inside
  <2>3. /\ Goto(t, "idle") /\ UNCHANGED <<mapping, write_offset, off, seq>>
        /\ files' = [files EXCEPT ![mapped].records[off[t] + 1].event = EventOf(t)]
    BY <1>12, <2>2, Zenon DEF WriteBody, thread
  <2>4. pc'[t] = "idle" /\ \A u \in Threads : u # t => pc'[u] = pc[u]
    BY <1>1, <2>3, GotoFacts, Zenon
  <2>5. /\ mapped \in DOMAIN files /\ off[t] + 1 \in Slots /\ DOMAIN files' = DOMAIN files
        /\ \A i \in Slots : i # off[t] + 1 => files'[mapped].records[i] = files[mapped].records[i]
    BY <1>1, <2>2, <2>3, WriteBodyFacts, Zenon
  <2>6. Fresh'
    <3>1. \A u \in Threads : pc'[u] # "init"
      BY <2>1, <2>4, Zenon DEF Fresh
    <3>2. \A i \in Slots : i > write_offset => i # off[t] + 1
      BY <1>1, <2>1 DEF Apart, WType, Slots
    <3> QED BY <2>3, <2>4, <2>5, <3>1, <3>2, Zenon DEF Fresh, mapping
  <2>7. Apart'
    BY <2>1, <2>3, <2>4, Zenon DEF Apart, Holding
  <2>8. Owned'
    <3>1. ASSUME NEW u \in Threads, u # t, Holding(u) PROVE Own(u)' = Own(u)
      <4>1. off[u] # off[t] /\ off[u] + 1 \in Slots /\ off[u] \in Nat /\ off[t] \in Nat
        BY <1>1, <2>1, <3>1 DEF Apart, Inside, WType, Slots
      <4>2. off[u] + 1 # off[t] + 1
        BY <4>1
      <4> QED BY <2>3, <2>5, <4>1, <4>2, Zenon DEF Own, mapping
    <3>2. \A u \in Threads : EventOf(u)' = EventOf(u)
      BY <1>1, Zenon DEF EventOf
    <3> QED BY <2>3, <2>4, <3>1, <3>2, ZenonT(30) DEF Owned, Holding
  <2> QED BY <2>6, <2>7, <2>8, Zenon
<1> QED BY <1>3, <1>4, <1>5, <1>6, <1>7, <1>8, <1>9, <1>10, <1>11, <1>12, Zenon DEF AppendStep

(* A writer opened on an empty directory has one empty segment. *)
LEMMA FirstOpen ==
  ASSUME RaceInv, Open, Single', mishaps' = mishaps \cup NewMishaps
  PROVE  /\ files = << >> /\ DOMAIN files' = {0} /\ mapped' = 0 /\ segment_id' = 0
         /\ \A i \in Slots : files'[0].records[i] = Nothing
         /\ files'[0].header = TRUE
         /\ \A u \in Threads : pc'[u] \in {"idle", "failed", "refused"}
<1>1. /\ ~ is_open /\ is_open' /\ pc' = pc /\ mapped' = 0 /\ segment_id' = 0
      /\ files' = [Created(0) EXCEPT ![0].header = TRUE]
  BY Zenon DEF Open
<1>2. files = << >>
  BY <1>1, MishapFacts, Zenon DEF Single, Reopened
<1>3. DOMAIN files = {} /\ 0 \notin DOMAIN files
  BY <1>2
<1>4. Quiescent
  BY <1>3, Zenon DEF RaceInv, Order
<1>5. /\ DOMAIN Created(0) = {0} /\ Created(0)[0] = EmptyFile
      /\ \A i \in DOMAIN Created(0) : IsFile(Created(0)[i])
  BY <1>3, CreatedFacts, Zenon DEF RaceInv
<1>6. DOMAIN files' = {0} /\ files'[0].records = EmptyFile.records /\ files'[0].header = TRUE
  BY <1>1, <1>5, HeaderFacts, Zenon
<1> QED BY <1>1, <1>2, <1>4, <1>6 DEF EmptyFile, Quiescent, Idle

(* Every step keeps the places apart. *)
LEMMA PlaceStep ==
  ASSUME PlaceInv, [Next]_vars
  PROVE  PlaceInv'
<1>1. RaceInv'
  BY RaceStep, Zenon DEF PlaceInv
<1>2. SUFFICES ASSUME Single', is_open' PROVE (Fresh /\ Apart /\ Owned)'
  BY <1>1, Zenon DEF PlaceInv
<1>3. CASE Next
  <2>1. mishaps' = mishaps \cup NewMishaps
    BY <1>3, Zenon DEF Next
  <2>2. mishaps \subseteq mishaps'
    BY <2>1, MishapFacts, Zenon
  <2>3. ASSUME is_open PROVE Inside /\ Fresh /\ Apart /\ Owned
    BY <1>2, <2>2, <2>3, Zenon DEF PlaceInv, RaceInv, Single, Steady
  <2>4. ASSUME NEW t \in Threads, AppendStep(t) PROVE (Fresh /\ Apart /\ Owned)'
    <3>1. is_open
      BY <1>2, <2>4, AppendKeeps, Zenon DEF PlaceInv, RaceInv
    <3> QED BY <1>2, <2>1, <2>3, <2>4, <3>1, PlaceAppend, Zenon DEF PlaceInv
  <2>5. ASSUME NEW t \in Threads, AppendCall(t) \/ AppendRefused(t)
        PROVE  (Fresh /\ Apart /\ Owned)'
    <3>1. /\ is_open' = is_open /\ UNCHANGED <<files, mapping, write_offset, off, seq>>
          /\ Idle(t) /\ (Goto(t, "reserve") \/ Goto(t, "refused"))
      BY <2>5, Zenon DEF AppendCall, AppendRefused, store, thread
    <3>2. pc'[t] \in {"reserve", "refused"} /\ \A u \in Threads : u # t => pc'[u] = pc[u]
      BY <3>1, GotoFacts, Zenon DEF PlaceInv, RaceInv
    <3>3. \A u \in Threads : u # t => calls'[u] = calls[u]
      BY <2>5, Zenon DEF AppendCall, AppendRefused, PlaceInv, RaceInv, WType
    <3>4. Fresh /\ Apart /\ Owned
      BY <1>2, <2>3, <3>1, Zenon
    <3> QED BY <3>1, <3>2, <3>3, <3>4, PlaceStay, Zenon DEF Holding, Owned
  <2>6. CASE Open
    <3>1. /\ DOMAIN files' = {0} /\ mapped' = 0 /\ segment_id' = 0
          /\ \A i \in Slots : files'[0].records[i] = Nothing
          /\ \A u \in Threads : pc'[u] \in {"idle", "failed", "refused"}
      BY <1>2, <2>1, <2>6, FirstOpen, Zenon DEF PlaceInv
    <3> QED BY <3>1 DEF Fresh, Apart, Owned, Holding
  <2>7. CASE Flush
    <3>1. is_open /\ UNCHANGED <<files, mapping, write_offset, off, seq, pc, calls>>
      BY <2>7, Zenon DEF Flush, thread
    <3> QED BY <2>3, <3>1, PlaceStay, Zenon DEF Holding, Owned
  <2>8. CASE OpenFails \/ Close \/ Kill \/ PowerLoss
    BY <1>2, <2>8, Zenon DEF OpenFails, Close, Kill, PowerLoss, Restarted
  <2> QED BY <1>3, <2>4, <2>5, <2>6, <2>7, <2>8, Zenon DEF Next
<1>4. CASE UNCHANGED vars
  <2>1. UNCHANGED <<files, mapping, write_offset, off, seq, pc, calls, mishaps, is_open>>
    BY <1>4, Zenon DEF vars, store, thread
  <2>2. Fresh /\ Apart /\ Owned
    BY <1>2, <2>1, Zenon DEF PlaceInv, Single
  <2> QED BY <2>1, <2>2, PlaceStay, Zenon DEF Holding, Owned
<1> QED BY <1>3, <1>4, Zenon

(* The places handed out by append, for any number of threads. *)
THEOREM PlaceInvariance == Spec => []PlaceInv
<1>1. Init => PlaceInv
  BY RaceStart, Zenon DEF PlaceInv, Init
<1> QED BY <1>1, PlaceStep, PTL DEF Spec

(* A step overwrites nothing when the places are apart. *)
LEMMA NothingOverwritten ==
  ASSUME PlaceInv, Next, Single
  PROVE  KeepsRecords
<1>1. SUFFICES ASSUME is_open, is_open',
                      NEW id \in DOMAIN files, NEW i \in Slots
               PROVE  /\ files[id].records[i].seq # 0 =>
                           /\ files'[id].records[i].seq = files[id].records[i].seq
                           /\ files'[id].records[i].crc = files[id].records[i].crc
                      /\ files[id].records[i].event # NoEvent =>
                           files'[id].records[i].event = files[id].records[i].event
  BY Zenon DEF KeepsRecords
<1>2. WType /\ Order /\ Inside /\ Owned
  BY <1>1, Zenon DEF PlaceInv, RaceInv, Single, Steady
<1>3. ASSUME files' = files \/ files'[id].records[i] = files[id].records[i]
      PROVE  /\ files[id].records[i].seq # 0 =>
                  /\ files'[id].records[i].seq = files[id].records[i].seq
                  /\ files'[id].records[i].crc = files[id].records[i].crc
             /\ files[id].records[i].event # NoEvent =>
                  files'[id].records[i].event = files[id].records[i].event
  BY <1>3, Zenon
<1>4. ASSUME NEW t \in Threads, AppendCall(t) \/ AppendRefused(t) \/ Reserve(t) \/ RollLock(t)
               \/ RollDone(t) \/ ReserveAgain(t) \/ Number(t)
      PROVE  files' = files
  BY <1>4, Zenon DEF AppendCall, AppendRefused, Reserve, RollLock, RollDone, ReserveAgain, Number, store
<1>5. ASSUME NEW t \in Threads, RollMap(t) \/ RollFail(t)
      PROVE  files'[id].records[i] = files[id].records[i]
  <2>1. segment_id \in Nat
    BY <1>2, Zenon DEF WType
  <2>2. Created(segment_id)[id] = files[id]
    BY <1>2, <2>1, CreatedFacts, Zenon
  <2> QED BY <1>5, <2>2, Zenon DEF RollMap, RollFail
<1>6. ASSUME NEW t \in Threads, RollHeader(t)
      PROVE  files'[id].records[i] = files[id].records[i]
  <2>1. mapped \in DOMAIN files
    BY <1>2, <1>6, Zenon DEF RollHeader, Order, WType
  <2> QED BY <1>2, <1>6, <2>1, HeaderFacts, Zenon DEF RollHeader, WType
<1>7. ASSUME NEW t \in Threads, WriteHeader(t)
      PROVE  /\ files[id].records[i].seq # 0 =>
                  /\ files'[id].records[i].seq = files[id].records[i].seq
                  /\ files'[id].records[i].crc = files[id].records[i].crc
             /\ files[id].records[i].event # NoEvent =>
                  files'[id].records[i].event = files[id].records[i].event
  <2>1. pc[t] = "header" /\ Holding(t)
    BY <1>7, Zenon DEF WriteHeader, Holding
  <2>2. mapped # NoSegment /\ off[t] < SegmentRecords
    BY <1>2, <2>1, Zenon DEF Inside
  <2>3. /\ id # mapped => files'[id] = files[id]
        /\ i # off[t] + 1 => files'[mapped].records[i] = files[mapped].records[i]
        /\ files'[mapped].records[off[t] + 1].event = files[mapped].records[off[t] + 1].event
    BY <1>2, <1>7, <2>2, WriteHeaderFacts, Zenon
  <2>4. files[mapped].records[off[t] + 1].seq = 0
    BY <1>2, <2>1 DEF Owned, Own, Nothing
  <2> QED BY <2>3, <2>4, Zenon
<1>8. ASSUME NEW t \in Threads, WriteBody(t)
      PROVE  /\ files[id].records[i].seq # 0 =>
                  /\ files'[id].records[i].seq = files[id].records[i].seq
                  /\ files'[id].records[i].crc = files[id].records[i].crc
             /\ files[id].records[i].event # NoEvent =>
                  files'[id].records[i].event = files[id].records[i].event
  <2>1. pc[t] = "body" /\ Holding(t)
    BY <1>8, Zenon DEF WriteBody, Holding
  <2>2. mapped # NoSegment /\ off[t] < SegmentRecords /\ dst[t] = Mapping
    BY <1>2, <2>1, Zenon DEF Inside
  <2>3. files' = [files EXCEPT ![mapped].records[off[t] + 1].event = EventOf(t)]
    BY <1>8, <2>2, Zenon DEF WriteBody
  <2>4. /\ id # mapped => files'[id] = files[id]
        /\ i # off[t] + 1 => files'[mapped].records[i] = files[mapped].records[i]
        /\ files'[mapped].records[off[t] + 1].seq = files[mapped].records[off[t] + 1].seq
        /\ files'[mapped].records[off[t] + 1].crc = files[mapped].records[off[t] + 1].crc
    BY <1>2, <2>2, <2>3, WriteBodyFacts, Zenon
  <2>5. files[mapped].records[off[t] + 1].event = NoEvent
    BY <1>2, <2>1, Zenon DEF Owned, Own
  <2> QED BY <2>4, <2>5, Zenon
<1>9. CASE Flush
  BY <1>3, <1>9, Zenon DEF Flush
<1>10. CASE Open \/ OpenFails \/ Close \/ Kill \/ PowerLoss
  BY <1>1, <1>10, Zenon DEF Open, OpenFails, Close, Kill, PowerLoss, Restarted
<1> QED BY <1>3, <1>4, <1>5, <1>6, <1>7, <1>8, <1>9, <1>10, Zenon DEF Next, AppendStep

(* journal_writer.h:53, "Append-Only": unless a rollover has raced with an *)
(* append or a directory has been reopened, append overwrites no record,   *)
(* also after rollovers that failed.                                       *)
THEOREM PlacesHandedOutOnce == Spec => PlacesDisjoint
<1>1. ASSUME PlaceInv, [Next]_vars
      PROVE  [mishaps \cap {"inflight", "overshot", "reopened"} = {} => KeepsRecords]_vars
  <2>1. CASE Next
    <3>1. mishaps \cap {"inflight", "overshot", "reopened"} = {} => Single
      BY Zenon DEF Single
    <3> QED BY <1>1, <2>1, <3>1, NothingOverwritten, Zenon
  <2>2. CASE UNCHANGED vars
    BY <2>2, Zenon
  <2> QED BY <1>1, <2>1, <2>2, Zenon
<1> QED BY <1>1, PlaceInvariance, PTL DEF Spec, PlacesDisjoint

-----------------------------------------------------------------------------
(* What the disk has *)

(* No step of append takes a segment header away. *)
LEMMA HeadersKept ==
  ASSUME WType, NEW t \in Threads, AppendStep(t), NEW id \in DOMAIN files, files[id].header
  PROVE  files'[id].header
<1>1. CASE Reserve(t) \/ RollLock(t) \/ RollDone(t) \/ ReserveAgain(t) \/ Number(t)
  BY <1>1, Zenon DEF Reserve, RollLock, RollDone, ReserveAgain, Number, store
<1>2. CASE RollMap(t) \/ RollFail(t)
  <2>1. segment_id \in Nat
    BY Zenon DEF WType
  <2>2. Created(segment_id)[id] = files[id]
    BY <2>1, CreatedFacts, Zenon
  <2> QED BY <1>2, <2>2, Zenon DEF RollMap, RollFail
<1>3. CASE RollHeader(t)
  <2>1. IsFile(files[id])
    BY Zenon DEF WType
  <2> QED BY <1>3, <2>1, Zenon DEF RollHeader, IsFile
<1>4. CASE WriteHeader(t)
  <2>1. CASE mapped # NoSegment /\ off[t] < SegmentRecords
    BY <1>4, <2>1, WriteHeaderFacts, Zenon
  <2>2. CASE ~ (mapped # NoSegment /\ off[t] < SegmentRecords)
    BY <1>4, <2>2, Zenon DEF WriteHeader, Fault, store
  <2> QED BY <2>1, <2>2, Zenon
<1>5. CASE WriteBody(t)
  <2>1. off[t] < SegmentRecords
    BY <1>5, Zenon DEF WriteBody, WType
  <2>2. CASE files' = files
    BY <2>2, ZenonT(30), SMT
  <2>3. CASE /\ mapped # NoSegment
             /\ files' = [files EXCEPT ![mapped].records[off[t] + 1].event = EventOf(t)]
    <3>1. \A f \in DOMAIN files : files'[f].header = files[f].header
      BY <2>1, <2>3, WriteBodyFacts, Zenon
    <3>2. DOMAIN files' = DOMAIN files
      BY <2>1, <2>3, WriteBodyFacts, Zenon
    <3> QED BY <3>1, <3>2, Zenon
  <2> QED BY <1>5, <2>2, <2>3, Zenon DEF WriteBody, Fault, store
<1> QED BY <1>1, <1>2, <1>3, <1>4, <1>5, Zenon DEF AppendStep

(* append stores to the disk only by syncing the mapped segment. *)
LEMMA AppendDisk ==
  ASSUME NEW t \in Threads, AppendStep(t)
  PROVE  disk' = disk \/ (disk' = Synced /\ files' = files)
  BY Zenon DEF AppendStep, Reserve, RollLock, RollDone, RollMap, RollFail, RollHeader, ReserveAgain,
         Number, WriteHeader, WriteBody, Fault, store

(* A segment agrees with itself. *)
LEMMA BehindItself ==
  ASSUME NEW f PROVE Behind(f, f)
  BY Zenon DEF Behind

(* After a sync the disk is behind as before. *)
LEMMA SyncedBehind ==
  ASSUME WType, \A id \in DOMAIN disk : Behind(disk[id], files[id])
  PROVE  \A id \in DOMAIN Synced : Behind(Synced[id], files[id])
<1>1. CASE mapped = NoSegment
  BY <1>1, SyncedFacts, Zenon
<1>2. CASE mapped # NoSegment
  <2>1. /\ DOMAIN Synced = DOMAIN disk \cup {mapped} /\ Synced[mapped] = files[mapped]
        /\ \A id \in DOMAIN disk : id # mapped => Synced[id] = disk[id]
    BY <1>2, SyncedFacts, Zenon
  <2> QED BY <2>1, BehindItself, Zenon
<1> QED BY <1>1, <1>2, Zenon

(* Every step leaves the disk behind the page cache. *)
LEMMA DiskStep ==
  ASSUME DiskInv, [Next]_vars
  PROVE  DiskInv'
<1>1. PlaceInv'
  BY PlaceStep, Zenon DEF DiskInv
<1>2. SUFFICES ASSUME Undisturbed' PROVE \A id \in DOMAIN disk' : Behind(disk'[id], files'[id])
  <2>1. ASSUME Undisturbed' => \A id \in DOMAIN disk' : Behind(disk'[id], files'[id])
        PROVE  DiskInv'
    BY <1>1, <2>1, Zenon DEF DiskInv, Behind
  <2> QED BY <2>1, Zenon
<1>3. CASE Next
  <2>1. mishaps' = mishaps \cup NewMishaps
    BY <1>3, Zenon DEF Next
  <2>2. mishaps \subseteq mishaps'
    BY <2>1, MishapFacts, Zenon
  <2>3. Undisturbed /\ PlaceInv /\ RaceInv /\ WType /\ Order
    BY <1>2, <2>2, Zenon DEF Undisturbed, Single, DiskInv, PlaceInv, RaceInv
  <2>4. \A id \in DOMAIN disk : Behind(disk[id], files[id])
    BY <2>3, Zenon DEF DiskInv
  <2>5. DOMAIN disk \subseteq DOMAIN files
    BY <2>3, Zenon DEF WType
  <2>6. ASSUME NEW t \in Threads, AppendStep(t)
        PROVE  \A id \in DOMAIN disk' : Behind(disk'[id], files'[id])
    <3>1. is_open /\ is_open'
      BY <2>3, <2>6, StepBusy, AppendKeeps, Zenon DEF Order, Undisturbed
    <3>2. CASE disk' = Synced /\ files' = files
      BY <2>3, <2>4, <3>2, SyncedBehind, Zenon
    <3>3. CASE disk' = disk
      <4>1. KeepsRecords
        BY <1>3, <2>3, NothingOverwritten, Zenon DEF Undisturbed
      <4>2. SUFFICES ASSUME NEW id \in DOMAIN disk PROVE Behind(disk[id], files'[id])
        BY <3>3, Zenon
      <4>3. id \in DOMAIN files /\ Behind(disk[id], files[id])
        BY <2>4, <2>5, Zenon
      <4>4. disk[id].header => files'[id].header
        BY <2>3, <2>6, <4>3, HeadersKept, Zenon DEF Behind
      <4>5. ASSUME NEW i \in Slots
            PROVE  /\ disk[id].records[i].seq # 0 =>
                        /\ files'[id].records[i].seq = disk[id].records[i].seq
                        /\ files'[id].records[i].crc = disk[id].records[i].crc
                   /\ disk[id].records[i].event # NoEvent =>
                        files'[id].records[i].event = disk[id].records[i].event
        BY <3>1, <4>1, <4>3, Zenon DEF KeepsRecords, Behind
      <4> QED BY <4>4, <4>5, Zenon DEF Behind
    <3> QED BY <2>6, <3>2, <3>3, AppendDisk, Zenon
  <2>7. ASSUME NEW t \in Threads, AppendCall(t) \/ AppendRefused(t)
        PROVE  \A id \in DOMAIN disk' : Behind(disk'[id], files'[id])
    BY <2>4, <2>7, Zenon DEF AppendCall, AppendRefused, store
  <2>8. CASE Open
    <3>1. DOMAIN files = {}
      BY <1>2, <2>1, <2>3, <2>8, FirstOpen DEF Undisturbed
    <3>2. mapped = NoSegment
      BY <2>3, <2>8, Zenon DEF Open, Order, Undisturbed
    <3>3. DOMAIN disk' = {}
      BY <2>3, <2>5, <2>8, <3>1, <3>2, SyncedFacts, Zenon DEF Open
    <3> QED BY <3>3, Zenon
  <2>9. CASE OpenFails
    <3>1. mapped = NoSegment
      BY <2>3, <2>9, Zenon DEF OpenFails, Order, Undisturbed
    <3>2. disk' = disk
      BY <2>3, <2>9, <3>1, SyncedFacts, Zenon DEF OpenFails
    <3>3. \A id \in DOMAIN files : Created(0)[id] = files[id]
      BY <2>3, CreatedFacts, Zenon
    <3>4. \A id \in DOMAIN files : files'[id] = files[id]
      BY <2>9, <3>3, Zenon DEF OpenFails
    <3> QED BY <2>4, <2>5, <3>2, <3>4, Zenon
  <2>10. CASE Flush \/ Close
    BY <2>3, <2>4, <2>10, SyncedBehind, Zenon DEF Flush, Close
  <2>11. CASE Kill
    BY <2>4, <2>11, Zenon DEF Kill, store
  <2>12. CASE PowerLoss
    <3>1. disk' = files'
      BY <2>3, <2>12, PowerLossFacts, Zenon
    <3> QED BY <3>1, BehindItself, Zenon
  <2> QED BY <1>3, <2>6, <2>7, <2>8, <2>9, <2>10, <2>11, <2>12, Zenon DEF Next
<1>4. CASE UNCHANGED vars
  BY <1>2, <1>4, Zenon DEF DiskInv, Undisturbed, Single, vars, store
<1> QED BY <1>3, <1>4, Zenon

(* What the disk has, always. *)
LEMMA DiskInvariance == Spec => []DiskInv
<1>1. Init => DiskInv
  <2>1. Init => DOMAIN disk = {}
    BY DEF Init
  <2> QED BY <2>1, RaceStart, Zenon DEF DiskInv, PlaceInv, Init
<1> QED BY <1>1, DiskStep, PTL DEF Spec

-----------------------------------------------------------------------------
(* Numbers are drawn in the order of the places *)

(* No step but the first memcpy of append gives a record a number. *)
LEMMA NumbersStay ==
  ASSUME WType, WType', DOMAIN files \subseteq DOMAIN files',
         \A id \in DOMAIN files' : \A i \in Slots :
           files'[id].records[i].seq = 0 \/
           (id \in DOMAIN files /\ files'[id].records[i].seq = files[id].records[i].seq)
  PROVE  /\ Increasing => Increasing'
         /\ (\A id \in DOMAIN files : \A i \in Slots : SeqAt(id, i) <= sequence_counter) =>
              \A id \in DOMAIN files' : \A i \in Slots : SeqAt(id, i)' <= sequence_counter
<1>1. Increasing => Increasing'
  BY DEF Increasing, SeqAt
<1>2. sequence_counter \in Nat
  BY Zenon DEF WType
<1>3. (\A id \in DOMAIN files : \A i \in Slots : SeqAt(id, i) <= sequence_counter) =>
              \A id \in DOMAIN files' : \A i \in Slots : SeqAt(id, i)' <= sequence_counter
  BY <1>2, SMTT(30) DEF SeqAt
<1> QED BY <1>1, <1>3, Zenon

(* The records of a step that writes no record header. *)
LEMMA RecordsStay ==
  ASSUME WType, NEW t \in Threads, AppendStep(t), ~ WriteHeader(t)
  PROVE  /\ \A id \in DOMAIN files' : \A i \in Slots :
              files'[id].records[i].seq = 0 \/
              (id \in DOMAIN files /\ files'[id].records[i].seq = files[id].records[i].seq)
         /\ \A id \in DOMAIN files : \A i \in Slots :
              files'[id].records[i].seq = files[id].records[i].seq
<1>1. CASE Reserve(t) \/ RollLock(t) \/ RollDone(t) \/ ReserveAgain(t) \/ Number(t)
  BY <1>1, Zenon DEF Reserve, RollLock, RollDone, ReserveAgain, Number, store
<1>2. CASE RollMap(t) \/ RollFail(t)
  <2>1. segment_id \in Nat
    BY Zenon DEF WType
  <2>2. /\ DOMAIN Created(segment_id) = DOMAIN files \cup {segment_id}
        /\ \A id \in DOMAIN files : Created(segment_id)[id] = files[id]
        /\ segment_id \notin DOMAIN files => Created(segment_id)[segment_id] = EmptyFile
    BY <2>1, CreatedFacts, Zenon
  <2>3. \A i \in Slots : EmptyFile.records[i].seq = 0
    BY Zenon DEF EmptyFile, Nothing
  <2>4. files' = files \/ files' = Created(segment_id)
    BY <1>2, Zenon DEF RollMap, RollFail
  <2> QED BY <2>2, <2>3, <2>4, Zenon
<1>3. CASE RollHeader(t)
  <2>1. DOMAIN files' = DOMAIN files
    BY <1>3, Zenon DEF RollHeader
  <2>2. \A id \in DOMAIN files : files'[id].records = files[id].records
    BY <1>3, Zenon DEF RollHeader, WType, IsFile
  <2> QED BY <2>1, <2>2, Zenon
<1>4. CASE WriteBody(t)
  <2>1. off[t] < SegmentRecords
    BY <1>4, Zenon DEF WriteBody, WType
  <2>2. CASE files' = files
    BY <2>2, Zenon
  <2>3. CASE /\ mapped # NoSegment
             /\ files' = [files EXCEPT ![mapped].records[off[t] + 1].event = EventOf(t)]
    <3>1. /\ DOMAIN files' = DOMAIN files
          /\ \A id \in DOMAIN files : id # mapped => files'[id] = files[id]
          /\ \A i \in Slots : i # off[t] + 1 => files'[mapped].records[i] = files[mapped].records[i]
          /\ files'[mapped].records[off[t] + 1].seq = files[mapped].records[off[t] + 1].seq
      BY <2>1, <2>3, WriteBodyFacts, Zenon
    <3> QED BY <3>1, Zenon
  <2> QED BY <1>4, <2>2, <2>3, Zenon DEF WriteBody, Fault, store
<1> QED BY <1>1, <1>2, <1>3, <1>4, Zenon DEF AppendStep

(* When no place is held, nobody's turn matters. *)
LEMMA TurnsIdle ==
  ASSUME \A u \in Threads : pc'[u] \notin {"number", "header"}
  PROVE  Turns'
  BY Zenon DEF Turns

(* Turns stay when the numbers in the mapped segment and the threads that  *)
(* hold a place without a number or a record header stay.                  *)
LEMMA TurnsStay ==
  ASSUME WType, Turns, UNCHANGED mapping, DOMAIN files' = DOMAIN files,
         \A id \in DOMAIN files : \A i \in Slots : SeqAt(id, i)' = SeqAt(id, i),
         \A u \in Threads : pc'[u] \in {"number", "header"} =>
           /\ pc'[u] = pc[u] /\ off'[u] = off[u] /\ seq'[u] = seq[u]
           /\ mapped # NoSegment
  PROVE  Turns'
<1>1. ASSUME NEW u \in Threads, pc'[u] = "number"
      PROVE  /\ \A i \in Slots : i > off'[u] => SeqAt(mapped, i)' = 0
             /\ \A w \in Threads : pc'[w] = "header" => off'[w] < off'[u]
  <2>1. pc[u] = "number" /\ mapped \in DOMAIN files /\ mapped' = mapped
    BY <1>1, Zenon DEF WType, mapping
  <2> QED BY <1>1, <2>1, Zenon DEF Turns, SeqAt, mapping
<1>2. ASSUME NEW u \in Threads, pc'[u] = "header"
      PROVE  /\ \A id \in DOMAIN files' : \A i \in Slots : SeqAt(id, i)' # 0 =>
                  /\ id # mapped' => SeqAt(id, i)' < seq'[u]
                  /\ id = mapped' /\ i < off'[u] + 1 => SeqAt(id, i)' < seq'[u]
                  /\ id = mapped' /\ i > off'[u] + 1 => SeqAt(id, i)' > seq'[u]
             /\ \A w \in Threads : pc'[w] = "header" /\ off'[u] < off'[w] => seq'[u] < seq'[w]
  BY <1>2, SMTT(30) DEF Turns, mapping
<1> QED BY <1>1, <1>2, Zenon DEF Turns, SeqAt

(* The place taken by a fetch_add comes after all that have a number. *)
LEMMA TurnsTaken ==
  ASSUME WType, Fresh, Apart, Turns, NEW t \in Threads, mapped # NoSegment,
         pc'[t] = "number", \A u \in Threads : u # t => pc'[u] = pc[u],
         off'[t] = write_offset, \A u \in Threads : u # t => off'[u] = off[u],
         UNCHANGED <<files, mapping, seq>>
  PROVE  Turns'
<1>1. \A i \in Slots : i > write_offset => SeqAt(mapped, i) = 0
  <2>1. \A i \in Slots : i > write_offset => files[mapped].records[i] = Nothing
    BY Zenon DEF Fresh
  <2>2. Nothing.seq = 0
    BY Zenon DEF Nothing
  <2> QED BY <2>1, <2>2, Zenon DEF SeqAt
<1>2. \A u \in Threads : u # t /\ pc[u] = "header" => off[u] < write_offset
  BY Zenon DEF Apart, Holding
<1>3. ASSUME NEW u \in Threads, pc'[u] = "number"
      PROVE  /\ \A i \in Slots : i > off'[u] => SeqAt(mapped, i)' = 0
             /\ \A w \in Threads : pc'[w] = "header" => off'[w] < off'[u]
  <2>1. CASE u = t
    BY <1>1, <1>2, <2>1, Zenon DEF SeqAt, mapping
  <2>2. CASE u # t
    BY <1>3, <2>2, Zenon DEF Turns, SeqAt, mapping
  <2> QED BY <2>1, <2>2, Zenon
<1>4. ASSUME NEW u \in Threads, pc'[u] = "header"
      PROVE  /\ \A id \in DOMAIN files' : \A i \in Slots : SeqAt(id, i)' # 0 =>
                  /\ id # mapped' => SeqAt(id, i)' < seq'[u]
                  /\ id = mapped' /\ i < off'[u] + 1 => SeqAt(id, i)' < seq'[u]
                  /\ id = mapped' /\ i > off'[u] + 1 => SeqAt(id, i)' > seq'[u]
             /\ \A w \in Threads : pc'[w] = "header" /\ off'[u] < off'[w] => seq'[u] < seq'[w]
  BY <1>4, Zenon DEF Turns, SeqAt, mapping
<1> QED BY <1>3, <1>4, Zenon DEF Turns, SeqAt

(* A number that is drawn in turn is the largest, and behind its place     *)
(* nothing has a number yet.                                               *)
LEMMA TurnsNumber ==
  ASSUME WType, Apart, Counted, Turns, NEW t \in Threads, Number(t), ~ Overtaken
  PROVE  Counted' /\ Turns'
<1>1. /\ pc[t] = "number" /\ Goto(t, "header") /\ sequence_counter' = sequence_counter + 1
      /\ seq' = [seq EXCEPT ![t] = sequence_counter + 1]
      /\ UNCHANGED <<files, mapping, off>>
  BY Zenon DEF Number, store
<1>2. pc'[t] = "header" /\ \A u \in Threads : u # t => pc'[u] = pc[u]
  BY <1>1, GotoFacts, Zenon
<1>3. /\ seq'[t] = sequence_counter + 1 /\ \A u \in Threads : u # t => seq'[u] = seq[u]
      /\ sequence_counter \in Nat /\ off \in [Threads -> Nat] /\ seq \in [Threads -> Nat]
      /\ \A id \in DOMAIN files : \A i \in Slots : SeqAt(id, i) \in Nat
  BY <1>1, Zenon DEF WType, IsFile, IsRecord, SeqAt
<1>4. \A id \in DOMAIN files : \A i \in Slots : SeqAt(id, i)' = SeqAt(id, i)
  BY <1>1, Zenon DEF SeqAt
<1>5. Counted'
  BY <1>1, <1>2, <1>3, <1>4, SMTT(30) DEF Counted, SeqAt
<1>6. \A u \in Threads : u # t /\ pc[u] = "number" => off[t] < off[u]
  <2>1. \A u \in Threads : u # t /\ pc[u] = "number" => ~ (off[u] < off[t])
    BY <1>1, <1>2, Zenon DEF Overtaken
  <2>2. \A u \in Threads : u # t /\ pc[u] = "number" => off[u] # off[t]
    BY <1>1, Zenon DEF Apart, Holding
  <2> QED BY <1>3, <2>1, <2>2, SMTT(30)
<1>7. /\ \A i \in Slots : i > off[t] => SeqAt(mapped, i) = 0
      /\ \A u \in Threads : pc[u] = "header" => off[u] < off[t]
  BY <1>1, Zenon DEF Turns
<1>8. ASSUME NEW u \in Threads, pc'[u] = "number"
      PROVE  /\ \A i \in Slots : i > off'[u] => SeqAt(mapped, i)' = 0
             /\ \A w \in Threads : pc'[w] = "header" => off'[w] < off'[u]
  <2>1. u # t /\ pc[u] = "number"
    BY <1>2, <1>8, Zenon
  <2>2. \A w \in Threads : pc'[w] = "header" => off'[w] < off'[u]
    BY <1>1, <1>2, <1>6, <2>1, Zenon DEF Turns
  <2> QED BY <1>1, <2>1, <2>2, Zenon DEF Turns, SeqAt, mapping
<1>9. ASSUME NEW u \in Threads, pc'[u] = "header"
      PROVE  \A id \in DOMAIN files' : \A i \in Slots : SeqAt(id, i)' # 0 =>
                  /\ id # mapped' => SeqAt(id, i)' < seq'[u]
                  /\ id = mapped' /\ i < off'[u] + 1 => SeqAt(id, i)' < seq'[u]
                  /\ id = mapped' /\ i > off'[u] + 1 => SeqAt(id, i)' > seq'[u]
  <2>1. CASE u = t
    <3>1. \A id \in DOMAIN files : \A i \in Slots : SeqAt(id, i) < seq'[t]
      BY <1>3 DEF Counted
    <3>2. \A i \in Slots : i > off[t] + 1 => SeqAt(mapped, i) = 0
      BY <1>3, <1>7 DEF Slots
    <3> QED BY <1>1, <1>4, <2>1, <3>1, <3>2, Zenon DEF mapping
  <2>2. CASE u # t
    <3>1. pc[u] = "header" /\ seq'[u] = seq[u]
      BY <1>2, <1>3, <1>9, <2>2, Zenon
    <3> QED BY <1>1, <1>4, <3>1, SMTT(30) DEF Turns, mapping
  <2> QED BY <2>1, <2>2, Zenon
<1>10. ASSUME NEW u \in Threads, NEW w \in Threads, pc'[u] = "header", pc'[w] = "header",
              off'[u] < off'[w]
       PROVE  seq'[u] < seq'[w]
  <2>1. CASE u = t
    <3>1. w # t
      BY <1>1, <1>3, <1>10, <2>1
    <3>2. off[w] < off[t]
      BY <1>2, <1>7, <1>10, <3>1, Zenon
    <3> QED BY <1>1, <1>3, <1>10, <2>1, <3>2
  <2>2. CASE u # t /\ w = t
    <3>1. seq[u] <= sequence_counter
      BY <1>2, <1>10, <2>2, Zenon DEF Counted
    <3> QED BY <1>3, <2>2, <3>1
  <2>3. CASE u # t /\ w # t
    BY <1>1, <1>2, <1>3, <1>10, <2>3, Zenon DEF Turns
  <2> QED BY <2>1, <2>2, <2>3, Zenon
<1>11. Turns'
  BY <1>8, <1>9, <1>10, Zenon DEF Turns, SeqAt
<1> QED BY <1>5, <1>11, Zenon

(* A record header that is written fits between its neighbours. *)
LEMMA TurnsHeader ==
  ASSUME WType, Inside, Fresh, Apart, Owned, Increasing, Counted, Turns,
         NEW t \in Threads, WriteHeader(t)
  PROVE  Increasing' /\ Counted' /\ Turns'
<1> USE BoundsAssumption
<1>1. pc[t] = "header" /\ Holding(t)
  BY Zenon DEF WriteHeader, Holding
<1>2. mapped # NoSegment /\ off[t] < SegmentRecords /\ ~ (off[t] >= SegmentRecords)
  BY <1>1 DEF Inside, WType
<1>3. Goto(t, "body") /\ UNCHANGED <<mapping, write_offset, off, seq, sequence_counter>>
  BY <1>2, Zenon DEF WriteHeader, counters
<1>4. pc'[t] = "body" /\ \A u \in Threads : u # t => pc'[u] = pc[u]
  BY <1>3, GotoFacts, Zenon
<1>5. /\ mapped \in DOMAIN files /\ off[t] + 1 \in Slots /\ DOMAIN files' = DOMAIN files
      /\ \A id \in DOMAIN files : id # mapped => files'[id] = files[id]
      /\ \A i \in Slots : i # off[t] + 1 => files'[mapped].records[i] = files[mapped].records[i]
      /\ files'[mapped].records[off[t] + 1].seq = seq[t]
  BY <1>2, WriteHeaderFacts, Zenon
<1>6. PICK k \in Slots : k = off[t] + 1
  BY <1>5, Zenon
<1>7. /\ \A id \in DOMAIN files : \A i \in Slots :
           id # mapped \/ i # k => files'[id].records[i].seq = files[id].records[i].seq
      /\ files'[mapped].records[k].seq = seq[t]
  BY <1>5, <1>6, Zenon
<1>8. /\ \A id \in DOMAIN files : id \in Nat /\ id <= mapped
      /\ \A id \in DOMAIN files : \A i \in Slots : files[id].records[i].seq \in Nat
      /\ off \in [Threads -> Nat] /\ seq \in [Threads -> Nat] /\ sequence_counter \in Nat
      /\ mapped \in Nat
  BY <1>2, <1>5, SMTT(30) DEF WType, IsFile, IsRecord, Fresh
<1>9. \A id \in DOMAIN files : \A i \in Slots : files[id].records[i].seq # 0 =>
           /\ id # mapped => files[id].records[i].seq < seq[t]
           /\ id = mapped /\ i < k => files[id].records[i].seq < seq[t]
           /\ id = mapped /\ i > k => files[id].records[i].seq > seq[t]
  BY <1>1, <1>6, Zenon DEF Turns, SeqAt
<1>10. Increasing'
  <2>1. SUFFICES ASSUME NEW a \in DOMAIN files, NEW b \in DOMAIN files, NEW i \in Slots, NEW j \in Slots,
                        a < b \/ (a = b /\ i < j),
                        files'[a].records[i].seq # 0, files'[b].records[j].seq # 0
                 PROVE  files'[a].records[i].seq < files'[b].records[j].seq
    BY <1>5, Zenon DEF Increasing, SeqAt
  <2>2. CASE a = mapped /\ i = k
    <3>1. b = mapped /\ j > k
      BY <1>8, <2>1, <2>2, SMTT(30) DEF Slots
    <3> QED BY <1>7, <1>8, <1>9, <2>1, <2>2, <3>1 DEF Slots
  <2>3. CASE b = mapped /\ j = k
    <3>1. a # mapped \/ i # k
      BY <1>8, <2>1, <2>3, SMTT(30) DEF Slots
    <3>2. files'[a].records[i].seq = files[a].records[i].seq
      BY <1>7, <3>1, Zenon
    <3>3. a # mapped \/ i < k
      BY <1>8, <2>1, <2>3, SMTT(30) DEF Slots
    <3> QED BY <1>7, <1>9, <2>1, <2>3, <3>2, <3>3, Zenon
  <2>4. CASE ~ (a = mapped /\ i = k) /\ ~ (b = mapped /\ j = k)
    BY <1>7, <2>1, <2>4, SMTT(30) DEF Increasing, SeqAt
  <2> QED BY <2>2, <2>3, <2>4, Zenon
<1>11. Counted'
  <2>1. \A id \in DOMAIN files' : \A i \in Slots : files'[id].records[i].seq <= sequence_counter
    BY <1>1, <1>5, <1>7, Zenon DEF Counted, SeqAt
  <2> QED BY <1>3, <1>4, <2>1, Zenon DEF Counted, SeqAt
<1>12. Turns'
  <2>1. ASSUME NEW u \in Threads, pc'[u] = "number"
        PROVE  /\ \A i \in Slots : i > off'[u] => files'[mapped'].records[i].seq = 0
               /\ \A w \in Threads : pc'[w] = "header" => off'[w] < off'[u]
    <3>1. u # t /\ pc[u] = "number" /\ off[t] < off[u]
      BY <1>1, <1>4, <2>1, Zenon DEF Turns
    <3>2. \A i \in Slots : i > off[u] => i # k
      BY <1>6, <1>8, <3>1 DEF Slots
    <3>3. \A w \in Threads : pc'[w] = "header" => w # t /\ pc[w] = "header"
      BY <1>4, Zenon
    <3> QED BY <1>3, <1>5, <1>7, <3>1, <3>2, <3>3, ZenonT(30) DEF Turns, SeqAt, mapping
  <2>2. ASSUME NEW u \in Threads, pc'[u] = "header",
               NEW id \in DOMAIN files', NEW i \in Slots, files'[id].records[i].seq # 0
        PROVE  /\ id # mapped' => files'[id].records[i].seq < seq'[u]
               /\ id = mapped' /\ i < off'[u] + 1 => files'[id].records[i].seq < seq'[u]
               /\ id = mapped' /\ i > off'[u] + 1 => files'[id].records[i].seq > seq'[u]
    <3>1. u # t /\ pc[u] = "header" /\ off[u] # off[t]
      <4>1. u # t /\ pc[u] = "header"
        BY <1>4, <2>2, Zenon
      <4> QED BY <1>1, <4>1, Zenon DEF Apart, Holding
    <3>2. CASE id = mapped /\ i = k
      <4>1. off[u] < off[t] => seq[u] < seq[t]
        BY <1>1, <3>1, Zenon DEF Turns
      <4>2. off[t] < off[u] => seq[t] < seq[u]
        BY <1>1, <3>1, Zenon DEF Turns
      <4> QED BY <1>3, <1>6, <1>7, <1>8, <3>1, <3>2, <4>1, <4>2, SMTT(30) DEF mapping
    <3>3. CASE id # mapped \/ i # k
      <4>1. id \in DOMAIN files /\ files'[id].records[i].seq = files[id].records[i].seq
        BY <1>5, <1>7, <3>3, Zenon
      <4>2. /\ id # mapped => files[id].records[i].seq < seq[u]
            /\ id = mapped /\ i < off[u] + 1 => files[id].records[i].seq < seq[u]
            /\ id = mapped /\ i > off[u] + 1 => files[id].records[i].seq > seq[u]
        BY <2>2, <3>1, <4>1, Zenon DEF Turns, SeqAt
      <4> QED BY <1>3, <4>1, <4>2, Zenon DEF mapping
    <3> QED BY <3>2, <3>3, Zenon
  <2>3. ASSUME NEW u \in Threads, NEW w \in Threads, pc'[u] = "header", pc'[w] = "header",
               off'[u] < off'[w]
        PROVE  seq'[u] < seq'[w]
    BY <1>3, <1>4, <2>3, Zenon DEF Turns
  <2> QED BY <2>1, <2>2, <2>3, Zenon DEF Turns, SeqAt
<1> QED BY <1>10, <1>11, <1>12, Zenon

(* The steps of append draw numbers in the order of the places. *)
LEMMA TurnAppend ==
  ASSUME WType, WType', Order, Inside, Inside', Fresh, Fresh', Apart, Owned,
         Increasing, Counted, Turns, NEW t \in Threads, AppendStep(t), Ordered',
         mishaps' = mishaps \cup NewMishaps
  PROVE  Increasing' /\ Counted' /\ Turns'
<1> USE BoundsAssumption
<1>1. CASE WriteHeader(t)
  BY <1>1, TurnsHeader, Zenon
<1>2. ASSUME ~ WriteHeader(t)
      PROVE  /\ Increasing'
             /\ \A id \in DOMAIN files' : \A i \in Slots : SeqAt(id, i)' <= sequence_counter
  <2>1. DOMAIN files \subseteq DOMAIN files'
    BY AppendKeeps, Zenon
  <2>2. \A id \in DOMAIN files' : \A i \in Slots :
           files'[id].records[i].seq = 0 \/
           (id \in DOMAIN files /\ files'[id].records[i].seq = files[id].records[i].seq)
    BY <1>2, RecordsStay, Zenon
  <2> QED BY <2>1, <2>2, NumbersStay, Zenon DEF Counted
<1>3. CASE Number(t)
  <2>1. ~ Overtaken
    BY MishapFacts, Zenon DEF Ordered
  <2>2. ~ WriteHeader(t)
    BY <1>3, Zenon DEF Number, WriteHeader
  <2> QED BY <1>2, <1>3, <2>1, <2>2, TurnsNumber, Zenon
<1>4. ASSUME ~ WriteHeader(t), sequence_counter' = sequence_counter,
             \A u \in Threads : pc'[u] = "header" => pc[u] = "header" /\ seq'[u] = seq[u]
      PROVE  Counted'
  BY <1>2, <1>4, Zenon DEF Counted, SeqAt
<1>5. CASE Reserve(t)
  <2>1. /\ Goto(t, IF write_offset + 1 > SegmentRecords THEN "lock" ELSE "number")
        /\ off' = [off EXCEPT ![t] = write_offset] /\ pc[t] = "reserve"
        /\ UNCHANGED <<files, mapping, seq, sequence_counter>>
    BY <1>5, Zenon DEF Reserve, store, counters
  <2>2. /\ off'[t] = write_offset /\ \A u \in Threads : u # t => off'[u] = off[u]
        /\ write_offset \in Nat
    BY <2>1, Zenon DEF WType
  <2>3. /\ pc'[t] = IF write_offset + 1 > SegmentRecords THEN "lock" ELSE "number"
        /\ \A u \in Threads : u # t => pc'[u] = pc[u]
    BY <2>1, GotoFacts, Zenon
  <2>4. ~ WriteHeader(t)
    BY <2>1, Zenon DEF WriteHeader
  <2>5. Increasing' /\ Counted'
    <3>1. /\ sequence_counter' = sequence_counter
          /\ \A u \in Threads : pc'[u] = "header" => pc[u] = "header" /\ seq'[u] = seq[u]
      BY <2>1, <2>3, Zenon
    <3>2. Increasing'
      BY <1>2, <2>4, Zenon
    <3>3. Counted'
      BY <1>4, <2>4, <3>1, Zenon
    <3> QED BY <3>2, <3>3, Zenon
  <2>6. CASE write_offset + 1 > SegmentRecords
    <3>1. \A u \in Threads : pc'[u] \in {"number", "header"} =>
            pc'[u] = pc[u] /\ off'[u] = off[u] /\ seq'[u] = seq[u] /\ mapped # NoSegment
      BY <2>1, <2>2, <2>3, <2>6, Zenon DEF Inside, Holding
    <3>2. \A id \in DOMAIN files : \A i \in Slots : SeqAt(id, i)' = SeqAt(id, i)
      BY <2>1, Zenon DEF SeqAt
    <3> QED BY <2>1, <2>5, <3>1, <3>2, TurnsStay, Zenon
  <2>7. CASE ~ (write_offset + 1 > SegmentRecords)
    <3>1. mapped # NoSegment
      BY <2>2, <2>7, SMTT(30) DEF Inside
    <3> QED BY <2>1, <2>2, <2>3, <2>5, <2>7, <3>1, TurnsTaken, ZenonT(30)
  <2> QED BY <2>6, <2>7, Zenon
<1>6. CASE ReserveAgain(t)
  <2>1. /\ Goto(t, "number") /\ off' = [off EXCEPT ![t] = write_offset] /\ pc[t] = "again"
        /\ UNCHANGED <<files, mapping, seq, sequence_counter>>
    BY <1>6, Zenon DEF ReserveAgain, store, counters
  <2>2. off'[t] = write_offset /\ \A u \in Threads : u # t => off'[u] = off[u]
    BY <2>1, Zenon DEF WType
  <2>3. pc'[t] = "number" /\ \A u \in Threads : u # t => pc'[u] = pc[u]
    BY <2>1, GotoFacts, Zenon
  <2>4. ~ WriteHeader(t) /\ mapped # NoSegment
    BY <2>1, Zenon DEF WriteHeader, Inside
  <2>5. Increasing' /\ Counted'
    <3>1. /\ sequence_counter' = sequence_counter
          /\ \A u \in Threads : pc'[u] = "header" => pc[u] = "header" /\ seq'[u] = seq[u]
      BY <2>1, <2>3, Zenon
    <3>2. Increasing'
      BY <1>2, <2>4, Zenon
    <3>3. Counted'
      BY <1>4, <2>4, <3>1, Zenon
    <3> QED BY <3>2, <3>3, Zenon
  <2> QED BY <2>1, <2>2, <2>3, <2>4, <2>5, TurnsTaken, Zenon
<1>7. CASE RollDone(t)
  <2>1. /\ Goto(t, "again") /\ pc[t] = "lock"
        /\ UNCHANGED <<files, mapping, off, seq, sequence_counter>>
    BY <1>7, Zenon DEF RollDone, store, thread, counters
  <2>2. pc'[t] = "again" /\ \A u \in Threads : u # t => pc'[u] = pc[u]
    BY <2>1, GotoFacts, Zenon
  <2>3. ~ WriteHeader(t)
    BY <2>1, Zenon DEF WriteHeader
  <2>4. Increasing' /\ Counted'
    <3>1. /\ sequence_counter' = sequence_counter
          /\ \A u \in Threads : pc'[u] = "header" => pc[u] = "header" /\ seq'[u] = seq[u]
      BY <2>1, <2>2, Zenon
    <3>2. Increasing'
      BY <1>2, <2>3, Zenon
    <3>3. Counted'
      BY <1>4, <2>3, <3>1, Zenon
    <3> QED BY <3>2, <3>3, Zenon
  <2>5. \A u \in Threads : pc'[u] \in {"number", "header"} =>
          pc'[u] = pc[u] /\ off'[u] = off[u] /\ seq'[u] = seq[u] /\ mapped # NoSegment
    BY <2>1, <2>2, Zenon DEF Inside, Holding
  <2>6. \A id \in DOMAIN files : \A i \in Slots : SeqAt(id, i)' = SeqAt(id, i)
    BY <2>1, Zenon DEF SeqAt
  <2> QED BY <2>1, <2>4, <2>5, <2>6, TurnsStay, Zenon
<1>8. CASE RollLock(t) \/ RollMap(t) \/ RollFail(t) \/ RollHeader(t)
  <2>1. \A u \in Threads : ~ Holding(u)'
    <3>1. CASE RollLock(t)
      BY <3>1, Zenon DEF RollLock, Inside
    <3>2. CASE RollMap(t)
      <4>1. Goto(t, "init")
        BY <3>2, Zenon DEF RollMap
      <4>2. pc'[t] = "init"
        BY <4>1, GotoFacts, Zenon
      <4> QED BY <4>2, Zenon DEF Fresh
    <3>3. CASE RollFail(t)
      BY <3>3, Zenon DEF RollFail, Inside, Order, mapping
    <3>4. CASE RollHeader(t)
      <4>1. Goto(t, "again") /\ pc[t] = "init"
        BY <3>4, Zenon DEF RollHeader
      <4>2. pc'[t] = "again" /\ \A u \in Threads : u # t => pc'[u] = pc[u]
        BY <4>1, GotoFacts, Zenon
      <4> QED BY <4>1, <4>2, Zenon DEF Fresh, Holding
    <3> QED BY <1>8, <3>1, <3>2, <3>3, <3>4, Zenon
  <2>2. ~ WriteHeader(t) /\ sequence_counter' = sequence_counter
    BY <1>8, Zenon DEF WriteHeader, RollLock, RollMap, RollFail, RollHeader, counters
  <2>3. \A u \in Threads : pc'[u] \notin {"number", "header"}
    BY <2>1, Zenon DEF Holding
  <2>4. Increasing' /\ Counted'
    BY <1>2, <1>4, <2>2, <2>3, Zenon
  <2> QED BY <2>3, <2>4, TurnsIdle, Zenon
<1>9. CASE WriteBody(t)
  <2>1. pc[t] = "body" /\ Holding(t) /\ ~ WriteHeader(t)
    BY <1>9, Zenon DEF WriteBody, WriteHeader, Holding
  <2>2. mapped # NoSegment /\ dst[t] = Mapping
    BY <2>1, Zenon DEF Inside
  <2>3. /\ Goto(t, "idle") /\ UNCHANGED <<mapping, off, seq, sequence_counter>>
        /\ DOMAIN files' = DOMAIN files
    BY <1>9, <2>2, Zenon DEF WriteBody, thread
  <2>4. pc'[t] = "idle" /\ \A u \in Threads : u # t => pc'[u] = pc[u]
    BY <2>3, GotoFacts, Zenon
  <2>5. Increasing' /\ Counted'
    <3>1. /\ sequence_counter' = sequence_counter
          /\ \A u \in Threads : pc'[u] = "header" => pc[u] = "header" /\ seq'[u] = seq[u]
      BY <2>3, <2>4, Zenon
    <3>2. Increasing'
      BY <1>2, <2>1, Zenon
    <3>3. Counted'
      BY <1>4, <2>1, <3>1, Zenon
    <3> QED BY <3>2, <3>3, Zenon
  <2>6. \A id \in DOMAIN files : \A i \in Slots : SeqAt(id, i)' = SeqAt(id, i)
    BY <2>1, RecordsStay, Zenon DEF SeqAt
  <2> QED BY <2>2, <2>3, <2>4, <2>5, <2>6, TurnsStay, Zenon
<1> QED BY <1>1, <1>3, <1>5, <1>6, <1>7, <1>8, <1>9, Zenon DEF AppendStep

(* Every step keeps the numbers in order. *)
LEMMA TurnStep ==
  ASSUME TurnInv, [Next]_vars
  PROVE  TurnInv'
<1>1. DiskInv'
  BY DiskStep, Zenon DEF TurnInv
<1>2. SUFFICES ASSUME Ordered' PROVE Increasing' /\ (is_open' => (Counted /\ Turns)')
  BY <1>1, Zenon DEF TurnInv
<1>3. /\ DiskInv /\ PlaceInv /\ RaceInv /\ WType /\ Order
      /\ PlaceInv' /\ RaceInv' /\ WType'
  BY <1>1, Zenon DEF TurnInv, DiskInv, PlaceInv, RaceInv
<1>4. CASE Next
  <2>1. mishaps' = mishaps \cup NewMishaps
    BY <1>4, Zenon DEF Next
  <2>2. mishaps \subseteq mishaps'
    BY <2>1, MishapFacts, Zenon
  <2>3. Ordered /\ Single /\ Single' /\ Steady /\ Steady' /\ Undisturbed
    BY <1>2, <2>2, Zenon DEF Ordered, Single, Steady, Undisturbed
  <2>4. Increasing
    BY <2>3, Zenon DEF TurnInv
  <2>5. ASSUME is_open PROVE Inside /\ Fresh /\ Apart /\ Owned /\ Counted /\ Turns
    BY <1>3, <2>3, <2>5, Zenon DEF TurnInv, PlaceInv, RaceInv
  <2>6. ASSUME NEW t \in Threads, AppendStep(t) PROVE Increasing' /\ Counted' /\ Turns'
    <3>1. is_open /\ is_open'
      BY <1>3, <2>3, <2>6, StepBusy, AppendKeeps, Zenon DEF Order, Undisturbed
    <3>2. Inside' /\ Fresh'
      BY <1>3, <2>3, <3>1, Zenon DEF PlaceInv, RaceInv
    <3> QED BY <1>2, <1>3, <2>1, <2>4, <2>5, <2>6, <3>1, <3>2, TurnAppend, Zenon
  <2>7. ASSUME is_open' = is_open, UNCHANGED <<files, mapping, off, seq, sequence_counter>>,
               \A u \in Threads : pc'[u] \in {"number", "header"} => pc'[u] = pc[u]
        PROVE  Increasing' /\ (is_open' => Counted' /\ Turns')
    <3>1. Increasing'
      BY <2>4, <2>7, ZenonT(30), SMT DEF Increasing, SeqAt
    <3>2. ASSUME is_open' PROVE Counted' /\ Turns'
      <4>1. Counted'
        BY <2>5, <2>7, <3>2, Zenon DEF Counted, SeqAt
      <4>2. \A u \in Threads : pc'[u] \in {"number", "header"} => mapped # NoSegment
        BY <2>5, <2>7, <3>2, Zenon DEF Inside, Holding
      <4>3. \A id \in DOMAIN files : \A i \in Slots : SeqAt(id, i)' = SeqAt(id, i)
        BY <2>7, Zenon DEF SeqAt
      <4> QED BY <1>3, <2>5, <2>7, <3>2, <4>1, <4>2, <4>3, TurnsStay, Zenon
    <3> QED BY <3>1, <3>2, Zenon
  <2>8. ASSUME NEW t \in Threads, AppendCall(t) \/ AppendRefused(t)
        PROVE  Increasing' /\ (is_open' => Counted' /\ Turns')
    <3>1. /\ is_open' = is_open /\ UNCHANGED <<files, mapping, off, seq, sequence_counter>>
          /\ Goto(t, "reserve") \/ Goto(t, "refused")
      BY <2>8, Zenon DEF AppendCall, AppendRefused, store, thread, counters
    <3>2. pc'[t] \in {"reserve", "refused"} /\ \A u \in Threads : u # t => pc'[u] = pc[u]
      BY <1>3, <3>1, GotoFacts, Zenon
    <3> QED BY <2>7, <3>1, <3>2, Zenon
  <2>9. CASE Flush
    BY <2>7, <2>9, Zenon DEF Flush, thread, counters
  <2>10. CASE Open
    <3>1. /\ DOMAIN files' = {0} /\ \A i \in Slots : files'[0].records[i] = Nothing
          /\ \A u \in Threads : pc'[u] \in {"idle", "failed", "refused"}
      BY <1>3, <2>1, <2>3, <2>10, FirstOpen, Zenon
    <3>2. \A id \in DOMAIN files' : \A i \in Slots : SeqAt(id, i)' = 0
      BY <3>1, SMTT(30) DEF SeqAt, Nothing
    <3>3. sequence_counter' \in Nat
      BY <1>3, Zenon DEF WType
    <3>4. Increasing' /\ Counted'
      BY <3>1, <3>2, <3>3, SMTT(30) DEF Increasing, Counted
    <3> QED BY <3>1, <3>4, TurnsIdle, Zenon
  <2>11. CASE OpenFails
    <3>1. ~ is_open'
      BY <2>11, Zenon DEF OpenFails
    <3>2. /\ DOMAIN Created(0) = DOMAIN files \cup {0}
          /\ \A id \in DOMAIN files : Created(0)[id] = files[id]
          /\ 0 \notin DOMAIN files => Created(0)[0] = EmptyFile
      BY <1>3, CreatedFacts, Zenon
    <3>3. \A i \in Slots : EmptyFile.records[i].seq = 0
      BY Zenon DEF EmptyFile, Nothing
    <3>4. /\ DOMAIN files \subseteq DOMAIN files'
          /\ \A id \in DOMAIN files' : \A i \in Slots :
               files'[id].records[i].seq = 0 \/
               (id \in DOMAIN files /\ files'[id].records[i].seq = files[id].records[i].seq)
      BY <2>11, <3>2, <3>3, ZenonT(30) DEF OpenFails
    <3> QED BY <1>3, <2>4, <3>1, <3>4, NumbersStay, Zenon
  <2>12. CASE Close \/ Kill
    <3>1. ~ is_open' /\ files' = files
      BY <2>12, Zenon DEF Close, Kill, Restarted, store
    <3> QED BY <2>4, <3>1 DEF Increasing, SeqAt
  <2>13. CASE PowerLoss
    <3>1. ~ is_open'
      BY <2>13, Zenon DEF PowerLoss, Restarted
    <3>2. DOMAIN files' = DOMAIN files
      BY <1>3, <2>13, PowerLossFacts, Zenon
    <3>3. ASSUME NEW id \in DOMAIN files, NEW i \in Slots
          PROVE  \/ files'[id].records[i].seq = 0
                 \/ files'[id].records[i].seq = files[id].records[i].seq
      <4>1. \/ files'[id].records[i].seq = files[id].records[i].seq
            \/ files'[id].records[i].seq = OnDisk(id).records[i].seq
        BY <1>3, <2>13, <3>3, PowerLossFacts, Zenon
      <4>2. CASE id \in DOMAIN disk
        <5>1. OnDisk(id) = disk[id]
          BY <1>3, <3>3, <4>2, OnDiskFacts, Zenon
        <5>2. disk[id].records[i].seq # 0 => files[id].records[i].seq = disk[id].records[i].seq
          BY <1>3, <2>3, <3>3, <4>2, Zenon DEF DiskInv, Behind
        <5> QED BY <4>1, <5>1, <5>2, Zenon
      <4>3. CASE id \notin DOMAIN disk
        <5>1. OnDisk(id).records[i].seq = 0
          BY <1>3, <3>3, <4>3, OnDiskFacts DEF Nothing
        <5> QED BY <4>1, <5>1, Zenon
      <4> QED BY <4>2, <4>3, Zenon
    <3> QED BY <1>3, <2>4, <3>1, <3>2, <3>3, NumbersStay, Zenon
  <2> QED BY <1>4, <2>6, <2>8, <2>9, <2>10, <2>11, <2>12, <2>13, Zenon, SMT DEF Next
<1>5. CASE UNCHANGED vars
  <2>1. UNCHANGED <<files, mapping, off, seq, sequence_counter, pc, is_open, mishaps>>
    BY <1>5, Zenon DEF vars, store, thread, counters
  <2>2. Ordered
    BY <1>2, <2>1, Zenon DEF Ordered
  <2>3. Increasing'
    BY <2>1, <2>2, ZenonT(30), SMT DEF TurnInv, Increasing, SeqAt
  <2>4. is_open' => Counted'
    BY <2>1, <2>2, Zenon DEF TurnInv, Counted, SeqAt
  <2>5. is_open' => Turns'
    BY <2>1, <2>2, ZenonT(30), SMT DEF TurnInv, Turns, SeqAt, mapping
  <2> QED BY <2>3, <2>4, <2>5, Zenon
<1> QED BY <1>4, <1>5, Zenon

(* Drawing numbers in turn, always. *)
LEMMA TurnInvariance == Spec => []TurnInv
<1>1. Init => TurnInv
  <2>1. Init => DOMAIN disk = {} /\ DOMAIN files = {} /\ ~ is_open
    BY DEF Init
  <2> QED BY <2>1, RaceStart, Zenon DEF TurnInv, DiskInv, PlaceInv, Increasing
<1> QED BY <1>1, TurnStep, PTL DEF Spec

(* A record that a replay returns is complete. *)
LEMMA ReplayedRecords ==
  ASSUME NEW r \in Replayed(Journal)
  PROVE  /\ r[1] \in DOMAIN files /\ r[2] \in Slots
         /\ files[r[1]].records[r[2]].seq # 0
<1>1. r \in Places(Journal) /\ Journal[r[1]].records[r[2]] = "valid"
  BY Zenon DEF Replayed, PromisedRecords, ValidRecords
<1>2. DOMAIN Journal = DOMAIN files /\ \A id \in DOMAIN files : DOMAIN Journal[id].records = Slots
  BY Zenon DEF Journal
<1>3. r[1] \in DOMAIN files /\ r[2] \in Slots
  BY <1>1, <1>2, SMTT(30) DEF Places
<1>4. KindOf(files[r[1]].records[r[2]]) = "valid"
  BY <1>1, <1>3, Zenon DEF Journal
<1> QED BY <1>3, <1>4, Zenon DEF KindOf

(* journal_writer.h:43, "Monotonic global sequence number": a replay meets *)
(* the sequence numbers in increasing order, unless an append has drawn    *)
(* its number out of turn, a rollover or a close has raced with an append, *)
(* or a directory has been opened again.                                   *)
THEOREM ReplayedInSequence == Spec => []ReplayInSequence
<1>1. TurnInv => ReplayInSequence
  <2>1. SUFFICES ASSUME TurnInv, Ordered, NEW a \in Replayed(Journal), NEW b \in Replayed(Journal),
                        Before(a, b)
                 PROVE  Record(a).seq < Record(b).seq
    BY Zenon DEF ReplayInSequence, Ordered
  <2>2. /\ a[1] \in DOMAIN files /\ a[2] \in Slots /\ SeqAt(a[1], a[2]) # 0
        /\ b[1] \in DOMAIN files /\ b[2] \in Slots /\ SeqAt(b[1], b[2]) # 0
    BY ReplayedRecords, Zenon DEF SeqAt
  <2>3. SeqAt(a[1], a[2]) < SeqAt(b[1], b[2])
    BY <2>1, <2>2, Zenon DEF TurnInv, Increasing, Before
  <2> QED BY <2>3, Zenon DEF SeqAt, Record
<1> QED BY <1>1, TurnInvariance, PTL
=============================================================================
