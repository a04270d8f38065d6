--------------------------- MODULE JournalWriter ---------------------------
(***************************************************************************)
(* JournalWriter (core/src/event/journal_writer.cpp): threads append       *)
(* events to a memory-mapped segment file.  append reserves a place with a *)
(* fetch_add on write_offset_, without the mutex; the thread whose place   *)
(* does not fit takes rollover_mutex_ and maps the next segment.           *)
(*                                                                         *)
(* Offsets are counted in records (160 bytes after the 64-byte segment     *)
(* header).  The two memcpys of append are separate steps, as are the      *)
(* unmapping, the mapping and the reset of write_offset_ in a rollover:    *)
(* the other threads look at the mapping and the offset without the lock.  *)
(*                                                                         *)
(* A store into the mapping is in the page cache at once and on disk after *)
(* msync, or earlier; the process may die, and the machine may lose power. *)
(***************************************************************************)
EXTENDS JournalFormat, FiniteSetsExt, Sequences

CONSTANTS
  Threads,         \* threads that call append
  SegmentRecords,  \* records that fit in a segment
  MaxAppends,      \* bound: append calls per thread
  MaxOpens,        \* bound: calls of open
  MaxFlushes,      \* bound: calls of flush
  MapMayFail,      \* whether open_read_write may fail
  MayDie           \* whether the process may die, or the power fail

NoThread == "none"

ASSUME BoundsAssumption ==
  /\ NoThread \notin Threads
  /\ SegmentRecords \in Nat \ {0} /\ MaxAppends \in Nat
  /\ MaxOpens \in Nat /\ MaxFlushes \in Nat
  /\ MapMayFail \in BOOLEAN /\ MayDie \in BOOLEAN

VARIABLES
  files,             \* the segment files as the page cache has them
  disk,              \* the same files as the disk has them
  mapped,            \* the segment current_mmap_ maps, or NoSegment
  segment_id,        \* current_segment_id_
  write_offset,      \* write_offset_
  sequence_counter,  \* sequence_counter_
  total_events,      \* total_events_written_; total_bytes_written_ is 160 times it
  is_open,
  lock,              \* the thread in rollover_mutex_, or NoThread
  pc, off, seq,      \* per thread: place in append, offset, seq
  dst,               \* per thread: the mapping that dst points into
  calls,             \* append calls each thread has started
  opens, flushes,    \* calls of open and flush
  acked,             \* history: events append has returned a number for
  flushed,           \* history: those acked when flush or close last returned
  mishaps,           \* history: what NewMishaps has found so far
  fault              \* a store went outside the mapping: the process is gone

store == <<files, disk>>
mapping == <<mapped, segment_id>>
counters == <<sequence_counter, total_events>>
thread == <<off, dst, seq>>
bounds == <<opens, flushes>>
vars == <<store, mapping, write_offset, counters, is_open, lock, pc, thread,
          calls, bounds, acked, flushed, mishaps, fault>>

NoSegment == -1
NoMapping == <<NoSegment, 0>>
Slots == 1 .. SegmentRecords

(* Every call carries an event of its own. *)
EventOf(t) == <<t, calls[t]>>
NoEvent == << >>
Nothing == [seq |-> 0, crc |-> NoEvent, event |-> NoEvent]
EmptyFile == [header |-> FALSE, records |-> [i \in Slots |-> Nothing]]

Init ==
  /\ files = << >> /\ disk = << >>
  /\ mapped = NoSegment /\ segment_id = 0 /\ write_offset = 0
  /\ sequence_counter = 0 /\ total_events = 0 /\ is_open = FALSE
  /\ lock = NoThread
  /\ pc = [t \in Threads |-> "idle"]
  /\ off = [t \in Threads |-> 0]
  /\ dst = [t \in Threads |-> NoMapping]
  /\ seq = [t \in Threads |-> 0]
  /\ calls = [t \in Threads |-> 0]
  /\ opens = 0 /\ flushes = 0
  /\ acked = {} /\ flushed = {} /\ mishaps = {}
  /\ fault = FALSE

Goto(t, place) == pc' = [pc EXCEPT ![t] = place]
Idle(t) == pc[t] \in {"idle", "failed", "refused"}
Quiescent == \A t \in Threads : Idle(t)

-----------------------------------------------------------------------------
(* MmapFile, as the writer uses it *)

(* open_read_write keeps what an existing file holds: O_CREAT, no O_TRUNC. *)
Created(id) ==
  [i \in DOMAIN files \cup {id} |-> IF i \in DOMAIN files THEN files[i] ELSE EmptyFile]

(* msync of the mapped segment *)
Synced ==
  IF mapped = NoSegment THEN disk
  ELSE [i \in DOMAIN disk \cup {mapped} |-> IF i = mapped THEN files[i] ELSE disk[i]]

(* A segment that is mapped again, by a later open, is at another address. *)
Mapping == <<mapped, opens>>

-----------------------------------------------------------------------------
(* Faulty variants of the actions below, with which each property fails.   *)

(* Resets the offset before the next segment is mapped, not after. *)
RollLock_ResetsFirst(t) ==
  /\ pc[t] = "lock" /\ lock = NoThread
  /\ write_offset + 1 > SegmentRecords
  /\ lock' = t
  /\ segment_id' = segment_id + 1
  /\ disk' = Synced /\ mapped' = NoSegment
  /\ write_offset' = 0
  /\ Goto(t, "map")
  /\ UNCHANGED <<files, counters, is_open, thread, calls, bounds, acked,
                 flushed, fault>>

(* Rolls over without the re-check inside the lock. *)
RollLock_NoRecheck(t) ==
  /\ pc[t] = "lock" /\ lock = NoThread
  /\ lock' = t
  /\ segment_id' = segment_id + 1
  /\ disk' = Synced /\ mapped' = NoSegment
  /\ Goto(t, "map")
  /\ UNCHANGED <<files, write_offset, counters, is_open, thread, calls, bounds,
                 acked, flushed, fault>>

(* Loads and stores the offset instead of the fetch_add: it may be handed  *)
(* out twice.                                                              *)
Reserve_NotAtomic(t) ==
  /\ pc[t] = "reserve"
  /\ \E old \in {write_offset, write_offset - 1} :
       /\ old >= 0
       /\ off' = [off EXCEPT ![t] = old]
       /\ write_offset' = old + 1
       /\ Goto(t, IF old + 1 > SegmentRecords THEN "lock" ELSE "number")
  /\ UNCHANGED <<store, mapping, counters, is_open, lock, dst, seq, calls,
                 bounds, acked, flushed, fault>>

(* Unmaps the segment of a rollover without syncing it first. *)
RollLock_NoFlush(t) ==
  /\ pc[t] = "lock" /\ lock = NoThread
  /\ write_offset + 1 > SegmentRecords
  /\ lock' = t
  /\ segment_id' = segment_id + 1 /\ mapped' = NoSegment
  /\ Goto(t, "map")
  /\ UNCHANGED <<store, write_offset, counters, is_open, thread, calls, bounds,
                 acked, flushed, fault>>

(* Loads and stores the counter instead of the fetch_add. *)
Number_Reused(t) ==
  /\ pc[t] = "number"
  /\ \E n \in {sequence_counter, sequence_counter + 1} :
       n > 0 /\ seq' = [seq EXCEPT ![t] = n] /\ sequence_counter' = n
  /\ Goto(t, "header")
  /\ UNCHANGED <<store, mapping, write_offset, total_events, is_open, lock, off,
                 dst, calls, bounds, acked, flushed, fault>>

-----------------------------------------------------------------------------
(* append.  "failed" and "refused" are threads whose last call returned an *)
(* error.                                                                  *)

AppendCall(t) ==
  /\ Idle(t) /\ is_open /\ calls[t] < MaxAppends
  /\ calls' = [calls EXCEPT ![t] = @ + 1]
  /\ Goto(t, "reserve")
  /\ UNCHANGED <<store, mapping, write_offset, counters, is_open, lock, thread,
                 bounds, acked, flushed, fault>>

AppendRefused(t) ==
  /\ Idle(t) /\ ~ is_open /\ calls[t] < MaxAppends
  /\ Goto(t, "refused")
  /\ UNCHANGED <<store, mapping, write_offset, counters, is_open, lock, thread,
                 calls, bounds, acked, flushed, fault>>

(* The fetch_add, without the lock *)
Reserve(t) ==
  /\ pc[t] = "reserve"
  /\ off' = [off EXCEPT ![t] = write_offset]
  /\ write_offset' = write_offset + 1
  /\ Goto(t, IF write_offset + 1 > SegmentRecords THEN "lock" ELSE "number")
  /\ UNCHANGED <<store, mapping, counters, is_open, lock, dst, seq, calls,
                 bounds, acked, flushed, fault>>

(* The re-check inside the lock says that the segment is still full: sync  *)
(* and unmap it.                                                           *)
RollLock(t) ==
  /\ pc[t] = "lock" /\ lock = NoThread
  /\ write_offset + 1 > SegmentRecords
  /\ lock' = t
  /\ segment_id' = segment_id + 1
  /\ disk' = Synced /\ mapped' = NoSegment
  /\ Goto(t, "map")
  /\ UNCHANGED <<files, write_offset, counters, is_open, thread, calls, bounds,
                 acked, flushed, fault>>

(* The re-check says that another thread has rolled over. *)
RollDone(t) ==
  /\ pc[t] = "lock" /\ lock = NoThread
  /\ write_offset + 1 <= SegmentRecords
  /\ lock' = t
  /\ Goto(t, "again")
  /\ UNCHANGED <<store, mapping, write_offset, counters, is_open, thread, calls,
                 bounds, acked, flushed, fault>>

RollMap(t) ==
  /\ pc[t] = "map"
  /\ files' = Created(segment_id)
  /\ mapped' = segment_id
  /\ Goto(t, "init")
  /\ UNCHANGED <<disk, segment_id, write_offset, counters, is_open, lock, thread,
                 calls, bounds, acked, flushed, fault>>

(* open fails, or ftruncate or mmap after open has created the file *)
RollFail(t) ==
  /\ pc[t] = "map" /\ MapMayFail
  /\ files' \in {files, Created(segment_id)}
  /\ lock' = NoThread
  /\ Goto(t, "failed")
  /\ UNCHANGED <<disk, mapping, write_offset, counters, is_open, thread, calls,
                 bounds, acked, flushed, fault>>

RollHeader(t) ==
  /\ pc[t] = "init"
  /\ files' = [files EXCEPT ![mapped].header = TRUE]
  /\ write_offset' = 0
  /\ Goto(t, "again")
  /\ UNCHANGED <<disk, mapping, counters, is_open, lock, thread, calls, bounds,
                 acked, flushed, fault>>

(* The second fetch_add, whose result is not compared with the size *)
ReserveAgain(t) ==
  /\ pc[t] = "again"
  /\ off' = [off EXCEPT ![t] = write_offset]
  /\ write_offset' = write_offset + 1
  /\ lock' = NoThread
  /\ Goto(t, "number")
  /\ UNCHANGED <<store, mapping, counters, is_open, dst, seq, calls, bounds,
                 acked, flushed, fault>>

Number(t) ==
  /\ pc[t] = "number"
  /\ sequence_counter' = sequence_counter + 1
  /\ seq' = [seq EXCEPT ![t] = sequence_counter + 1]
  /\ Goto(t, "header")
  /\ UNCHANGED <<store, mapping, write_offset, total_events, is_open, lock, off,
                 dst, calls, bounds, acked, flushed, fault>>

(* A store that does not hit the mapping ends the process. *)
Fault ==
  /\ fault' = TRUE
  /\ UNCHANGED <<store, mapping, write_offset, counters, is_open, lock, pc,
                 thread, calls, bounds, acked, flushed>>

(* dst is computed from whatever is mapped now. *)
WriteHeader(t) ==
  /\ pc[t] = "header"
  /\ \/ /\ mapped # NoSegment /\ off[t] < SegmentRecords
        /\ dst' = [dst EXCEPT ![t] = Mapping]
        /\ files' = [files EXCEPT
             ![mapped].records[off[t] + 1].seq = seq[t],
             ![mapped].records[off[t] + 1].crc = EventOf(t)]
        /\ Goto(t, "body")
        /\ UNCHANGED <<disk, mapping, write_offset, counters, is_open, lock, off,
                       seq, calls, bounds, acked, flushed, fault>>
     \/ (mapped = NoSegment \/ off[t] >= SegmentRecords) /\ Fault

(* dst may have been unmapped since; the next mapping may be at the same   *)
(* address.                                                                *)
WriteBody(t) ==
  /\ pc[t] = "body"
  /\ \/ /\ mapped # NoSegment
        /\ files' = [files EXCEPT ![mapped].records[off[t] + 1].event = EventOf(t)]
        /\ total_events' = total_events + 1
        /\ acked' = acked \cup {EventOf(t)}
        /\ Goto(t, "idle")
        /\ UNCHANGED <<disk, mapping, write_offset, sequence_counter, is_open,
                       lock, thread, calls, bounds, flushed, fault>>
     \/ dst[t] # Mapping /\ Fault

-----------------------------------------------------------------------------
(* open, flush and close take the lock that append takes only to roll      *)
(* over: each may run while appends are under way.  An append that close   *)
(* overtakes may still roll over, and leave a segment mapped.              *)

Open ==
  /\ ~ is_open /\ lock = NoThread /\ opens < MaxOpens
  /\ opens' = opens + 1
  /\ segment_id' = 0
  /\ disk' = Synced
  /\ files' = [Created(0) EXCEPT ![0].header = TRUE]
  /\ mapped' = 0
  /\ write_offset' = 0
  /\ is_open' = TRUE
  /\ UNCHANGED <<counters, lock, pc, thread, calls, flushes, acked, flushed,
                 fault>>

OpenFails ==
  /\ ~ is_open /\ lock = NoThread /\ opens < MaxOpens /\ MapMayFail
  /\ opens' = opens + 1
  /\ segment_id' = 0
  /\ disk' = Synced
  /\ files' \in {files, Created(0)}
  /\ mapped' = NoSegment
  /\ UNCHANGED <<write_offset, counters, is_open, lock, pc, thread,
                 calls, flushes, acked, flushed, fault>>

Flush ==
  /\ lock = NoThread /\ flushes < MaxFlushes
  /\ is_open /\ mapped # NoSegment
  /\ flushes' = flushes + 1
  /\ disk' = Synced
  /\ flushed' = acked
  /\ UNCHANGED <<files, mapping, write_offset, counters, is_open, lock, pc,
                 thread, calls, opens, acked, fault>>

(* Closing a closed writer, or flushing one, changes nothing. *)
Close ==
  /\ is_open /\ lock = NoThread
  /\ disk' = Synced
  /\ mapped' = NoSegment
  /\ is_open' = FALSE
  /\ flushed' = acked
  /\ UNCHANGED <<files, segment_id, write_offset, counters, lock, pc, thread,
                 calls, bounds, acked, fault>>

-----------------------------------------------------------------------------
(* The end of a process; the next one starts with a new JournalWriter.     *)

Restarted ==
  /\ mapped' = NoSegment /\ segment_id' = 0 /\ write_offset' = 0
  /\ sequence_counter' = 0 /\ total_events' = 0 /\ is_open' = FALSE
  /\ lock' = NoThread
  /\ pc' = [t \in Threads |-> "idle"]
  /\ UNCHANGED <<thread, calls, bounds, fault>>

(* The page cache outlives the process. *)
Kill ==
  /\ MayDie /\ is_open
  /\ Restarted
  /\ UNCHANGED <<store, acked, flushed>>

(* Of what was not synced, any part may be on disk.  Only what was acked   *)
(* before a flush is promised now.                                         *)
OnDisk(id) == IF id \in DOMAIN disk THEN disk[id] ELSE EmptyFile
Dirty == {p \in (DOMAIN files) \X Slots :
            files[p[1]].records[p[2]] # OnDisk(p[1]).records[p[2]]}

PowerLoss ==
  /\ MayDie /\ is_open
  /\ \E headers \in SUBSET DOMAIN files, heads, bodies \in SUBSET Dirty :
       files' = [id \in DOMAIN files |->
         [header |-> IF id \in headers THEN files[id].header ELSE OnDisk(id).header,
          records |-> [i \in Slots |->
            LET new == files[id].records[i]
                old == OnDisk(id).records[i]
                hdr == IF <<id, i>> \in heads THEN new ELSE old
            IN [seq |-> hdr.seq, crc |-> hdr.crc,
                event |-> IF <<id, i>> \in bodies THEN new.event ELSE old.event]]]]
  /\ disk' = files'
  /\ acked' = flushed
  /\ Restarted
  /\ UNCHANGED flushed

AppendStep(t) ==
  \/ Reserve(t) \/ RollLock(t) \/ RollDone(t) \/ RollMap(t) \/ RollFail(t)
  \/ RollHeader(t) \/ ReserveAgain(t) \/ Number(t) \/ WriteHeader(t)
  \/ WriteBody(t)

-----------------------------------------------------------------------------
(* The steps after which not all that the writer promises holds any more.  *)
(* The properties below show that nothing else breaks it.                  *)

(* A rollover unmaps a segment in which another append holds a place. *)
InFlight ==
  \E t, u \in Threads :
    /\ pc[t] = "lock" /\ pc'[t] = "map"
    /\ u # t /\ pc[u] \in {"number", "header", "body"}

(* The place taken after a rollover is past the end of the new segment. *)
Overshot ==
  \E t \in Threads :
    pc[t] = "again" /\ pc'[t] = "number" /\ off'[t] >= SegmentRecords

(* The process dies, or the file is synced, when a place before the last   *)
(* one taken has nothing in it yet.                                        *)
Hole ==
  /\ is_open /\ (~ is_open' \/ flushes' # flushes)
  /\ \E t \in Threads :
       pc[t] \in {"number", "header"} /\ off[t] + 1 < write_offset

(* A rollover fails and leaves a file without a header. *)
BadFile ==
  \E t \in Threads : pc[t] = "map" /\ pc'[t] = "failed" /\ files' # files

(* The writer is closed while an append is under way. *)
ClosedUnder == is_open /\ ~ is_open' /\ pc' = pc /\ ~ Quiescent

(* The writer is opened on a directory that has segments. *)
Reopened == ~ is_open /\ is_open' /\ files # << >>

(* A number is drawn while an append with an earlier place has none. *)
Overtaken ==
  \E t, u \in Threads :
    /\ pc[t] = "number" /\ pc'[t] = "header"
    /\ u # t /\ pc[u] = "number" /\ off[u] < off[t]

NewMishaps ==
  {m \in {"inflight", "overshot", "closed", "hole", "badfile", "reopened",
          "overtaken"} :
     \/ m = "inflight" /\ InFlight
     \/ m = "overshot" /\ Overshot
     \/ m = "closed" /\ ClosedUnder
     \/ m = "hole" /\ Hole
     \/ m = "badfile" /\ BadFile
     \/ m = "reopened" /\ Reopened
     \/ m = "overtaken" /\ Overtaken}

Next ==
  /\ ~ fault
  /\ \/ \E t \in Threads : AppendCall(t) \/ AppendRefused(t) \/ AppendStep(t)
     \/ Open \/ OpenFails \/ Flush \/ Close
     \/ Kill \/ PowerLoss
  /\ mishaps' = mishaps \cup NewMishaps

Spec == Init /\ [][Next]_vars
-----------------------------------------------------------------------------
(* Properties *)

KindOf(r) ==
  CASE r.seq = 0 -> "zero"
    [] r.seq # 0 /\ r.crc = r.event -> "valid"
    [] OTHER -> "torn"

(* The files as a journal of JournalFormat *)
Journal ==
  [id \in DOMAIN files |->
     [header |-> files[id].header,
      records |-> [i \in Slots |-> KindOf(files[id].records[i])]]]

Record(place) == files[place[1]].records[place[2]]

(* Every variable stays in its type. *)
TypeOK ==
  /\ \A id \in DOMAIN files : id \in Nat /\ DOMAIN files[id].records = Slots
  /\ DOMAIN disk \subseteq DOMAIN files
  /\ mapped \in DOMAIN files \cup {NoSegment}
  /\ segment_id \in Nat /\ write_offset \in Nat
  /\ sequence_counter \in Nat /\ total_events \in Nat
  /\ lock \in Threads \cup {NoThread}
  /\ pc \in [Threads -> {"idle", "failed", "refused", "reserve", "lock", "map",
                         "init", "again", "number", "header", "body"}]
  /\ off \in [Threads -> Nat] /\ seq \in [Threads -> Nat]
  /\ is_open \in BOOLEAN /\ fault \in BOOLEAN

(* append never stores outside the mapped segment, also after a rollover   *)
(* that failed.                                                            *)
NoFault == ~ fault

(* journal_writer.h:80, "thread-safe": there are only three ways to a      *)
(* store outside the mapping, two in a rollover that races with other      *)
(* appends and one in a close that does.                                   *)
FaultOnlyInRaces == fault => mishaps \cap {"inflight", "overshot", "closed"} # {}

(* journal_writer.h:53, "Append-Only": while the writer is open, a record  *)
(* header or a payload that is in a file stays what it is.                 *)
KeepsRecords ==
  is_open /\ is_open' =>
    \A id \in DOMAIN files : \A i \in Slots :
      LET old == files[id].records[i]
          new == files'[id].records[i]
      IN /\ old.seq # 0 => new.seq = old.seq /\ new.crc = old.crc
         /\ old.event # NoEvent => new.event = old.event
AppendOnly == [][KeepsRecords]_vars

(* Apart from a rollover race and a reopened directory, nothing makes      *)
(* append overwrite: the lock-free reservation hands out a place once,     *)
(* also across rollovers that fail.                                        *)
PlacesDisjoint ==
  [][mishaps \cap {"inflight", "overshot", "reopened"} = {} => KeepsRecords]_vars

(* replay_engine.h:35 and :43, "Replays all events": outside append, every *)
(* event that append has returned a number for (after a power failure:     *)
(* every one that was flushed) is found by a replay of the directory.      *)
AllAckedReplayed ==
  Quiescent /\ ~ fault =>
    acked \subseteq {Record(place).event : place \in Replayed(Journal)}

(* The same, as long as no rollover or close races with an append, no hole *)
(* is left by a crash, no rollover leaves a bad file and no directory is   *)
(* reopened.                                                               *)
AckedReplayed == mishaps \subseteq {"overtaken"} => AllAckedReplayed

(* Threads that find the segment full at the same time roll over once:     *)
(* behind each new segment are the appends that filled the ones before,    *)
(* and one that found no place.                                            *)
NoWastedSegments ==
  LET rolled == Cardinality({id \in DOMAIN files : files[id].header}) - 1
  IN rolled > 0 => rolled * SegmentRecords
                     < MapThenSumSet(LAMBDA t : calls[t], Threads)

(* Whatever else a rollover race does, no two record headers of a process  *)
(* carry the same sequence number.                                         *)
NumbersUnique ==
  "reopened" \notin mishaps =>
    \A a, b \in (DOMAIN files) \X Slots :
      a # b /\ Record(a).seq # 0 => Record(a).seq # Record(b).seq

(* journal_writer.h:43, "Monotonic global sequence number": a replay meets *)
(* the sequence numbers in increasing order, unless an append has drawn    *)
(* its number before one with an earlier place, or after a rollover race   *)
(* or a second open.                                                       *)
ReplayInSequence ==
  mishaps \subseteq {"hole", "badfile"} =>
    \A a, b \in Replayed(Journal) :
      Before(a, b) => Record(a).seq < Record(b).seq
=============================================================================
