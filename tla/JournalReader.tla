--------------------------- MODULE JournalReader ---------------------------
(***************************************************************************)
(* JournalReader (core/src/event/journal_reader.cpp): opens one segment    *)
(* file, or those of a directory in order, and returns one event per call  *)
(* of read_next, skipping what it cannot validate.                         *)
(*                                                                         *)
(* A segment file is a row of 8-byte words.  A record is five of them, the *)
(* 16 words of its Event being one: magic and record_size, sequence_num,   *)
(* the two CRCs, the reserved word (always zero), the payload.  read_next  *)
(* walks over words, so that its scan for the next record sees the inside  *)
(* of a damaged one.  Byte offsets that are no multiple of 8 are left out: *)
(* no magic and no eight zero bytes straddle two words of a record.  The   *)
(* record_size that a header states is whatever the file holds: read_next  *)
(* does not compare it with anything.  The files do not change while they  *)
(* are read.                                                               *)
(***************************************************************************)
EXTENDS JournalFormat, Sequences

CONSTANTS
  MaxFiles,      \* bound: segment files in the directory
  SlotsPerFile,  \* record slots of a segment file
  Contents,      \* what occurs in a record slot: a member of SlotContents
                 \* and the record_size its header states, in words
  FileStates,    \* what occurs as the state of a file: see AllFileStates
  MaxOpens,      \* bound: calls of open_directory and open_segment
  MaxReads,      \* bound: calls of read_next
  MaxCorrupted   \* bound: corrupted_records_skipped stops counting here

RecordWords == 5
ScanBytes == 8   \* loop iterations that scan one word

(* Each content but "valid" and "zero" fails one of the tests of read_next.*)
SlotContents == {"zero", "valid", "badmagic", "badcrc", "badpayload", "refused"}
WithGoodHeader == {"valid", "badpayload", "refused"}
AllFileStates == {"ok", "badheader", "unmappable"}

ASSUME BoundsAssumption ==
  /\ MaxFiles \in Nat /\ SlotsPerFile \in Nat \ {0}
  /\ MaxOpens \in Nat /\ MaxReads \in Nat /\ MaxCorrupted \in Nat
  /\ Contents \subseteq SlotContents \X Nat /\ FileStates \subseteq AllFileStates
  /\ \A c \in Contents : c[1] \notin WithGoodHeader => c[2] = RecordWords

VARIABLES
  files,          \* the segment files of the directory, sorted by name
  segment_paths,  \* segment_paths_: numbers of files
  segment_index,  \* current_segment_index_, counted from 1
  mapped,         \* place in segment_paths of the file mapped, 0 if none
  offset,         \* current_offset_, in words after the segment header
  is_open,
  phase,             \* "loop" inside read_next, "idle" outside
  result,         \* what the last call returned
  opens,          \* calls of open_directory and open_segment
  reads,          \* calls of read_next
  out,            \* history: the records returned since the last open
  stats           \* stats_

reader == <<segment_paths, segment_index, mapped, offset, is_open>>
readerVars == <<files, reader, phase, result, opens, reads, out, stats>>

(* Nobody sees what is in a file that cannot be mapped (nor the size in a  *)
(* record header that is not a good one).                                  *)
FileContents ==
  {f \in [state : FileStates, records : [1 .. SlotsPerFile -> SlotContents],
          sizes : [1 .. SlotsPerFile -> {c[2] : c \in Contents}]] :
     \A i \in 1 .. SlotsPerFile :
       /\ <<f.records[i], f.sizes[i]>> \in Contents
       /\ f.state = "unmappable" => f.records[i] = "zero"}

ReaderInit ==
  /\ \E n \in 0 .. MaxFiles : files \in [1 .. n -> FileContents]
  /\ segment_paths = << >> /\ segment_index = 1
  /\ mapped = 0 /\ offset = 0 /\ is_open = FALSE
  /\ phase = "idle" /\ result = "none" /\ opens = 0 /\ reads = 0
  /\ out = << >>
  /\ stats = [segments |-> 0, records |-> 0, corrupted |-> 0]

-----------------------------------------------------------------------------
(* The word at an offset of the mapped file. *)

MappedWords == IF mapped = 0 THEN 0 ELSE RecordWords * SlotsPerFile
SlotAt(w) == (w \div RecordWords) + 1
Content(p, w) == files[segment_paths[p]].records[SlotAt(w)]
SizeAt(p, w) == files[segment_paths[p]].sizes[SlotAt(w)]

(* How the tests of read_next see it: the reserved word of any record is   *)
(* zero, and a record's magic is at its first word only.                   *)
WordAt(p, w) ==
  CASE Content(p, w) = "zero" \/ w % RecordWords = 3 -> "zero"
    [] w % RecordWords = 0 /\ Content(p, w) # "badmagic" -> "RECD"
    [] OTHER -> "other"

-----------------------------------------------------------------------------
(* load_current_segment on the i-th of the paths ps. *)

LoadOk(ps, i) ==
  /\ i <= Len(ps) /\ files[ps[i]].state = "ok"
  /\ mapped' = i
  /\ offset' = 0
  /\ stats' = [stats EXCEPT !.segments = @ + 1]
  /\ is_open' = TRUE

(* A failed load may have unmapped the old file, or mapped the new one     *)
(* without moving the offset.                                              *)
LoadFails(ps, i) ==
  /\ \/ i > Len(ps) /\ UNCHANGED mapped
     \/ i <= Len(ps) /\ files[ps[i]].state = "unmappable" /\ mapped' = 0
     \/ i <= Len(ps) /\ files[ps[i]].state = "badheader" /\ mapped' = i
  /\ UNCHANGED stats

(* open_directory and open_segment: close, then load the first path. *)
Open(ps) ==
  /\ phase = "idle" /\ opens < MaxOpens
  /\ opens' = opens + 1
  /\ segment_paths' = ps /\ segment_index' = 1
  /\ out' = << >>
  /\ \/ LoadOk(ps, 1) /\ result' = "ok"
     \/ /\ ps # << >> /\ files[ps[1]].state # "ok"
        /\ mapped' = IF files[ps[1]].state = "badheader" THEN 1 ELSE 0
        /\ offset' = 0 /\ is_open' = FALSE
        /\ result' = "error" /\ UNCHANGED stats
  /\ UNCHANGED <<files, phase, reads>>

OpenDirectory == Open([i \in DOMAIN files |-> i])
OpenSegment == \E i \in DOMAIN files : Open(<<i>>)

OpenEmptyDirectory ==
  /\ phase = "idle" /\ files = << >> /\ opens < MaxOpens
  /\ opens' = opens + 1
  /\ segment_paths' = << >> /\ segment_index' = 1
  /\ mapped' = 0 /\ offset' = 0 /\ is_open' = FALSE
  /\ result' = "error" /\ out' = << >>
  /\ UNCHANGED <<files, phase, reads, stats>>

Close ==
  /\ phase = "idle"
  /\ segment_paths' = << >> /\ segment_index' = 1
  /\ mapped' = 0 /\ offset' = 0 /\ is_open' = FALSE
  /\ result' = "closed" /\ out' = << >>
  /\ UNCHANGED <<files, phase, opens, reads, stats>>

UpTo(max, n) == IF n <= max THEN n ELSE max

-----------------------------------------------------------------------------
(* Faulty variants of the actions below, with which each property fails.   *)

(* Leaves the offset at the record it has returned. *)
ReadOk_NoAdvance ==
  /\ phase = "loop" /\ offset + RecordWords <= MappedWords
  /\ WordAt(mapped, offset) = "RECD" /\ Content(mapped, offset) = "valid"
  /\ out' = Append(out, <<mapped, SlotAt(offset)>>)
  /\ stats' = [stats EXCEPT !.records = @ + 1]
  /\ phase' = "idle" /\ result' = "ok"
  /\ UNCHANGED <<files, reader, opens, reads>>

(* Does not move over a record whose payload fails its CRC. *)
BadPayload_NoAdvance ==
  /\ phase = "loop" /\ offset + RecordWords <= MappedWords
  /\ WordAt(mapped, offset) = "RECD" /\ Content(mapped, offset) = "badpayload"
  /\ stats' = [stats EXCEPT !.corrupted = UpTo(MaxCorrupted, @ + 1)]
  /\ UNCHANGED <<files, reader, phase, result, opens, reads, out>>

(* Compares with >= : the last slot of a file is never read. *)
AtEnd_OffByOne == offset + RecordWords >= MappedWords

-----------------------------------------------------------------------------
(* read_next: one step per iteration of its loop, or per word it scans.    *)

ReadCall ==
  /\ phase = "idle" /\ is_open /\ reads < MaxReads
  /\ reads' = reads + 1
  /\ phase' = "loop"
  /\ UNCHANGED <<files, reader, result, opens, out, stats>>

ReadNotOpen ==
  /\ phase = "idle" /\ ~ is_open /\ reads < MaxReads
  /\ reads' = reads + 1
  /\ result' = "notinitialized"
  /\ UNCHANGED <<files, reader, phase, opens, out, stats>>

AtEnd == offset + RecordWords > MappedWords

(* Both ends of a segment lead to the next file, or to kNotFound. *)
NextSegment ==
  /\ segment_index' = segment_index + 1
  /\ \/ LoadOk(segment_paths, segment_index + 1) /\ UNCHANGED <<phase, result>>
     \/ /\ LoadFails(segment_paths, segment_index + 1)
        /\ phase' = "idle" /\ result' = "notfound"
        /\ UNCHANGED <<offset, is_open>>
  /\ UNCHANGED <<files, segment_paths, opens, reads, out>>

EndOfSegment ==
  /\ phase = "loop" /\ AtEnd
  /\ NextSegment

ZeroPadding ==
  /\ phase = "loop" /\ ~ AtEnd
  /\ WordAt(mapped, offset) = "zero"
  /\ NextSegment

(* Skips words, and counts iterations, not records. *)
Skip(words, iterations) ==
  /\ offset' = offset + words
  /\ stats' = [stats EXCEPT !.corrupted = UpTo(MaxCorrupted, @ + iterations)]
  /\ UNCHANGED <<files, segment_paths, segment_index, mapped, is_open, phase,
                 result, opens, reads, out>>

BadMagic ==
  /\ phase = "loop" /\ ~ AtEnd
  /\ WordAt(mapped, offset) = "other"
  /\ Skip(1, ScanBytes)

BadHeaderCrc ==
  /\ phase = "loop" /\ ~ AtEnd
  /\ WordAt(mapped, offset) = "RECD" /\ Content(mapped, offset) = "badcrc"
  /\ Skip(1, 1)

BadPayload ==
  /\ phase = "loop" /\ ~ AtEnd
  /\ WordAt(mapped, offset) = "RECD" /\ Content(mapped, offset) = "badpayload"
  /\ Skip(SizeAt(mapped, offset), 1)

BadEvent ==
  /\ phase = "loop" /\ ~ AtEnd
  /\ WordAt(mapped, offset) = "RECD" /\ Content(mapped, offset) = "refused"
  /\ Skip(SizeAt(mapped, offset), 1)

ReadOk ==
  /\ phase = "loop" /\ ~ AtEnd
  /\ WordAt(mapped, offset) = "RECD" /\ Content(mapped, offset) = "valid"
  /\ out' = Append(out, <<mapped, SlotAt(offset)>>)
  /\ offset' = offset + SizeAt(mapped, offset)
  /\ stats' = [stats EXCEPT !.records = @ + 1]
  /\ phase' = "idle" /\ result' = "ok"
  /\ UNCHANGED <<files, segment_paths, segment_index, mapped, is_open, opens,
                 reads>>

ReadLoop ==
  \/ EndOfSegment \/ ZeroPadding \/ BadMagic \/ BadHeaderCrc
  \/ BadPayload \/ BadEvent \/ ReadOk

ReaderNext ==
  \/ OpenDirectory \/ OpenSegment \/ OpenEmptyDirectory \/ Close
  \/ ReadCall \/ ReadNotOpen \/ ReadLoop

ReaderSpec == ReaderInit /\ [][ReaderNext]_readerVars

-----------------------------------------------------------------------------
(* Properties *)

(* The files opened, as a journal of JournalFormat. *)
KindOf(content) ==
  CASE content \in {"badmagic", "badcrc"} -> "damaged"
    [] content \in {"badpayload", "refused"} -> "torn"
    [] OTHER -> content

Journal ==
  [p \in DOMAIN segment_paths |->
     LET file == files[segment_paths[p]] IN
     [header |-> file.state = "ok",
      records |-> [i \in 1 .. SlotsPerFile |-> KindOf(file.records[i])]]]

Returned == {out[i] : i \in DOMAIN out}

(* Every variable stays in its type. *)
ReaderTypeOK ==
  /\ segment_paths \in Seq(DOMAIN files)
  /\ segment_index \in Nat \ {0}
  /\ mapped \in 0 .. Len(segment_paths)
  /\ offset \in Nat
  /\ is_open \in BOOLEAN
  /\ phase \in {"idle", "loop"}
  /\ result \in {"none", "ok", "error", "closed", "notfound", "notinitialized"}
  /\ opens \in 0 .. MaxOpens /\ reads \in 0 .. MaxReads
  /\ stats \in [segments : Nat, records : Nat, corrupted : Nat]

(* Every record header states a size that moves read_next on; every one    *)
(* states the size that JournalWriter gives its records.                   *)
SizesPositive == \A f \in DOMAIN files : \A i \in 1 .. SlotsPerFile : files[f].sizes[i] > 0
OwnSizes == \A f \in DOMAIN files : \A i \in 1 .. SlotsPerFile : files[f].sizes[i] = RecordWords

(* Whatever the files hold, and however often the caller goes on after an  *)
(* end of journal, read_next returns valid records only and never goes     *)
(* back; it returns none twice, unless a header states the size zero.      *)
ReturnsInOrder ==
  /\ Returned \subseteq ValidRecords(Journal)
  /\ \A i, j \in DOMAIN out :
       i < j => Before(out[i], out[j]) \/ (~ SizesPositive /\ out[i] = out[j])

(* journal_reader.h:59, "Safely skips corrupted bytes/records until valid  *)
(* record or EOF": when read_next reports the end of a journal with the    *)
(* writer's record sizes, it has returned every record promised.           *)
SkipsOnlyDamage ==
  result = "notfound" /\ OwnSizes => PromisedRecords(Journal) \subseteq Returned
=============================================================================
