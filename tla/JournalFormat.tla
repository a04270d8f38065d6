--------------------------- MODULE JournalFormat ---------------------------
(***************************************************************************)
(* The journal as a reader of .umej files finds it: a function from        *)
(* segment numbers to segments, read in increasing order (file names sort  *)
(* by number).  A segment has a header, valid or not, and a sequence of    *)
(* record slots, each of one of these kinds:                               *)
(*   "zero"     nothing written: magic and record_size are 0               *)
(*   "valid"    a complete record                                          *)
(*   "torn"     a good record header whose payload fails its CRC or is     *)
(*              refused by EventSerializer::deserialize                    *)
(*   "damaged"  a record header whose magic or CRC is wrong                *)
(***************************************************************************)
EXTENDS Integers

SlotKinds == {"zero", "valid", "torn", "damaged"}

(* A record's place: its segment and its slot. *)
Places(journal) == UNION {{s} \X DOMAIN journal[s].records : s \in DOMAIN journal}

(* Every complete record of the journal. *)
ValidRecords(journal) ==
  {r \in Places(journal) : journal[r[1]].records[r[2]] = "valid"}

(* Some slot before r in its segment is of one of these kinds. *)
SomeBefore(journal, r, kinds) ==
  \E j \in DOMAIN journal[r[1]].records :
    j < r[2] /\ journal[r[1]].records[j] \in kinds

(* journal_reader.h:59, "Safely skips corrupted bytes/records until valid  *)
(* record or EOF": a reader is promised every complete record, short of    *)
(* the unwritten end of its segment and of a segment that cannot be loaded.*)
PromisedRecords(journal) ==
  {r \in ValidRecords(journal) :
     /\ \A s \in DOMAIN journal : s <= r[1] => journal[s].header
     /\ ~ SomeBefore(journal, r, {"zero"})}

(* Those of them that no damage can hide from JournalReader::read_next:    *)
(* its scan for the record behind a damaged header may end the segment.    *)
Replayed(journal) ==
  {r \in PromisedRecords(journal) : ~ SomeBefore(journal, r, {"damaged"})}

(* The order of records in the journal. *)
Before(a, b) == a[1] < b[1] \/ (a[1] = b[1] /\ a[2] < b[2])
=============================================================================
