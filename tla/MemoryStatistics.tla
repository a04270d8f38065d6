-------------------------- MODULE MemoryStatistics --------------------------
(***************************************************************************)
(* StatisticsCollector: byte and call counters per pool (RAM, VRAM, SSD),  *)
(* per tier and per process.  Every public method holds mutex_ from its    *)
(* first line to its last, so a call is one step; record_migration is two  *)
(* calls and so two steps.                                                 *)
(***************************************************************************)
EXTENDS Integers

CONSTANTS
  Tiers,  \* the tier classes in use, named as in TierClass
  Pids    \* process identifiers other than 0

VARIABLE stats

(* The switch of record_allocation and record_free: whatever is neither    *)
(* VRAM nor NVMe counts as RAM.                                            *)
Pool(tier) ==
  CASE tier = "kVram" -> "vram" [] tier = "kNvme" -> "ssd" [] OTHER -> "ram"

Larger(a, b) == IF a >= b THEN a ELSE b

(* A book is a current amount and its peak, with call counts for the tier  *)
(* and process books.                                                      *)
Credit(book, n) ==
  [book EXCEPT !.current = @ + n, !.peak = Larger(@, book.current + n)]

Debit(book, n) ==
  [book EXCEPT !.current = IF @ >= n THEN @ - n ELSE 0]

CountAllocation(book) == [book EXCEPT !.allocation_count = @ + 1]
CountFree(book) == [book EXCEPT !.free_count = @ + 1]

CreditOf(books, b, n) == [books EXCEPT ![b] = CountAllocation(Credit(@, n))]
DebitOf(books, b, n) == [books EXCEPT ![b] = CountFree(Debit(@, n))]

(* StatisticsCollector() and reset(): nothing recorded. *)
NoStatistics ==
  LET pool == [current |-> 0, peak |-> 0]
      book == [current |-> 0, peak |-> 0, allocation_count |-> 0, free_count |-> 0]
  IN [pool |-> [p \in {"ram", "vram", "ssd"} |-> pool],
      tier |-> [t \in Tiers |-> book], process |-> [p \in Pids |-> book],
      total_allocations |-> 0, total_frees |-> 0,
      total_bytes_allocated |-> 0, total_bytes_freed |-> 0,
      total_lifetime_ns |-> 0, completed_lifetimes_count |-> 0]

record_allocation(s, tier, size, pid) ==
  [s EXCEPT
     !.total_allocations = @ + 1,
     !.total_bytes_allocated = @ + size,
     !.pool[Pool(tier)] = Credit(@, size),
     !.tier = CreditOf(@, tier, size),
     !.process = IF pid = 0 THEN @ ELSE CreditOf(@, pid, size)]

record_free_FromRam(s, tier, size, lifetime, pid) ==
  [s EXCEPT
     !.total_frees = @ + 1,
     !.total_bytes_freed = @ + size,
     !.pool["ram"] = Debit(@, size),
     !.tier = DebitOf(@, tier, size)]

record_free(s, tier, size, lifetime, pid) ==
  [s EXCEPT
     !.total_frees = @ + 1,
     !.total_bytes_freed = @ + size,
     !.total_lifetime_ns = @ + lifetime,
     !.completed_lifetimes_count = IF lifetime > 0 THEN @ + 1 ELSE @,
     !.pool[Pool(tier)] = Debit(@, size),
     !.tier = DebitOf(@, tier, size),
     !.process = IF pid = 0 THEN @ ELSE DebitOf(@, pid, size)]

(* The fields of a snapshot its readers use. *)
snapshot(s) ==
  [pool |-> s.pool,
   active_allocations_count |->
     IF s.total_allocations >= s.total_frees
     THEN s.total_allocations - s.total_frees ELSE 0]

HeldBytes(s) ==
  s.pool["ram"].current + s.pool["vram"].current + s.pool["ssd"].current
=============================================================================
