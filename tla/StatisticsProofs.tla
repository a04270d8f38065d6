-------------------------- MODULE StatisticsProofs --------------------------
(***************************************************************************)
(* MemoryStatistics: what one call of the StatisticsCollector does to its  *)
(* books, for every set of tiers and processes and every size.             *)
(*                                                                         *)
(* AnalysisPipeline: the books agree whatever reaches them, through the    *)
(* dispatcher and the analyzer in any order or directly, for any number of *)
(* threads, objects, tiers and processes (the argument needs only what the *)
(* analyzer passes on: amounts that are numbers and tiers that exist), and *)
(* a dispatch calls the subscribers of one list.                           *)
(*                                                                         *)
(* Dashboard: what it shows and what the scheduler promises, for any       *)
(* number of clients, any sizes and any capacities.                        *)
(***************************************************************************)
EXTENDS AnalysisPipeline, Dashboard, FiniteSetTheorems, TLAPS

-----------------------------------------------------------------------------
(* MemoryStatistics *)

PoolNames == {"ram", "vram", "ssd"}
PoolBook == [current : Nat, peak : Nat]
Book == [current : Nat, peak : Nat, allocation_count : Nat, free_count : Nat]

Statistics ==
  [pool : [PoolNames -> PoolBook],
   tier : [Tiers -> Book], process : [Pids -> Book],
   total_allocations : Nat, total_frees : Nat,
   total_bytes_allocated : Nat, total_bytes_freed : Nat,
   total_lifetime_ns : Nat, completed_lifetimes_count : Nat]

(* BooksAgree of a value of the statistics. *)
Agree(s) ==
  /\ \A p \in PoolNames : s.pool[p].peak >= s.pool[p].current
  /\ "kVram" \in Tiers => s.pool["vram"].current = s.tier["kVram"].current
  /\ "kNvme" \in Tiers => s.pool["ssd"].current = s.tier["kNvme"].current
  /\ HeldBytes(s) >= s.total_bytes_allocated - s.total_bytes_freed

-----------------------------------------------------------------------------
(* Credit and Debit keep a pool's book a book, and move its amounts as     *)
(* record_allocation and record_free do.                                   *)
LEMMA PoolBooks ==
  ASSUME NEW b \in PoolBook, NEW n \in Nat
  PROVE  /\ Credit(b, n) \in PoolBook
         /\ Credit(b, n).current = b.current + n
         /\ Credit(b, n).peak = Larger(b.peak, b.current + n)
         /\ Debit(b, n) \in PoolBook
         /\ Debit(b, n).current = (IF b.current >= n THEN b.current - n ELSE 0)
         /\ Debit(b, n).peak = b.peak
<1> DEFINE x == b.current + n
           y == Larger(b.peak, x)
           z == IF b.current >= n THEN b.current - n ELSE 0
<1>1. x \in Nat /\ y \in Nat /\ z \in Nat
  BY DEF PoolBook, Larger
<1>2. /\ Credit(b, n) = [b EXCEPT !.current = x, !.peak = y]
      /\ Debit(b, n) = [b EXCEPT !.current = z]
  BY Zenon DEF Credit, Debit
<1> HIDE DEF x, y, z
<1>3. /\ Credit(b, n) \in PoolBook /\ Credit(b, n).current = x /\ Credit(b, n).peak = y
      /\ Debit(b, n) \in PoolBook /\ Debit(b, n).current = z /\ Debit(b, n).peak = b.peak
  BY <1>1, <1>2, Zenon DEF PoolBook
<1> QED BY <1>3, Zenon DEF x, y, z

(* The same of a tier's or a process's book, which counts the call too. *)
LEMMA TierBooks ==
  ASSUME NEW b \in Book, NEW n \in Nat
  PROVE  /\ CountAllocation(Credit(b, n)) \in Book
         /\ CountAllocation(Credit(b, n)).current = b.current + n
         /\ CountFree(Debit(b, n)) \in Book
         /\ CountFree(Debit(b, n)).current = (IF b.current >= n THEN b.current - n ELSE 0)
<1>1. /\ Credit(b, n) \in Book
      /\ Credit(b, n).current = b.current + n
      /\ Debit(b, n) \in Book
      /\ Debit(b, n).current = (IF b.current >= n THEN b.current - n ELSE 0)
  <2> DEFINE x == b.current + n
             y == Larger(b.peak, x)
             z == IF b.current >= n THEN b.current - n ELSE 0
  <2>1. x \in Nat /\ y \in Nat /\ z \in Nat
    BY DEF Book, Larger
  <2>2. /\ Credit(b, n) = [b EXCEPT !.current = x, !.peak = y]
        /\ Debit(b, n) = [b EXCEPT !.current = z]
    BY Zenon DEF Credit, Debit
  <2> HIDE DEF x, y, z
  <2>3. /\ Credit(b, n) \in Book /\ Credit(b, n).current = x
        /\ Debit(b, n) \in Book /\ Debit(b, n).current = z
    BY <2>1, <2>2, Zenon DEF Book
  <2> QED BY <2>3, Zenon DEF x, y, z
<1>2. \A c \in Book : /\ CountAllocation(c) \in Book /\ CountAllocation(c).current = c.current
                      /\ CountFree(c) \in Book /\ CountFree(c).current = c.current
  BY DEF Book, CountAllocation, CountFree
<1> HIDE DEF Book
<1> QED BY <1>1, <1>2, Zenon

(* The pool a tier is counted in. *)
LEMMA PoolOfTier ==
  ASSUME NEW tier
  PROVE  /\ Pool(tier) \in PoolNames
         /\ Pool(tier) = "vram" <=> tier = "kVram"
         /\ Pool(tier) = "ssd" <=> tier = "kNvme"
  BY Zenon DEF Pool, PoolNames

-----------------------------------------------------------------------------
(* Nothing recorded: the books agree. *)
LEMMA NothingRecorded == NoStatistics \in Statistics /\ Agree(NoStatistics)
  BY DEF NoStatistics, Statistics, Agree, HeldBytes, PoolNames, PoolBook, Book

(* record_allocation, book by book. *)
LEMMA AllocationBooks ==
  ASSUME NEW s \in Statistics, NEW t \in Tiers, NEW n \in Nat, NEW pid \in Pids \cup {0}
  PROVE  LET r == record_allocation(s, t, n, pid) IN
         /\ r \in Statistics
         /\ r.pool = [s.pool EXCEPT ![Pool(t)] = Credit(@, n)]
         /\ r.tier = CreditOf(s.tier, t, n)
         /\ r.total_bytes_allocated = s.total_bytes_allocated + n
         /\ r.total_bytes_freed = s.total_bytes_freed
<1> DEFINE pool == [s.pool EXCEPT ![Pool(t)] = Credit(@, n)]
           tier == CreditOf(s.tier, t, n)
           process == IF pid = 0 THEN s.process ELSE CreditOf(s.process, pid, n)
           count == s.total_allocations + 1
           bytes == s.total_bytes_allocated + n
<1>1. record_allocation(s, t, n, pid) =
        [s EXCEPT !.total_allocations = count, !.total_bytes_allocated = bytes,
                  !.pool = pool, !.tier = tier, !.process = process]
  BY Zenon DEF record_allocation, Statistics
<1>2. pool \in [PoolNames -> PoolBook]
  BY PoolBooks, PoolOfTier, Zenon DEF Statistics
<1>3. tier \in [Tiers -> Book] /\ process \in [Pids -> Book]
  BY TierBooks, Zenon DEF Statistics, CreditOf
<1>4. count \in Nat /\ bytes \in Nat
  BY DEF Statistics
<1> HIDE DEF pool, tier, process, count, bytes
<1>5. /\ record_allocation(s, t, n, pid) \in Statistics
      /\ record_allocation(s, t, n, pid).pool = pool
      /\ record_allocation(s, t, n, pid).tier = tier
      /\ record_allocation(s, t, n, pid).total_bytes_allocated = bytes
      /\ record_allocation(s, t, n, pid).total_bytes_freed = s.total_bytes_freed
  BY <1>1, <1>2, <1>3, <1>4, ZenonT(30) DEF Statistics
<1> QED BY <1>5, Zenon DEF pool, tier, bytes
(* record_free, book by book. *)
LEMMA FreeBooks ==
  ASSUME NEW s \in Statistics, NEW t \in Tiers, NEW n \in Nat,
         NEW life \in Nat, NEW pid \in Pids \cup {0}
  PROVE  LET r == record_free(s, t, n, life, pid) IN
         /\ r \in Statistics
         /\ r.pool = [s.pool EXCEPT ![Pool(t)] = Debit(@, n)]
         /\ r.tier = DebitOf(s.tier, t, n)
         /\ r.total_bytes_allocated = s.total_bytes_allocated
         /\ r.total_bytes_freed = s.total_bytes_freed + n
<1> DEFINE pool == [s.pool EXCEPT ![Pool(t)] = Debit(@, n)]
           tier == DebitOf(s.tier, t, n)
           process == IF pid = 0 THEN s.process ELSE DebitOf(s.process, pid, n)
           count == s.total_frees + 1
           bytes == s.total_bytes_freed + n
           lives == s.total_lifetime_ns + life
           completed == IF life > 0 THEN s.completed_lifetimes_count + 1
                        ELSE s.completed_lifetimes_count
<1>1. record_free(s, t, n, life, pid) =
        [s EXCEPT !.total_frees = count, !.total_bytes_freed = bytes,
                  !.total_lifetime_ns = lives, !.completed_lifetimes_count = completed,
                  !.pool = pool, !.tier = tier, !.process = process]
  BY Zenon DEF record_free, Statistics
<1>2. pool \in [PoolNames -> PoolBook]
  BY PoolBooks, PoolOfTier, Zenon DEF Statistics
<1>3. tier \in [Tiers -> Book] /\ process \in [Pids -> Book]
  BY TierBooks, Zenon DEF Statistics, DebitOf
<1>4. count \in Nat /\ bytes \in Nat /\ lives \in Nat /\ completed \in Nat
  BY DEF Statistics
<1> HIDE DEF pool, tier, process, count, bytes, lives, completed
<1>5. /\ record_free(s, t, n, life, pid) \in Statistics
      /\ record_free(s, t, n, life, pid).pool = pool
      /\ record_free(s, t, n, life, pid).tier = tier
      /\ record_free(s, t, n, life, pid).total_bytes_allocated = s.total_bytes_allocated
      /\ record_free(s, t, n, life, pid).total_bytes_freed = bytes
  BY <1>1, <1>2, <1>3, <1>4, ZenonT(60) DEF Statistics
<1> QED BY <1>5, Zenon DEF pool, tier, bytes

(* An allocation raises a pool and its tier's book by the same amount. *)
LEMMA AllocationAgrees ==
  ASSUME NEW s \in Statistics, Agree(s),
         NEW t \in Tiers, NEW n \in Nat, NEW pid \in Pids \cup {0}
  PROVE  Agree(record_allocation(s, t, n, pid))
<1> DEFINE r == record_allocation(s, t, n, pid)
<1>1. /\ s.pool \in [PoolNames -> PoolBook] /\ s.tier \in [Tiers -> Book]
      /\ s.total_bytes_allocated \in Nat /\ s.total_bytes_freed \in Nat
      /\ \A p \in PoolNames : s.pool[p].current \in Nat /\ s.pool[p].peak \in Nat
  BY Zenon DEF Statistics, PoolBook
<1>2. /\ r.pool = [s.pool EXCEPT ![Pool(t)] = Credit(@, n)]
      /\ r.tier = CreditOf(s.tier, t, n)
      /\ r.total_bytes_allocated = s.total_bytes_allocated + n
      /\ r.total_bytes_freed = s.total_bytes_freed
  BY AllocationBooks
<1> HIDE DEF r
<1>3. /\ Pool(t) \in PoolNames
      /\ \A p \in PoolNames \ {Pool(t)} : r.pool[p] = s.pool[p]
      /\ r.pool[Pool(t)].current = s.pool[Pool(t)].current + n
      /\ r.pool[Pool(t)].peak = Larger(s.pool[Pool(t)].peak, s.pool[Pool(t)].current + n)
  <2>1. Pool(t) \in PoolNames /\ s.pool[Pool(t)] \in PoolBook
    BY <1>1, PoolOfTier, Zenon
  <2>2. /\ r.pool[Pool(t)] = Credit(s.pool[Pool(t)], n)
        /\ \A p \in PoolNames \ {Pool(t)} : r.pool[p] = s.pool[p]
    BY <1>1, <1>2, <2>1, Zenon
  <2> QED BY <2>1, <2>2, PoolBooks
<1>4. /\ \A u \in Tiers \ {t} : r.tier[u].current = s.tier[u].current
      /\ r.tier[t].current = s.tier[t].current + n
  <2>1. s.tier[t] \in Book
    BY <1>1, Zenon
  <2>2. /\ r.tier[t] = CountAllocation(Credit(s.tier[t], n))
        /\ \A u \in Tiers \ {t} : r.tier[u] = s.tier[u]
    BY <1>1, <1>2, Zenon DEF CreditOf
  <2> QED BY <2>1, <2>2, TierBooks, Zenon
<1>5. \A p \in PoolNames : r.pool[p].peak >= r.pool[p].current
  BY <1>1, <1>3 DEF Larger, Agree
<1>6. /\ "kVram" \in Tiers => r.pool["vram"].current = r.tier["kVram"].current
      /\ "kNvme" \in Tiers => r.pool["ssd"].current = r.tier["kNvme"].current
  BY <1>3, <1>4, PoolOfTier, SMTT(30), Zenon DEF Agree, PoolNames
<1>7. HeldBytes(r) = HeldBytes(s) + n
  BY <1>1, <1>3 DEF HeldBytes, PoolNames
<1>8. HeldBytes(s) \in Nat
  BY <1>1 DEF HeldBytes, PoolNames
<1>9. HeldBytes(r) >= r.total_bytes_allocated - r.total_bytes_freed
  BY <1>1, <1>2, <1>7, <1>8 DEF Agree
<1> QED BY <1>5, <1>6, <1>9, Zenon DEF Agree, r

(* A free lowers both by the same amount, cut off at zero in both. *)
LEMMA FreeAgrees ==
  ASSUME NEW s \in Statistics, Agree(s), NEW t \in Tiers, NEW n \in Nat,
         NEW life \in Nat, NEW pid \in Pids \cup {0}
  PROVE  Agree(record_free(s, t, n, life, pid))
<1> DEFINE r == record_free(s, t, n, life, pid)
           Less(x) == IF x >= n THEN x - n ELSE 0
<1>1. /\ s.pool \in [PoolNames -> PoolBook] /\ s.tier \in [Tiers -> Book]
      /\ s.total_bytes_allocated \in Nat /\ s.total_bytes_freed \in Nat
      /\ \A p \in PoolNames : s.pool[p].current \in Nat /\ s.pool[p].peak \in Nat
  BY Zenon DEF Statistics, PoolBook
<1>2. /\ r.pool = [s.pool EXCEPT ![Pool(t)] = Debit(@, n)]
      /\ r.tier = DebitOf(s.tier, t, n)
      /\ r.total_bytes_allocated = s.total_bytes_allocated
      /\ r.total_bytes_freed = s.total_bytes_freed + n
  BY FreeBooks
<1> HIDE DEF r
<1>3. /\ Pool(t) \in PoolNames
      /\ \A p \in PoolNames \ {Pool(t)} : r.pool[p] = s.pool[p]
      /\ r.pool[Pool(t)].current = Less(s.pool[Pool(t)].current)
      /\ r.pool[Pool(t)].peak = s.pool[Pool(t)].peak
  <2>1. Pool(t) \in PoolNames /\ s.pool[Pool(t)] \in PoolBook
    BY <1>1, PoolOfTier, Zenon
  <2>2. /\ r.pool[Pool(t)] = Debit(s.pool[Pool(t)], n)
        /\ \A p \in PoolNames \ {Pool(t)} : r.pool[p] = s.pool[p]
    BY <1>1, <1>2, <2>1, Zenon
  <2>3. /\ Debit(s.pool[Pool(t)], n).current = Less(s.pool[Pool(t)].current)
        /\ Debit(s.pool[Pool(t)], n).peak = s.pool[Pool(t)].peak
    BY <2>1, PoolBooks, Zenon
  <2> HIDE DEF Less
  <2> QED BY <2>1, <2>2, <2>3, Zenon
<1>4. /\ \A u \in Tiers \ {t} : r.tier[u].current = s.tier[u].current
      /\ r.tier[t].current = Less(s.tier[t].current)
  <2>1. s.tier[t] \in Book
    BY <1>1, Zenon
  <2>2. /\ r.tier[t] = CountFree(Debit(s.tier[t], n))
        /\ \A u \in Tiers \ {t} : r.tier[u] = s.tier[u]
    BY <1>1, <1>2, Zenon DEF DebitOf
  <2>3. CountFree(Debit(s.tier[t], n)).current = Less(s.tier[t].current)
    BY <2>1, TierBooks, Zenon
  <2> HIDE DEF Less
  <2> QED BY <2>2, <2>3, Zenon
<1>5. \A p \in PoolNames : r.pool[p].peak >= r.pool[p].current
  BY <1>1, <1>3 DEF Agree
<1>6. /\ "kVram" \in Tiers => r.pool["vram"].current = r.tier["kVram"].current
      /\ "kNvme" \in Tiers => r.pool["ssd"].current = r.tier["kNvme"].current
  BY <1>3, <1>4, PoolOfTier, SMTT(30), Zenon DEF Agree, PoolNames
<1>7. HeldBytes(r) >= HeldBytes(s) - n
  BY <1>1, <1>3 DEF HeldBytes, PoolNames
<1>8. HeldBytes(s) \in Nat /\ HeldBytes(r) \in Nat
  <2>1. \A p \in PoolNames : r.pool[p].current \in Nat
    BY <1>1, <1>3
  <2> QED BY <1>1, <2>1, SMTT(30), Zenon DEF HeldBytes, PoolNames
<1>9. HeldBytes(r) >= r.total_bytes_allocated - r.total_bytes_freed
  BY <1>1, <1>2, <1>7, <1>8 DEF Agree
<1> QED BY <1>5, <1>6, <1>9, Zenon DEF Agree, r

-----------------------------------------------------------------------------
(* AnalysisPipeline *)

Allocation ==
  [size : Nat, tier : Tiers, pid : Pids \cup {0}, allocated_timestamp : Nat]

MapOK(map) == map \in [DOMAIN map -> Allocation]

AnalyzerOK(a) ==
  /\ DOMAIN a = DOMAIN NoAnalysis
  /\ MapOK(a.active_map)

EventOK(e) ==
  /\ e.timestamp \in Nat
  /\ e.type = "kObjectCreated" =>
       e.size \in Nat /\ e.tier \in Tiers /\ e.sequence_num \in Pids \cup {0}

(* A thread is idle or carries an event. *)
ThreadOK(r) ==
  \/ r = Idle
  \/ DOMAIN r = {"phase", "event", "at", "called"} /\ EventOK(r.event)

MovingOK ==
  moving # NotMoving =>
    moving.bytes \in Nat /\ moving.to \in Tiers /\ moving.pid \in Pids \cup {0}

PInv ==
  /\ stats \in Statistics /\ Agree(stats)
  /\ AnalyzerOK(analyzer)
  /\ clock \in Nat
  /\ \A e \in pending : EventOK(e)
  /\ thread \in [Threads -> {thread[t] : t \in Threads}]
  /\ \A t \in Threads : ThreadOK(thread[t])
  /\ MovingOK

-----------------------------------------------------------------------------
(* Noted leaves the table alone. *)
LEMMA NotedKeeps ==
  ASSUME NEW a, AnalyzerOK(a), NEW e
  PROVE  AnalyzerOK(Noted(a, e)) /\ Noted(a, e).active_map = a.active_map
  BY Zenon DEF AnalyzerOK, Noted, NoAnalysis

(* What is in the table stays an allocation of a known tier. *)
LEMMA ProcessKeeps ==
  ASSUME NEW a, AnalyzerOK(a), NEW e, EventOK(e)
  PROVE  AnalyzerOK(process_event(a, e))
<1> DEFINE b == Noted(a, e)
           m == b.active_map
<1>1. AnalyzerOK(b) /\ MapOK(m)
  BY NotedKeeps, Zenon DEF AnalyzerOK
<1> HIDE DEF b
<1>2. ASSUME e.type = "kObjectCreated" PROVE AnalyzerOK(handle_object_created(b, e))
  <2> DEFINE r == [size |-> e.size, tier |-> e.tier, pid |-> e.sequence_num,
                   allocated_timestamp |-> e.timestamp]
             n == Enter(m, e.object, r)
  <2>1. r \in Allocation
    BY <1>2, Zenon DEF EventOK, Allocation
  <2> HIDE DEF r
  <2>2. MapOK(n)
    BY <1>1, <2>1, Zenon DEF MapOK, Enter
  <2>3. /\ DOMAIN handle_object_created(b, e) = DOMAIN b
        /\ handle_object_created(b, e).active_map = n
    BY <1>1, Zenon DEF handle_object_created, AnalyzerOK, NoAnalysis, r
  <2> QED BY <1>1, <2>2, <2>3, Zenon DEF AnalyzerOK
<1>3. AnalyzerOK(handle_object_destroyed(b, e))
  <2> DEFINE n == [o \in DOMAIN m \ {e.object} |-> m[o]]
  <2>1. MapOK(n)
    BY <1>1, Zenon DEF MapOK
  <2>2. /\ DOMAIN handle_object_destroyed(b, e) = DOMAIN b
        /\ handle_object_destroyed(b, e).active_map \in {m, n}
    BY <1>1, Zenon DEF handle_object_destroyed, AnalyzerOK, NoAnalysis
  <2> QED BY <1>1, <2>1, <2>2, Zenon DEF AnalyzerOK
<1>4. AnalyzerOK(handle_migration_completed(b, e))
  <2>1. CASE e.object \in DOMAIN m
    <3> DEFINE r == [m[e.object] EXCEPT !.tier = "kRam"]
               n == [m EXCEPT ![e.object] = r]
    <3>1. r \in Allocation
      BY <1>1, <2>1, PipelineAssumption, Zenon, SMT DEF MapOK, Allocation
    <3>2. handle_migration_completed(b, e) = [b EXCEPT !.active_map = n]
      BY <2>1, Zenon DEF handle_migration_completed
    <3> HIDE DEF r
    <3>3. MapOK(n)
      BY <1>1, <3>1, Zenon DEF MapOK
    <3> HIDE DEF n
    <3> QED BY <1>1, <3>2, <3>3, Zenon DEF AnalyzerOK, NoAnalysis
  <2>2. CASE e.object \notin DOMAIN m
    BY <1>1, <2>2, Zenon DEF handle_migration_completed
  <2> QED BY <2>1, <2>2, Zenon
<1> QED BY <1>1, <1>2, <1>3, <1>4, Zenon DEF process_event, b

(* What the analyzer passes on keeps the books in agreement. *)
LEMMA ReportedKeeps ==
  ASSUME NEW s \in Statistics, Agree(s), NEW a, AnalyzerOK(a), NEW e, EventOK(e), Reports(a, e)
  PROVE  Reported(s, a, e) \in Statistics /\ Agree(Reported(s, a, e))
<1>1. CASE e.type = "kObjectCreated"
  BY <1>1, AllocationBooks, AllocationAgrees, Zenon DEF Reported, EventOK
<1>2. CASE e.type # "kObjectCreated"
  <2> DEFINE r == a.active_map[e.object]
             life == IF e.timestamp >= r.allocated_timestamp
                     THEN e.timestamp - r.allocated_timestamp ELSE 0
  <2>1. r \in Allocation
    BY <1>2, Zenon DEF Reports, AnalyzerOK, MapOK
  <2>2. /\ r.size \in Nat /\ r.tier \in Tiers /\ r.pid \in Pids \cup {0}
        /\ r.allocated_timestamp \in Nat
    BY <2>1, Zenon DEF Allocation
  <2>3. life \in Nat
    BY <2>2 DEF EventOK
  <2>4. Reported(s, a, e) = record_free(s, r.tier, r.size, life, r.pid)
    BY <1>2, Zenon DEF Reported
  <2> HIDE DEF life, r
  <2>5. record_free(s, r.tier, r.size, life, r.pid) \in Statistics
    BY <2>2, <2>3, FreeBooks, Zenon
  <2>6. Agree(record_free(s, r.tier, r.size, life, r.pid))
    BY <2>2, <2>3, FreeAgrees, Zenon
  <2> QED BY <2>4, <2>5, <2>6, Zenon
<1> QED BY <1>1, <1>2, Zenon

(* The pipeline as constructed. *)
LEMMA PInit == Init => PInv
<1> SUFFICES ASSUME Init PROVE PInv
  BY Zenon
<1>1. AnalyzerOK(NoAnalysis)
  BY DEF AnalyzerOK, NoAnalysis, MapOK
<1>2. thread = [t \in Threads |-> Idle]
  BY Zenon DEF Init, DispatcherInit
<1> QED BY <1>1, <1>2, NothingRecorded, Zenon DEF Init, PInv, ThreadOK, MovingOK

-----------------------------------------------------------------------------
(* A stamped event carries the size of its object and a tier that exists. *)
LEMMA WorldKeeps ==
  ASSUME PInv, NEW o \in Objects, Create(o) \/ Destroy(o) \/ Migrate(o)
  PROVE  PInv'
<1>1. PICK e : Emit(e) /\ EventOK(e)
  <2>1. \A now \in Now : now \in Nat
    BY DEF Now, PInv
  <2>2. ASSUME NEW now \in Nat, NEW id
        PROVE  /\ EventOK(create_object_event(id, now, "kObjectCreated", o, Size[o]))
               /\ EventOK(create_object_event(id, now, "kObjectDestroyed", o, Size[o]))
               /\ EventOK(create_migration_event(id, now, "kMigrationCompleted", o))
    BY PipelineAssumption DEF EventOK, create_object_event, create_migration_event
  <2> QED BY <2>1, <2>2, Zenon DEF Create, Destroy, Migrate
<1>2. /\ UNCHANGED <<stats, analyzer, thread, moving>>
      /\ clock' = e.timestamp /\ pending' = pending \cup {e}
  BY <1>1, Zenon DEF Emit, dispatcherVars, clientVars
<1> QED BY <1>1, <1>2, Zenon DEF PInv, MovingOK, EventOK

(* A dispatching thread carries an event that was pending. *)
LEMMA ThreadKeeps ==
  ASSUME PInv, NEW t \in Threads, ThreadStep(t)
  PROVE  PInv'
<1>1. /\ clock' = clock /\ moving' = moving /\ pending' \subseteq pending
  BY Zenon DEF ThreadStep, Dispatch, Scan, RunCallback, Analyze, Return, worldVars, clientVars
<1>2. DOMAIN thread = Threads /\ ThreadOK(thread[t])
  BY Zenon DEF PInv
<1>3. PICK r : thread' = [thread EXCEPT ![t] = r] /\ ThreadOK(r)
  <2>1. CASE Dispatch(t)
    <3>1. PICK e \in pending : thread' = [thread EXCEPT ![t] =
                 [phase |-> "scan", event |-> e, at |-> 1, called |-> << >>]]
      BY <2>1, Zenon DEF Dispatch, DispatchBegin
    <3> DEFINE r == [phase |-> "scan", event |-> e, at |-> 1, called |-> << >>]
    <3>2. DOMAIN r = {"phase", "event", "at", "called"} /\ r.event = e
      BY Zenon
    <3>3. EventOK(r.event)
      BY <3>2, Zenon DEF PInv
    <3>4. ThreadOK(r)
      BY <3>2, <3>3, Zenon DEF ThreadOK
    <3> QED BY <3>1, <3>4, Zenon
  <2>2. CASE Return(t)
    BY <2>2, Zenon DEF Return, DispatchReturn, ThreadOK
  <2>3. ASSUME thread[t].phase \in {"scan", "calling"}
        PROVE  /\ DOMAIN thread[t] = {"phase", "event", "at", "called"} /\ EventOK(thread[t].event)
    BY <1>2, <2>3 DEF ThreadOK, Idle
  <2>4. CASE Scan(t)
    <3>1. PICK r \in {[thread[t] EXCEPT !.phase = "calling"],
                      [thread[t] EXCEPT !.at = @ + 1]} : thread' = [thread EXCEPT ![t] = r]
      BY <2>4, Zenon DEF Scan, DispatchScan
    <3> QED BY <2>3, <2>4, <3>1, Zenon DEF Scan, DispatchScan, ThreadOK
  <2>5. CASE RunCallback(t) \/ Analyze(t)
    <3> DEFINE c == Append(thread[t].called, subscribers[thread[t].at].token)
               r == [thread[t] EXCEPT !.phase = "scan", !.at = @ + 1, !.called = c]
    <3>1. thread' = [thread EXCEPT ![t] = r] /\ thread[t].phase = "calling"
      BY <2>5, Zenon DEF RunCallback, Analyze, CallbackReturns, Calling
    <3> HIDE DEF c
    <3>2. DOMAIN r = {"phase", "event", "at", "called"} /\ r.event = thread[t].event
      BY <2>3, <3>1, Zenon
    <3> QED BY <2>3, <3>1, <3>2, Zenon DEF ThreadOK
  <2> QED BY <2>1, <2>2, <2>4, <2>5, Zenon DEF ThreadStep
<1>4. /\ thread' \in [Threads -> {thread'[u] : u \in Threads}]
      /\ \A u \in Threads : ThreadOK(thread'[u])
  BY <1>2, <1>3, Zenon DEF PInv
<1>5. stats' \in Statistics /\ Agree(stats') /\ AnalyzerOK(analyzer')
  <2>1. CASE Analyze(t)
    <3> DEFINE e == thread[t].event
    <3>1. EventOK(e)
      BY <1>2, <2>1 DEF Analyze, Calling, ThreadOK, Idle
    <3>2. /\ analyzer' = process_event(analyzer, e)
          /\ stats' = IF Reports(analyzer, e) THEN Reported(stats, analyzer, e) ELSE stats
      BY <2>1, Zenon DEF Analyze
    <3> HIDE DEF e
    <3> QED BY <3>1, <3>2, ProcessKeeps, ReportedKeeps, ZenonT(30), SMT DEF PInv
  <2>2. CASE ~ Analyze(t)
    BY <2>2, Zenon DEF PInv, ThreadStep, Dispatch, Scan, RunCallback, Return
  <2> QED BY <2>1, <2>2, Zenon
<1> QED BY <1>1, <1>4, <1>5, Zenon DEF PInv, MovingOK

(* The other users of the dispatcher and of the statistics. *)
LEMMA ClientKeeps ==
  ASSUME PInv,
         \/ \E l \in Listeners, f \in Filters : Subscribe(l, f)
         \/ \E token \in 1 .. MaxTokens : Unsubscribe(token)
         \/ ClearSubscribers \/ ResetAnalyzer \/ ResetStatistics
         \/ \E m \in Moves : MigrationFree(m[1], m[2], m[3], m[4])
         \/ MigrationAllocate
  PROVE  PInv'
<1>1. UNCHANGED <<thread, pending, clock>>
  BY Zenon DEF Subscribe, Unsubscribe, ClearSubscribers, ResetAnalyzer, ResetStatistics, MigrationFree,
     MigrationAllocate, subscribe, unsubscribe, clear, dispatcherVars, worldVars
<1>2. CASE \/ \E l \in Listeners, f \in Filters : Subscribe(l, f)
           \/ \E token \in 1 .. MaxTokens : Unsubscribe(token)
           \/ ClearSubscribers
  BY <1>1, <1>2, Zenon DEF Subscribe, Unsubscribe, ClearSubscribers, PInv, MovingOK
<1>3. CASE ResetAnalyzer
  <2>1. AnalyzerOK(NoAnalysis)
    BY DEF AnalyzerOK, NoAnalysis, MapOK
  <2> QED BY <1>1, <1>3, <2>1, ZenonT(30), SMT DEF ResetAnalyzer, PInv, MovingOK
<1>4. CASE ResetStatistics
  BY <1>1, <1>4, NothingRecorded, Zenon DEF ResetStatistics, PInv, MovingOK
<1>5. CASE \E m \in Moves : MigrationFree(m[1], m[2], m[3], m[4])
  <2>1. PICK m \in Moves : MigrationFree(m[1], m[2], m[3], m[4])
    BY <1>5, Zenon
  <2>2. m[1] \in Tiers /\ m[2] \in Tiers /\ m[3] \in Nat /\ m[4] \in Pids \cup {0}
    BY PipelineAssumption
  <2>3. stats' \in Statistics /\ Agree(stats')
    BY <2>1, <2>2, FreeBooks, FreeAgrees, Zenon DEF MigrationFree, PInv
  <2>4. MovingOK'
    BY <2>1, <2>2, Zenon DEF MigrationFree, MovingOK
  <2> QED BY <1>1, <2>1, <2>3, <2>4, Zenon DEF MigrationFree, PInv
<1>6. CASE MigrationAllocate
  <2>1. stats' \in Statistics /\ Agree(stats')
    BY <1>6, AllocationBooks, AllocationAgrees, Zenon DEF MigrationAllocate, PInv, MovingOK
  <2> QED BY <1>1, <1>6, <2>1, Zenon DEF MigrationAllocate, PInv, MovingOK
<1> QED BY <1>2, <1>3, <1>4, <1>5, <1>6, Zenon

(* PInv is inductive. *)
LEMMA PNext == PInv /\ [Next]_vars => PInv'
<1> SUFFICES ASSUME PInv, [Next]_vars PROVE PInv'
  BY Zenon
<1>1. CASE UNCHANGED vars
  BY <1>1, Zenon DEF PInv, MovingOK, vars, dispatcherVars, worldVars, clientVars
<1> QED BY <1>1, WorldKeeps, ThreadKeeps, ClientKeeps, Zenon, SMT DEF Next

(* The books agree in every behaviour of the pipeline. *)
THEOREM StatisticsAgree == Spec => []BooksAgree
<1>1. PInv => BooksAgree
  BY Zenon DEF PInv, BooksAgree, Agree, Statistics
<1> QED BY <1>1, PInit, PNext, PTL DEF Spec

-----------------------------------------------------------------------------
(* Selection *)

(* What remove_if and erase leave of a sequence is a sequence of its       *)
(* elements, and no longer than it.                                        *)
LEMMA KeptAtIsSeq ==
  ASSUME NEW S, NEW s \in Seq(S), NEW I \in SUBSET DOMAIN s, NEW left \in KeptAt(s, I)
  PROVE  left \in Seq(S) /\ Len(left) <= Len(s)
<1>1. Cardinality(I) \in Nat /\ Cardinality(I) <= Len(s)
  <2>1. DOMAIN s = 1 .. Len(s) /\ Len(s) \in Nat
    OBVIOUS
  <2>2. IsFiniteSet(DOMAIN s) /\ Cardinality(DOMAIN s) = Len(s)
    <3>1. /\ IsFiniteSet(1 .. Len(s))
          /\ Cardinality(1 .. Len(s)) = IF 1 > Len(s) THEN 0 ELSE Len(s) - 1 + 1
      BY <2>1, FS_Interval, SMTT(30), Zenon
    <3> QED BY <2>1, <3>1
  <2>3. IsFiniteSet(I) /\ Cardinality(I) <= Cardinality(DOMAIN s)
    BY <2>2, FS_Subset, Zenon
  <2> QED BY <2>2, <2>3, FS_CardinalityType, Zenon
<1>2. PICK f \in Ascending(I) : left = [k \in DOMAIN f |-> s[f[k]]]
  BY Zenon DEF KeptAt
<1>3. f \in [1 .. Cardinality(I) -> I]
  BY Zenon DEF Ascending
<1>4. \A k \in 1 .. Cardinality(I) : s[f[k]] \in S
  BY <1>3
<1> QED BY <1>1, <1>2, <1>3, <1>4, SMTT(30), Zenon

(* Positions kept so far, from left to right, and one further right.       *)
LEMMA AscendingGrows ==
  ASSUME NEW I \in SUBSET Int, IsFiniteSet(I), NEW n \in Int, \A i \in I : i < n,
         NEW f \in Ascending(I)
  PROVE  /\ Cardinality(I) \in Nat /\ f \in [1 .. Cardinality(I) -> I]
         /\ [k \in 1 .. Cardinality(I) + 1 |-> IF k = Cardinality(I) + 1 THEN n ELSE f[k]]
              \in Ascending(I \cup {n})
<1> DEFINE c == Cardinality(I)
           g == [k \in 1 .. c + 1 |-> IF k = c + 1 THEN n ELSE f[k]]
<1>1. c \in Nat /\ Cardinality(I \cup {n}) = c + 1
  <2>1. n \notin I
    OBVIOUS
  <2> QED BY <2>1, FS_AddElement, FS_CardinalityType, Zenon
<1>2. /\ f \in [1 .. c -> I] /\ DOMAIN f = 1 .. c
      /\ \A i, j \in 1 .. c : i < j => f[i] < f[j]
  BY Zenon DEF Ascending
<1> HIDE DEF c
<1>3. g \in [1 .. c + 1 -> I \cup {n}]
  BY <1>1, <1>2
<1>4. ASSUME NEW i \in 1 .. c + 1, NEW j \in 1 .. c + 1, i < j PROVE g[i] < g[j]
  <2>1. i \in 1 .. c /\ g[i] = f[i] /\ f[i] \in I
    BY <1>1, <1>2, <1>4
  <2>2. CASE j = c + 1
    BY <2>1, <2>2, Zenon
  <2>3. CASE j # c + 1
    <3>1. j \in 1 .. c /\ g[j] = f[j]
      BY <1>1, <2>3
    <3> HIDE DEF g
    <3> QED BY <1>2, <1>4, <2>1, <3>1, Zenon
  <2> QED BY <2>2, <2>3, Zenon
<1>5. g \in Ascending(I \cup {n})
  <2>1. DOMAIN g = 1 .. c + 1
    BY Zenon
  <2> HIDE DEF g
  <2> QED BY <1>1, <1>3, <1>4, <2>1, Zenon DEF Ascending
<1> QED BY <1>1, <1>2, <1>5, Zenon DEF c

(* Nothing is kept of no positions. *)
LEMMA AscendingNone == << >> \in Ascending({})
<1>1. Cardinality({}) = 0
  BY FS_EmptySet, Zenon
<1> QED BY <1>1 DEF Ascending

-----------------------------------------------------------------------------
(* What a dispatch has done so far is told by its position: it has called, *)
(* from left to right, the matching subscribers before it.                 *)

EveryEvent == [category |-> "kUnknown", type |-> "kUnknown", min_priority |-> 0]

Subscriptions ==
  [token : Nat, listener : Listeners \cup {"analyzer"}, filter : Filters \cup {EveryEvent}]

Due(r, s) == {i \in 1 .. r.at - 1 : matches(s[i].filter, r.event)}

DispatchOK(r, s) ==
  /\ DOMAIN r = {"phase", "event", "at", "called"}
  /\ r.phase \in {"scan", "calling"} /\ r.at \in 1 .. Len(s) + 1
  /\ \E f \in Ascending(Due(r, s)) : r.called = [k \in DOMAIN f |-> s[f[k]].token]
  /\ r.phase = "calling" => r.at <= Len(s) /\ matches(s[r.at].filter, r.event)

DInv ==
  /\ subscribers \in Seq(Subscriptions) /\ token_counter \in Nat
  /\ thread = [t \in Threads |-> thread[t]]
  /\ \A t \in Threads : thread[t] = Idle \/ DispatchOK(thread[t], subscribers)

(* A dispatch that begins has called nobody. *)
LEMMA BeginOK ==
  ASSUME NEW s \in Seq(Subscriptions), NEW e
  PROVE  DispatchOK([phase |-> "scan", event |-> e, at |-> 1, called |-> << >>], s)
<1> DEFINE r == [phase |-> "scan", event |-> e, at |-> 1, called |-> << >>]
<1>1. /\ DOMAIN r = {"phase", "event", "at", "called"}
      /\ r.phase = "scan" /\ r.at = 1 /\ r.called = << >> /\ Len(s) \in Nat
  OBVIOUS
<1> HIDE DEF r
<1>2. Due(r, s) = {}
  BY <1>1 DEF Due
<1> DEFINE f == << >>
<1>3. f \in Ascending(Due(r, s)) /\ r.called = [k \in DOMAIN f |-> s[f[k]].token]
  BY <1>1, <1>2, AscendingNone
<1>4. DispatchOK(r, s)
  BY <1>1, <1>3 DEF DispatchOK
<1> QED BY <1>4, Zenon DEF r

(* Passing over a subscriber: it is called exactly if it matches. *)
LEMMA PassOverOK ==
  ASSUME NEW s \in Seq(Subscriptions), NEW r, DispatchOK(r, s), r.at <= Len(s),
         NEW q, DOMAIN q = {"phase", "event", "at", "called"},
         q.phase = "scan", q.event = r.event, q.at = r.at + 1,
         q.called = IF matches(s[r.at].filter, r.event)
                    THEN Append(r.called, s[r.at].token) ELSE r.called
  PROVE  DispatchOK(q, s)
<1> DEFINE I == Due(r, s)
           n == r.at
<1>1. PICK f \in Ascending(I) : r.called = [k \in DOMAIN f |-> s[f[k]].token]
  BY Zenon DEF DispatchOK
<1>2. n \in 1 .. Len(s) /\ Len(s) \in Nat /\ q.at \in 1 .. Len(s) + 1
  BY SMTT(30), Zenon DEF DispatchOK
<1>3. CASE ~ matches(s[r.at].filter, r.event)
  <2>1. Due(q, s) = I
    BY <1>2, <1>3, SMTT(30) DEF Due
  <2> QED BY <1>1, <1>2, <1>3, <2>1, SMTT(30) DEF DispatchOK
<1>4. CASE matches(s[r.at].filter, r.event)
  <2>1. Due(q, s) = I \cup {n}
    BY <1>2, <1>4, SMTT(30), Zenon DEF Due
  <2>2. I \in SUBSET (1 .. n - 1) /\ I \in SUBSET Int /\ \A i \in I : i < n
    BY <1>2 DEF Due
  <2>3. IsFiniteSet(I)
    <3>0. 1 \in Int /\ n - 1 \in Int
      BY <1>2
    <3>1. IsFiniteSet(1 .. n - 1)
      <4> HIDE DEF n
      <4> QED BY <3>0, FS_Interval, Zenon
    <3> QED BY <2>2, <3>1, FS_Subset, Zenon
  <2> DEFINE c == Cardinality(I)
             g == [k \in 1 .. c + 1 |-> IF k = c + 1 THEN n ELSE f[k]]
  <2> HIDE DEF I
  <2>4. c \in Nat /\ f \in [1 .. c -> I] /\ g \in Ascending(I \cup {n})
    <3>1. n \in Int
      BY <1>2
    <3> HIDE DEF n
    <3>2. /\ Cardinality(I) \in Nat /\ f \in [1 .. Cardinality(I) -> I]
          /\ [k \in 1 .. Cardinality(I) + 1 |-> IF k = Cardinality(I) + 1 THEN n ELSE f[k]]
               \in Ascending(I \cup {n})
      BY <1>1, <2>2, <2>3, <3>1, AscendingGrows, Zenon
    <3> QED BY <3>2, Zenon
  <2>5. \A i \in 1 .. Len(s) : s[i].token \in Nat
    <3>1. \A i \in 1 .. Len(s) : s[i] \in Subscriptions
      OBVIOUS
    <3> QED BY <3>1, Zenon DEF Subscriptions
  <2> HIDE DEF c
  <2>6. r.called \in [1 .. c -> Nat]
    <3>1. ASSUME NEW k \in 1 .. c PROVE s[f[k]].token \in Nat
      <4>1. f[k] \in 1 .. n - 1
        BY <2>2, <2>4, ZenonT(30)
      <4>2. f[k] \in 1 .. Len(s)
        BY <1>2, <4>1
      <4> QED BY <2>5, <4>2, Zenon
    <3>2. DOMAIN f = 1 .. c
      BY <2>4, Zenon
    <3> QED BY <1>1, <3>1, <3>2, Zenon
  <2>7. r.called \in Seq(Nat) /\ Len(r.called) = c
    BY <2>4, <2>6, SMTT(30)
  <2>8. q.called = [k \in 1 .. c + 1 |-> IF k = c + 1 THEN s[n].token ELSE r.called[k]]
    BY <1>2, <1>4, <2>4, <2>5, <2>6, <2>7, SMTT(30)
  <2>9. q.called = [k \in DOMAIN g |-> s[g[k]].token]
    <3>1. DOMAIN g = 1 .. c + 1 /\ DOMAIN f = 1 .. c
      BY <2>4, Zenon
    <3>2. ASSUME NEW k \in 1 .. c + 1
          PROVE  s[g[k]].token = IF k = c + 1 THEN s[n].token ELSE r.called[k]
      <4>1. CASE k = c + 1
        BY <4>1, Zenon
      <4>2. CASE k # c + 1
        <5>1. k \in 1 .. c /\ g[k] = f[k]
          BY <2>4, <4>2
        <5> QED BY <1>1, <3>1, <4>2, <5>1, Zenon, SMT
      <4> QED BY <4>1, <4>2, Zenon
    <3> HIDE DEF g
    <3> QED BY <2>8, <3>1, <3>2, ZenonT(30), SMT
  <2> QED BY <1>2, <2>1, <2>4, <2>9, ZenonT(30), SMT DEF DispatchOK
<1> QED BY <1>3, <1>4, Zenon

(* The dispatcher as constructed. *)
LEMMA DInit == Init => DInv
<1> SUFFICES ASSUME Init PROVE DInv
  BY Zenon
<1> DEFINE first == [token |-> 1, listener |-> "analyzer", filter |-> EveryEvent]
<1>1. subscribers = <<first>> /\ token_counter = Len(<<first>>) /\ thread = [t \in Threads |-> Idle]
  BY Zenon DEF Init, DispatcherInit, EveryEvent
<1>2. first \in Subscriptions
  BY Zenon DEF Subscriptions
<1> HIDE DEF first
<1>3. subscribers \in Seq(Subscriptions) /\ token_counter \in Nat
  BY <1>1, <1>2
<1> QED BY <1>1, <1>3, Zenon DEF DInv

(* A step of a dispatching thread. *)
LEMMA DThread ==
  ASSUME DInv, NEW t \in Threads, ThreadStep(t)
  PROVE  DInv'
<1>1. UNCHANGED <<subscribers, token_counter>>
  BY Zenon DEF ThreadStep, Dispatch, Scan, RunCallback, Analyze, Return, DispatchBegin, DispatchScan,
     CallbackReturns, DispatchReturn
<1>2. DOMAIN thread = Threads /\ (thread[t] = Idle \/ DispatchOK(thread[t], subscribers))
  BY Zenon DEF DInv
<1>3. PICK q : thread' = [thread EXCEPT ![t] = q] /\ (q = Idle \/ DispatchOK(q, subscribers))
  <2>1. CASE Dispatch(t)
    BY <2>1, BeginOK, Zenon DEF Dispatch, DispatchBegin, DInv
  <2>2. CASE Return(t)
    BY <2>2, Zenon DEF Return, DispatchReturn
  <2>3. ASSUME thread[t].phase \in {"scan", "calling"} PROVE DispatchOK(thread[t], subscribers)
    BY <1>2, <2>3 DEF Idle
  <2>4. CASE Scan(t)
    <3> DEFINE r == thread[t]
    <3>1. r.phase = "scan" /\ r.at <= Len(subscribers)
      BY <2>4, Zenon DEF Scan, DispatchScan
    <3>2. DispatchOK(r, subscribers)
      BY <2>3, <3>1, Zenon
    <3>3. CASE matches(subscribers[r.at].filter, r.event)
      <4> DEFINE q == [r EXCEPT !.phase = "calling"]
      <4>1. thread' = [thread EXCEPT ![t] = q]
        BY <2>4, <3>3, Zenon DEF Scan, DispatchScan
      <4>2. /\ DOMAIN q = DOMAIN r /\ q.phase = "calling"
            /\ q.event = r.event /\ q.at = r.at /\ q.called = r.called
        BY <3>2, Zenon DEF DispatchOK
      <4> HIDE DEF q
      <4>3. Due(q, subscribers) = Due(r, subscribers)
        BY <4>2, Zenon DEF Due
      <4>4. DispatchOK(q, subscribers)
        BY <3>1, <3>2, <3>3, <4>2, <4>3, Zenon, SMT DEF DispatchOK
      <4> QED BY <4>1, <4>4, Zenon
    <3>4. CASE ~ matches(subscribers[r.at].filter, r.event)
      <4> DEFINE q == [r EXCEPT !.at = @ + 1]
      <4>1. thread' = [thread EXCEPT ![t] = q]
        BY <2>4, <3>4, Zenon DEF Scan, DispatchScan
      <4>2. /\ DOMAIN q = {"phase", "event", "at", "called"} /\ q.phase = "scan"
            /\ q.event = r.event /\ q.at = r.at + 1 /\ q.called = r.called
        BY <3>1, <3>2, Zenon DEF DispatchOK
      <4> HIDE DEF q, r
      <4>3. subscribers \in Seq(Subscriptions)
        BY Zenon DEF DInv
      <4>4. DispatchOK(q, subscribers)
        BY <3>1, <3>2, <3>4, <4>2, <4>3, PassOverOK, Zenon, SMT
      <4> QED BY <4>1, <4>4, Zenon
    <3> QED BY <3>3, <3>4, Zenon
  <2>5. CASE RunCallback(t) \/ Analyze(t)
    <3> DEFINE r == thread[t]
               c == Append(r.called, subscribers[r.at].token)
               q == [r EXCEPT !.phase = "scan", !.at = @ + 1, !.called = c]
    <3>1. thread' = [thread EXCEPT ![t] = q] /\ r.phase = "calling"
      BY <2>5, Zenon DEF RunCallback, Analyze, CallbackReturns, Calling
    <3>2. DispatchOK(r, subscribers)
      BY <2>3, <3>1, Zenon
    <3> HIDE DEF c
    <3>3. /\ DOMAIN q = {"phase", "event", "at", "called"} /\ q.phase = "scan"
          /\ q.event = r.event /\ q.at = r.at + 1 /\ q.called = c
      BY <3>2, Zenon DEF DispatchOK
    <3>4. r.at <= Len(subscribers) /\ matches(subscribers[r.at].filter, r.event)
      BY <3>1, <3>2, Zenon DEF DispatchOK
    <3>5. subscribers \in Seq(Subscriptions)
      BY Zenon DEF DInv
    <3> HIDE DEF q, r
    <3>6. DispatchOK(q, subscribers)
      BY <3>2, <3>3, <3>4, <3>5, PassOverOK, ZenonT(30) DEF c
    <3> QED BY <3>1, <3>6, Zenon
  <2> QED BY <2>1, <2>2, <2>4, <2>5, Zenon, SMT DEF ThreadStep
<1>4. /\ thread' = [u \in Threads |-> thread'[u]]
      /\ \A u \in Threads : thread'[u] = Idle \/ DispatchOK(thread'[u], subscribers)
  BY <1>2, <1>3, ZenonT(30) DEF DInv
<1> QED BY <1>1, <1>4, Zenon DEF DInv

(* The other users of the dispatcher wait until no dispatch is under way. *)
LEMMA DClient ==
  ASSUME DInv,
         \/ \E l \in Listeners, f \in Filters : Subscribe(l, f)
         \/ \E token \in 1 .. MaxTokens : Unsubscribe(token)
         \/ ClearSubscribers
  PROVE  DInv'
<1>1. thread' = thread /\ \A t \in Threads : thread[t] = Idle
  BY Zenon DEF Subscribe, Unsubscribe, ClearSubscribers, subscribe, unsubscribe, clear, ExclusiveLock
<1>2. subscribers' \in Seq(Subscriptions) /\ token_counter' \in Nat
  <2>1. CASE \E l \in Listeners, f \in Filters : Subscribe(l, f)
    <3>1. PICK l \in Listeners, f \in Filters : Subscribe(l, f)
      BY <2>1, ZenonT(30)
    <3> DEFINE r == [token |-> token_counter + 1, listener |-> l, filter |-> f]
    <3>2. r \in Subscriptions
      BY DEF Subscriptions, DInv
    <3>3. subscribers' = Append(subscribers, r) /\ token_counter' = token_counter + 1
      BY <3>1, ZenonT(30) DEF Subscribe, subscribe
    <3> HIDE DEF r
    <3> QED BY <3>2, <3>3 DEF DInv
  <2>2. CASE \E token \in 1 .. MaxTokens : Unsubscribe(token)
    <3>1. PICK token : subscribers' \in KeptAt(subscribers, Others(token)) /\ token_counter' = token_counter
      BY <2>2, Zenon DEF Unsubscribe, unsubscribe
    <3>2. Others(token) \in SUBSET DOMAIN subscribers
      BY Zenon DEF Others
    <3> QED BY <3>1, <3>2, KeptAtIsSeq, Zenon DEF DInv
  <2>3. CASE ClearSubscribers
    BY <2>3, SMTT(30) DEF ClearSubscribers, clear, DInv
  <2> QED BY <2>1, <2>2, <2>3, Zenon
<1> QED BY <1>1, <1>2, Zenon DEF DInv

(* DInv is inductive. *)
LEMMA DNext == DInv /\ [Next]_vars => DInv'
<1> SUFFICES ASSUME DInv, [Next]_vars PROVE DInv'
  BY Zenon
<1>1. ASSUME UNCHANGED dispatcherVars PROVE DInv'
  BY <1>1, Zenon DEF DInv, dispatcherVars
<1>2. CASE UNCHANGED vars
  BY <1>1, <1>2, Zenon DEF vars
<1>3. CASE \E o \in Objects : Create(o) \/ Destroy(o) \/ Migrate(o)
  BY <1>1, <1>3, Zenon DEF Create, Migrate, Destroy, Emit
<1>4. CASE \/ ResetAnalyzer \/ ResetStatistics \/ MigrationAllocate
           \/ \E m \in Moves : MigrationFree(m[1], m[2], m[3], m[4])
  BY <1>1, <1>4, Zenon DEF ResetAnalyzer, ResetStatistics, MigrationAllocate, MigrationFree
<1> QED BY <1>2, <1>3, <1>4, DThread, DClient, Zenon, SMT DEF Next

(* The list a dispatch walks over does not change under it: every matching *)
(* subscriber before its position was called once and in order, for any    *)
(* number of threads, subscribers and filters.                             *)
THEOREM OneListPerDispatch == Spec => []DispatchSeesOneList
<1>1. DInv => DispatchSeesOneList
  <2> SUFFICES ASSUME DInv, NEW t \in Threads, thread[t] # Idle
               PROVE  LET due == {i \in 1 .. thread[t].at - 1 :
                                    matches(subscribers[i].filter, thread[t].event)}
                      IN /\ thread[t].at <= Len(subscribers) + 1
                         /\ \E called \in KeptAt(subscribers, due) :
                              thread[t].called = [k \in DOMAIN called |-> called[k].token]
                         /\ thread[t].phase = "calling" =>
                              /\ thread[t].at <= Len(subscribers)
                              /\ matches(subscribers[thread[t].at].filter, thread[t].event)
    BY Zenon DEF DispatchSeesOneList
  <2>1. DispatchOK(thread[t], subscribers)
    BY Zenon DEF DInv
  <2>2. PICK f \in Ascending(Due(thread[t], subscribers)) :
          thread[t].called = [k \in DOMAIN f |-> subscribers[f[k]].token]
    BY <2>1, Zenon DEF DispatchOK
  <2> DEFINE called == [k \in DOMAIN f |-> subscribers[f[k]]]
  <2>3. called \in KeptAt(subscribers, Due(thread[t], subscribers))
    BY <2>2, Zenon DEF KeptAt
  <2>4. thread[t].called = [k \in DOMAIN called |-> called[k].token]
    BY <2>2, Zenon
  <2>5. thread[t].at <= Len(subscribers) + 1
    BY <2>1, SMTT(30) DEF DispatchOK, DInv
  <2> QED BY <2>1, <2>3, <2>4, <2>5, Zenon DEF DispatchOK, Due
<1> QED BY <1>1, DInit, DNext, PTL DEF Spec

-----------------------------------------------------------------------------
(* Dashboard *)

Candidates == <<"kRam", "kVram", "kNvme">>

Decisions == [phase : {"none", "decided", "holding"}, tier : Limited, size : Nat]

StateOK ==
  /\ stats \in Statistics
  /\ client \in [Clients -> Decisions]
  /\ fresh \in SUBSET Clients
  /\ gui \in [phase : {"idle", "ram", "vram", "sample", "simulate", "emit"}, due : SUBSET Bound]
  /\ DOMAIN ctx = Limited

(* The plans on display were made for ctx, except between the two samples, *)
(* and the NVMe tier has no limit.                                         *)
PlansMadeForCtx ==
  /\ (last_evaluated_plans # << >> \/ gui.phase = "simulate") => ctx["kNvme"].max = 0
  /\ (last_evaluated_plans # << >> /\ gui.phase # "simulate") =>
       last_evaluated_plans = simulate_strategies(Candidates, 1, ctx)

(* What schedule_allocation has established for a fresh decision. *)
Vram == stats.pool["vram"]

Promised(c) ==
  (client[c].phase = "decided" /\ client[c].tier = "kVram" /\ Vram.peak > 0) =>
    (Vram.current + client[c].size) * 100 <= 90 * Vram.peak

Promises == \A c \in fresh : Promised(c)

GInv == StateOK /\ PlansMadeForCtx /\ Promises

-----------------------------------------------------------------------------
(* With an unlimited NVMe tier the plan selected among the three fits: a   *)
(* plan over capacity scores 39500 at most, the NVMe plan 102075.          *)
LEMMA SelectedCandidateFits ==
  ASSUME NEW x, x["kNvme"].max = 0
  PROVE  LET e == simulate_strategies(Candidates, 1, x)
         IN ~ OverCapacity(e[selected_plan(e)].tier, 1, x)
<1> DEFINE e == simulate_strategies(Candidates, 1, x)
           sc(i) == e[i].overall_score
<1>1. /\ e = [i \in 1 .. 3 |-> [tier |-> Candidates[i],
                                overall_score |-> evaluate_plan(Candidates[i], 1, x)]]
      /\ Candidates[1] = "kRam" /\ Candidates[2] = "kVram" /\ Candidates[3] = "kNvme"
      /\ Len(e) = 3
  BY DEF simulate_strategies, Candidates
<1>2. /\ RawScore("kRam") = 193075 /\ RawScore("kVram") = 259500 /\ RawScore("kNvme") = 102075
  BY DEF RawScore, Estimate
<1>3. /\ ~ OverCapacity("kNvme", 1, x)
      /\ evaluate_plan("kNvme", 1, x) = 102075
      /\ evaluate_plan("kRam", 1, x) = IF OverCapacity("kRam", 1, x) THEN 0 ELSE 193075
      /\ evaluate_plan("kVram", 1, x) = IF OverCapacity("kVram", 1, x) THEN 39500 ELSE 259500
  <2>1. ~ OverCapacity("kNvme", 1, x)
    BY DEF OverCapacity
  <2> QED BY <1>2, <2>1 DEF evaluate_plan
<1>4. /\ e[1].tier = "kRam" /\ e[2].tier = "kVram" /\ e[3].tier = "kNvme"
      /\ sc(1) = evaluate_plan("kRam", 1, x) /\ sc(2) = evaluate_plan("kVram", 1, x)
      /\ sc(3) = evaluate_plan("kNvme", 1, x)
  BY <1>1
<1> HIDE DEF e
<1>5. \E i \in 1 .. 3 : /\ \A j \in 1 .. 3 : sc(j) <= sc(i)
                        /\ \A j \in 1 .. i - 1 : sc(j) < sc(i)
  BY <1>3, <1>4, SMTT(30)
<1>6. selected_plan(e) \in 1 .. 3 /\ \A j \in 1 .. 3 : sc(j) <= sc(selected_plan(e))
  BY <1>1, <1>5, ZenonT(30) DEF selected_plan
<1>7. PICK i \in 1 .. 3 : i = selected_plan(e)
  BY <1>6
<1>8. sc(3) <= sc(i)
  BY <1>6, <1>7
<1>9. ~ OverCapacity(e[i].tier, 1, x)
  <2>1. CASE i = 1
    BY <1>3, <1>4, <1>8, <2>1, SMTT(30)
  <2>2. CASE i = 2
    BY <1>3, <1>4, <1>8, <2>2, SMTT(30)
  <2>3. CASE i = 3
    BY <1>3, <1>4, <2>3, SMTT(30)
  <2> QED BY <2>1, <2>2, <2>3, SMTT(30)
<1> QED BY <1>7, <1>9 DEF e
-----------------------------------------------------------------------------
(* The adapter as constructed. *)
LEMMA GInit == DashboardInit => GInv
<1> SUFFICES ASSUME DashboardInit PROVE GInv
  OBVIOUS
<1>1. stats \in Statistics /\ fresh = {} /\ last_evaluated_plans = << >>
  BY NothingRecorded, SMTT(30), Zenon DEF DashboardInit
<1>2. gui \in [phase : {"idle", "ram", "vram", "sample", "simulate", "emit"}, due : SUBSET Bound]
      /\ gui.phase = "idle" /\ DOMAIN ctx = Limited
  BY SMTT(30), Zenon DEF DashboardInit
<1>3. client \in [Clients -> Decisions]
  BY DEF DashboardInit, NoDecision, Decisions, Limited
<1> QED BY <1>1, <1>2, <1>3, SMTT(30) DEF GInv, StateOK, PlansMadeForCtx, Promises

(* A call on the statistics leaves them statistics. *)
LEMMA ChurnKeeps ==
  ASSUME GInv, NEW tier \in {"kRam", "kVram"}, NEW sizes \in SUBSET Nat, Churn(tier, sizes)
  PROVE  stats' \in Statistics /\ (UNCHANGED <<stats, fresh>> \/ fresh' = {})
<1>1. tier \in Tiers /\ FreeSizes \subseteq Nat
  BY DashboardAssumption DEF GInv
<1>2. CASE ticks_count % 3 = 0
  <2>1. PICK size \in sizes : stats' = record_allocation(stats, tier, size, 0)
    BY <1>2 DEF Churn
  <2> QED BY <1>1, <1>2, <2>1, AllocationBooks, ZenonT(30) DEF Churn,
      GInv, StateOK
<1>3. CASE ticks_count % 3 # 0 /\ ticks_count % 7 = 0
  <2>1. PICK size \in FreeSizes : stats' = record_free(stats, tier, size, 0, 0)
    BY <1>3 DEF Churn
  <2> QED BY <1>1, <1>3, <2>1, FreeBooks, ZenonT(30) DEF Churn, GInv,
      StateOK
<1>4. CASE ticks_count % 3 # 0 /\ ticks_count % 7 # 0
  BY <1>4 DEF Churn, GInv, StateOK
<1> QED BY <1>2, <1>3, <1>4

(* The steps of the tick keep the invariant. *)
LEMMA GuiKeeps == ASSUME GInv, GuiStep PROVE GInv'
<1> USE DEF clientsVars, adapterVars
<1>1. CASE Tick
  BY <1>1 DEF GInv, StateOK, PlansMadeForCtx, Promises, Promised, Vram,
     Tick
<1>2. CASE TickRam \/ TickVram
  <2>1. stats' \in Statistics /\ (UNCHANGED <<stats, fresh>> \/ fresh' = {})
    BY <1>2, ChurnKeeps, DashboardAssumption DEF GInv, TickRam, TickVram
  <2>2. /\ StateOK' /\ PlansMadeForCtx'
    BY <1>2, <2>1 DEF GInv, StateOK, PlansMadeForCtx, TickRam, TickVram
  <2>3. Promises'
    BY <1>2, <2>1 DEF GInv, Promises, Promised, Vram, TickRam, TickVram
  <2> QED BY <2>2, <2>3 DEF GInv
<1>3. CASE TickSampleRam
  <2>1. DOMAIN ctx' = Limited /\ ctx'["kNvme"].max = 0
    BY <1>3 DEF TickSampleRam, Limited
  <2> QED BY <1>3, <2>1, Zenon DEF GInv, StateOK, PlansMadeForCtx, Promises,
      Promised, Vram, TickSampleRam
<1>4. CASE TickSimulate
  <2>1. DOMAIN ctx' = Limited /\ ctx'["kNvme"].max = 0
    BY <1>4 DEF TickSimulate, GInv, StateOK, PlansMadeForCtx, Limited
  <2>2. last_evaluated_plans' = simulate_strategies(Candidates, 1, ctx')
    BY <1>4 DEF TickSimulate, Candidates
  <2> QED BY <1>4, <2>1, <2>2 DEF GInv, StateOK, PlansMadeForCtx, Promises,
      Promised, Vram,
             TickSimulate
<1>5. CASE TickReturn \/ \E p \in Bound : Reevaluate(p)
  BY <1>5 DEF GInv, StateOK, PlansMadeForCtx, Promises, Promised, Vram,
     TickReturn, Reevaluate
<1> QED BY <1>1, <1>2, <1>3, <1>4, <1>5, SMTT(30), Zenon DEF GuiStep

(* A fresh decision for VRAM was taken on the statistics as they are. *)
LEMMA DecideKeeps ==
  ASSUME GInv, NEW c \in Clients, NEW size \in ClientSizes, NEW hot \in BOOLEAN,
         Decide(c, size, hot)
  PROVE  GInv'
<1> DEFINE tier == schedule_allocation(snapshot(stats).pool, size, hot)
           d == [phase |-> "decided", tier |-> tier, size |-> size]
<1>1. /\ client' = [client EXCEPT ![c] = d] /\ fresh' = fresh \cup {c}
      /\ UNCHANGED <<stats, gui, ctx, last_evaluated_plans>>
  BY SMTT(30) DEF Decide, adapterVars
<1>2. tier \in Limited /\ size \in Nat
  BY DashboardAssumption DEF GInv, schedule_allocation, Limited
<1>3. snapshot(stats).pool = stats.pool
  BY DEF snapshot
<1>4. Vram.current \in Nat /\ Vram.peak \in Nat
  BY DEF GInv, StateOK, Statistics, PoolBook, PoolNames, Vram
<1>5. (tier = "kVram" /\ Vram.peak > 0) => (Vram.current + size) * 100 <= 90 * Vram.peak
  <2>1. tier = "kVram" => ~ Exceeds(Vram.current + size, 90, Vram.peak)
    BY <1>3 DEF schedule_allocation, Vram
  <2> QED BY <1>2, <1>4, <2>1 DEF Exceeds
<1> HIDE DEF tier
<1>6. d \in Decisions /\ d.tier = tier /\ d.size = size
  BY <1>2 DEF Decisions
<1> HIDE DEF d
<1>7. StateOK' /\ PlansMadeForCtx'
  BY <1>1, <1>6 DEF GInv, StateOK, PlansMadeForCtx
<1>8. client'[c] = d /\ \A b \in Clients \ {c} : client'[b] = client[b]
  BY <1>1 DEF GInv, StateOK
<1>9. Promises'
  <2>1. Vram' = Vram /\ Promised(c)'
    BY <1>1, <1>5, <1>6, <1>8, SMTT(30), Zenon DEF Promised, Vram
  <2>2. ASSUME NEW b \in fresh \ {c} PROVE Promised(b)'
    <3>1. Promised(b) /\ client'[b] = client[b]
      BY <1>8, <2>2, SMTT(30) DEF GInv, StateOK, Promises
    <3> QED BY <2>1, <3>1 DEF Promised
  <2> QED BY <1>1, <2>1, <2>2, SMTT(30) DEF Promises
<1> QED BY <1>7, <1>9 DEF GInv

(* Recording and freeing make every decision stale. *)
LEMMA CallKeeps ==
  ASSUME GInv, NEW c \in Clients, Record(c) \/ Free(c)
  PROVE  GInv'
<1>1. /\ client[c] \in Decisions /\ client[c].tier \in Tiers /\ client[c].size \in Nat
  BY DashboardAssumption DEF GInv, StateOK, Decisions, Limited
<1>2. stats' \in Statistics /\ fresh' = {} /\ UNCHANGED <<gui, ctx, last_evaluated_plans>>
  <2>1. CASE Record(c)
    BY <1>1, <2>1, AllocationBooks, ZenonT(30) DEF Record, GInv,
       StateOK, adapterVars
  <2>2. CASE Free(c)
    <3>1. record_free(stats, client[c].tier, client[c].size, 1, 0) \in Statistics
      BY <1>1, FreeBooks, Zenon DEF GInv, StateOK
    <3> QED BY <2>2, <3>1 DEF Free, adapterVars
  <2> QED BY <2>1, <2>2
<1>3. client' \in [Clients -> Decisions]
  <2>1. [client[c] EXCEPT !.phase = "holding"] \in Decisions /\ NoDecision \in Decisions
    BY <1>1 DEF Decisions, NoDecision, Limited
  <2> QED BY <2>1 DEF Record, Free, GInv, StateOK
<1> QED BY <1>2, <1>3, Zenon DEF GInv, StateOK, PlansMadeForCtx, Promises

(* GInv is inductive. *)
LEMMA GNext == GInv /\ [DashboardNext]_dashboardVars => GInv'
<1> SUFFICES ASSUME GInv, [DashboardNext]_dashboardVars PROVE GInv'
  OBVIOUS
<1>1. ASSUME read_request \/ (\E lines \in Segments : Arrive(lines)) \/ UNCHANGED dashboardVars PROVE GInv'
  BY <1>1, ZenonT(30) DEF read_request, Arrive, dashboardVars, adapterVars,
     clientsVars, GInv, StateOK, PlansMadeForCtx,
     Promises, Promised, Vram
<1> QED BY <1>1, GuiKeeps, DecideKeeps, CallKeeps DEF DashboardNext

(* The invariant behind the two theorems below. *)
THEOREM DashboardInvariance == DashboardSpec => []GInv
  BY GInit, GNext, PTL DEF DashboardSpec

(* The best plan on display fits its tier, however the engine's other      *)
(* users allocate between the two samples.                                 *)
THEOREM DisplayedPlanFits == DashboardSpec => []BestPlanFits
<1>1. GInv => BestPlanFits
  BY SelectedCandidateFits DEF GInv, PlansMadeForCtx, BestPlanFits
<1> QED BY <1>1, DashboardInvariance, PTL

(* An allocation that schedule_allocation sends to VRAM and that is        *)
(* recorded before anything else does not raise the VRAM peak.             *)
THEOREM PeakKept == DashboardSpec => ScheduledKeepsVramPeak
<1> DEFINE Keeps(c) ==
      (/\ client[c].phase = "decided" /\ client'[c].phase = "holding"
       /\ c \in fresh /\ client[c].tier = "kVram"
       /\ stats.pool["vram"].peak > 0)
      => stats'.pool["vram"].peak = stats.pool["vram"].peak
<1>1. ASSUME GInv, [DashboardNext]_dashboardVars, NEW c \in Clients PROVE Keeps(c)
  <2> SUFFICES ASSUME client[c].phase = "decided", client'[c].phase = "holding",
                      c \in fresh, client[c].tier = "kVram", Vram.peak > 0
               PROVE  stats'.pool["vram"].peak = Vram.peak
    BY DEF Vram
  <2>1. Record(c)
    <3>1. ASSUME GuiStep \/ read_request \/ (\E lines \in Segments : Arrive(lines)) \/ UNCHANGED dashboardVars
          PROVE  client' = client
      BY <3>1, ZenonT(30) DEF dashboardVars, GuiStep, Tick, TickRam, TickVram, TickSampleRam, TickSimulate,
         Reevaluate, TickReturn, read_request, Arrive, clientsVars
    <3>2. ASSUME NEW b \in Clients, NEW size \in ClientSizes, NEW hot \in BOOLEAN,
                 Decide(b, size, hot)
          PROVE  FALSE
      BY <1>1, <3>2, SMTT(30), Zenon DEF Decide, NoDecision, GInv, StateOK
    <3>3. ASSUME NEW b \in Clients, Free(b) PROVE FALSE
      BY <1>1, <3>3 DEF Free, NoDecision, GInv, StateOK
    <3>4. ASSUME NEW b \in Clients, Record(b) PROVE b = c
      BY <1>1, <3>4, SMTT(30) DEF Record, GInv, StateOK
    <3> QED BY <1>1, <3>1, <3>2, <3>3, <3>4, SMTT(30) DEF DashboardNext
  <2>2. client[c].size \in Nat /\ "kVram" \in Tiers
    BY <1>1, DashboardAssumption, SMTT(30), Zenon DEF GInv, StateOK, Decisions
  <2>3. /\ Vram \in PoolBook /\ Vram.current \in Nat /\ Vram.peak \in Nat
        /\ stats \in Statistics
    BY <1>1 DEF GInv, StateOK, Statistics, PoolBook, PoolNames, Vram
  <2>4. stats'.pool = [stats.pool EXCEPT !["vram"] = Credit(@, client[c].size)]
    BY <2>1, <2>2, <2>3, AllocationBooks, SMTT(30) DEF Record, Pool
  <2>5. stats'.pool["vram"] = Credit(Vram, client[c].size)
    BY <2>3, <2>4, SMTT(30) DEF Statistics, PoolNames, Vram
  <2>6. Credit(Vram, client[c].size).peak = Larger(Vram.peak, Vram.current + client[c].size)
    BY <2>2, <2>3, PoolBooks, ZenonT(30)
  <2>7. (Vram.current + client[c].size) * 100 <= 90 * Vram.peak
    BY <1>1 DEF GInv, Promises, Promised
  <2>8. Vram.current + client[c].size <= Vram.peak
    BY <2>2, <2>3, <2>7, SMTT(30), Zenon
  <2> QED BY <2>2, <2>3, <2>5, <2>6, <2>8, SMTT(30), Zenon DEF Larger
<1>2. GInv /\ [DashboardNext]_dashboardVars => [\A c \in Clients : Keeps(c)]_dashboardVars
  BY <1>1
<1> QED BY <1>2, DashboardInvariance, PTL DEF DashboardSpec, ScheduledKeepsVramPeak
=============================================================================
