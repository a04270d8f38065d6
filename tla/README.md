# TLA+ verification of UME

UME records memory operations as events in an append-only journal, replays them to subscribers, derives statistics
and predictions from them, moves objects between memory tiers and shows it all on a dashboard. This directory holds
TLA+ models of these parts, the TLC instances that check them, and TLAPS proofs. Paths below are relative to `src/`.

## The system

| Part | Source | Model |
|---|---|---|
| `LockFreeMpscQueue`, `SpscQueue` | `core/include/ume/concurrency/` | `MpscQueue`, `SpscQueue`, both implementing `BoundedFifo` |
| `EpochRcu`, `HazardPointerDomain` | `core/src/concurrency/epoch_rcu.cpp`, `core/include/ume/concurrency/hazard_pointers.h` | `EpochRcu`, `HazardPointers` |
| `StringInterner` | `core/src/concurrency/string_interner.cpp` | `StringInterner` |
| Journal format, `JournalWriter` | `core/src/event/journal_writer.cpp` | `JournalFormat`, `JournalWriter` |
| `JournalReader`, `ReplayEngine` | `core/src/event/journal_reader.cpp`, `replay_engine.cpp` | `JournalReader`, `ReplayEngine` |
| `EventDispatcher`, `EventAnalyzer`, `StatisticsCollector` | `core/src/event/` | `EventDispatcher`, `EventAnalyzer`, `MemoryStatistics`, composed in `AnalysisPipeline` |
| `PatternLearningEngine`, `PredictionEngine` | `core/src/event/` | `PatternLearning`, `PredictionEngine`, composed in `Forecasting` |
| `MemoryPlacementEngine`, `MemoryOptimizer`, `PrefetchEngine` | `core/src/event/` | `MemoryPlacement`, `WorkerLifecycle`, `MemoryOptimizer`, `PrefetchEngine`, composed in `TierPipeline` |
| `MemoryScheduler`, `MemoryAdvisor`, `DigitalTwinEngine`, `plan_placement` | `core/src/event/` | `TierPlanning` (operators) |
| Dashboard adapter, view models, HTTP telemetry server | `dashboard/src/model/` | `Dashboard` |
| Config, platform layer, value types, views, benchmarks, scripts | | not modelled |

How they interact: the writer's files are what the reader finds, and `JournalFormat` is the interface of the two models.
The replay engine drives a reader and hands events to the dispatcher, whose listener is the analyzer, which books every
allocation in the statistics. Scheduler, advisor and twin decide on snapshots of those statistics; the dashboard's
adapter drives all three from its timer. The optimizer and the prefetch engine each have a worker thread, and both feed
the one placement engine. The queues, the two reclamation domains and the interner are libraries that only tests and
benchmarks use so far; their models let any client call them within their contracts.

## Modules

**`BoundedFifo`** is the abstract queue, written as the history of accepted and of delivered elements. Both rings
implement it (`ImplementsFifo`).

**`MpscQueue`** has one action per access to shared memory. `enqueue` loads the cursor (possibly a stale value), looks
at the cell's sequence number, exchanges the cursor, writes, publishes. `dequeue` looks, moves, frees the cell,
advances. An observer calls `approx_size`, which loads the two cursors in two steps. **`SpscQueue`** does the same for
`push`, `pop` and `front`, with the cached copies of the other side's index.

**`EpochRcu`** and **`HazardPointers`**: a reader's stores go through a store buffer (as on x86-64), so they may become
visible late. The protected structure is the caller's: one pointer to numbered versions. Writers unlink, retire, advance
and reclaim; the scan over the slots is one step per slot. In `HazardPointers` a reader looks at the pointer again
after `protect`; `sound` has the readers whose announcement was visible at that moment. A reader that gets no slot goes
on without one, as the code lets it.

**`StringInterner`**: `generation` counts the moves of the arena. A key or view of an earlier generation dangles. A
lookup compares with every key of the same length, so a dangling key may match whichever string is looked up, may fail
to match, so that a string gets a second handle (`string_interner.h:7` speaks of "deduplication"), or may fault.

**`JournalFormat`** says what a record slot may hold, which records `journal_reader.h` promises to a reader
(`PromisedRecords`), and which of them no damage can hide (`Replayed`: no damaged header before them in their segment).

**`JournalWriter`**: threads in `append` reserve a place by `fetch_add`, roll over under the lock in separate steps
(unmap, map, reset of the offset), draw a number, and store header and payload. Offsets are counted in records.
`flush`, `close` and `open` take the lock at any time, also while appends are under way. `files` is the page cache and
`disk` what survives a power failure. `Kill` ends the process, `PowerLoss` keeps any part of what was not synced. The
history variable `mishaps` records the steps after which a promise no longer holds.

**`JournalReader`** walks over 8-byte words, so that the scan for the next record sees the inside of a damaged one. The
size a record header states is whatever the file holds, zero included: `read_next` adds it to the offset without a look
at it. `SizesPositive` and `OwnSizes` say that no size is zero, and that all are the writer's.
**`ReplayEngine`** composes it with the replay loop; a behaviour is either a replay, of a directory or of one segment, or
a program that uses the reader directly, with closes and calls after the end.

**`AnalysisPipeline`**: a program creates, destroys and migrates objects and stamps an event for each; two events may
carry the same timestamp. Threads dispatch the events in any order through `EventDispatcher` (the shared lock is held for
a whole dispatch), `EventAnalyzer` rebuilds the table of live objects, `MemoryStatistics` keeps the books. Object events
name the RAM tier whatever the object, as the factory in `event.h` does. `record_migration` is two steps, since it takes
its lock twice.

**`Forecasting`** composes `PatternLearning` (scores in units of 0.05) with `PredictionEngine` (the cache and its expiry;
`get_prediction` is two steps, since clock and patterns move on meanwhile). `persist` copies the table under the lock and
`restore` merges under it, but the file is opened, read and written without it, so several of these calls overlap line
by line. A file that is truncated while another `persist` writes is `mixed`; a load that meets such a file, or that a
truncation overtakes, is `torn` and yields what `Junk` allows, or ends the process. A process that dies leaves a prefix,
whose last line may be cut inside any field.

**`TierPipeline`**: a pass of the optimizer holds its mutex, but others use the placement engine between two of its
tasks, so a pass is several steps. The prefetch worker takes a request in one step and settles it in another, since
`cancel_prefetch` may come in between. `WorkerLifecycle` is `start` and `stop`, the same code in both engines.
Temperatures are three classes, and a decay may or may not change the class. `std::terminate` ends the behaviour.
`Selection` says what erasing leaves of a container, and in which orders an unordered one may be walked.

**`Dashboard`**: the GUI thread runs the timer's tick in several steps (its statistics calls lock one by one), emits
`data_changed` with `mutex_` held, re-reads the bound QML properties, and answers HTTP requests. Clients schedule, record
and free allocations meanwhile. `Bound` is the set of properties that QML binds
(`PageBindings` those of the shipped pages). Decisions are operators of
`TierPlanning`; ratios are compared as products. Sizes are in MiB, a page counting as one.

Operators named `X_Something` in the modules are faulty variants of the definition `X`. No specification uses them.
They show that the properties are not vacuous: each property fails when its variant takes the place of `X`.

## Runs

| Run | Shows | Bounds (distinct states) |
|---|---|---|
| `mpsc_queue` | no data race, truthful "full", `BoundedFifo` implemented, every accepted element delivered | 2 producers, 3 calls each, 2 cells: three laps (438,498) |
| `spsc_queue` | the same for one producer; truthful "empty"; `front` stays the oldest | 6 calls, 2 cells (12,902) |
| `writer_any` | what holds of the writer with rollovers, closes, reopening, failing maps, kills and power failures | 2 threads, 2 appends each, 2 records per segment, 2 opens, 1 flush (2,092,348) |
| `replay` | a replay dispatches all of `Replayed`, nothing but `PromisedRecords`, in order, and ends unless a stated size is zero; direct reads come in order, each record once, and return | 2 files of 2 slots, damage of every kind, sizes zero, own and double; 1 open, 5 calls; the corruption counter stops at 1 (2,144,734) |
| `reader_damage` | *fails*: records behind a damaged header are lost | the same files, all with the writer's size |
| `rcu_reclamation` | no use after free if announcements are visible and slots are not shared; each deleter runs once; one reclaim is enough when no reader is active | 1 reader with 2 sections and registrations, 2 writers, 2 versions, 2 reclaims, 1 slot (2,943,460) |
| `hazard_pointers` | a visible protection keeps its version alive; a slot has one owner; what is retired is deleted in the end | 2 readers, 1 slot, 3 versions, buffers of 3 stores (327,456) |
| `string_interner` | *fails*: a view dies when a later `intern` moves the arena | 3 strings, 4 handles, capacity 5 |
| `statistics` | the two programs that fill a collector. Analysis: books nobody flagged are exact; the statistics agree with themselves; a dispatch sees one list; events get through. Dashboard: the best plan on display fits its tier; a fresh VRAM decision keeps the peak | 2 threads, 2 objects, 3 events, 2 subscriptions (the second with a filter for new objects), 1 direct client call, 2 different `record_migration`s; 7 ticks (the first frees are in tick 7), 1 client with 2 calls, 1 request line (794,105) |
| `forecasting` | predictions and patterns are accounted for; a restore that no truncation disturbs takes from one snapshot; cold patterns are forgotten | 2 objects, 2 callers, 2 threads that persist and restore, 3 calls and any number of crashes, TTL of 1 tick; one object is one access away from being hot (180,881) |
| `tier_pipeline` | one request per object; no task or request lost or counted twice; every `stop` returns and owns the worker it stops; the prefetch queue is emptied | 1 object and the null object, 2 controllers, 2 starts, 2 client calls, 1 pass before the worker's last (449,364) |
| `dashboard_refresh` | *fails*: with the properties the shipped QML binds, the first tick never ends | 7 ticks, 1 client with 2 calls, 2 request lines, `Bound <- PageBindings` |

The bounds are the smallest at which the interesting cases happen: a ring of two cells that wraps several times, a
segment that fills and rolls over, two reclaims in each other's way, two readers after one slot, an arena that moves
while views are out, a file cut off by a crash, two saves of one file at once, a batch of two prefetch requests. `writer_any` was also checked once,
before `close` could race, with three appends per thread and one open (9.9 million states), and `tier_pipeline` with
three client calls (5.2 million states, invariants only). Deadlock is not checked where a model ends when its bounded
calls are used up or the process is gone.

### Where the code differs from its comments

Three runs fail, each on a promise that a comment makes:

- `dashboard_refresh`: `process_simulation_tick` emits `data_changed` with `mutex_` held, and the getters bound by the QML
  pages lock it again on the same thread, so the "1 Hz telemetry refresh loop" (`real_engine_adapter.cpp:17`) stops in its
  first tick. In `statistics` only the two properties whose getters take no lock are bound. That run is about
  what a tick computes and shares with the clients, not about whether ticks end: with the shipped pages none does.
- `reader_damage`: the scan behind a damaged header comes to that header's reserved word, eight zero bytes, and takes it
  for the end of the segment (`journal_reader.cpp:112`); `journal_reader.h:59` says "until valid record or EOF".
- `string_interner`: the view `resolve` returned points into a vector that later calls move (`string_interner.cpp:34`);
  `string_interner.h:48` says "Valid for lifetime of StringInterner".

Four more disagreements have a definition of their own but no run; the runs state their conditional forms, which say
that nothing else breaks the promise. Each is reproduced by adding the name to the configuration.

| Add to | Property | What TLC shows |
|---|---|---|
| `MCJournalWriter.cfg` | `NoFault` (invariant) | `append` stores outside the mapping while another thread rolls over, or closes (`journal_writer.cpp:150`); `journal_writer.h:80` says "thread-safe" |
| `MCJournalWriter.cfg` | `AppendOnly` (property) | `open` on a directory that has segments overwrites records (`journal_writer.cpp:72`); `journal_writer.h:53` says "Append-Only" |
| `MCJournalWriter.cfg` | `AllAckedReplayed` (invariant) | an acknowledged event behind a hole left by a killed process is not replayed (`journal_writer.cpp:122`); `replay_engine.h:35` says "Replays all events" |
| `MCEpochRcu.cfg` | `NoUseAfterFree` (invariant) | a section's load may precede its announcement, and what it read is deleted (`epoch_rcu.cpp:64`); `epoch_rcu.h:53` says "safely" |

`TypeOK` of the modules that have one, `NumbersUnique` of the writer and `EveryElementDelivered` of the SPSC queue hold
and can be added in the same way.

### Fairness

Weak fairness only, and only of threads that are inside a call or a loop: a producer that has claimed a
position goes on and the consumer keeps polling; `read_next` keeps looping; a worker keeps running, gets its mutex when
it is free, and a `stop` that can join does; a store buffer drains; a dispatch goes on. `hazard_pointers` also assumes
that readers leave and that the writer keeps calling `reclaim`, `forecasting` that the owner keeps calling
`decay_patterns`: without these calls nothing is ever deleted or forgotten. Of the dashboard
only the event loop is assumed to run (`dashboard_refresh`).
The mutexes are not fair, but the bounded callers leave them free in the end.

## Proofs

All theorems are for every value of the constants, from the assumptions named in the modules:

| Module | Theorems about | Inductive invariant |
|---|---|---|
| `ConcurrencyProofs` | `SpscQueue`, `HazardPointers` | `IInv`, `HInv` |
| `EpochRcuProofs` | `EpochRcu` | `EInv` |
| `EventProofs` | `MpscQueue`, `ReplayEngine` with `JournalReader` | `IInv`, `RInv` |
| `JournalWriterProofs` | `JournalWriter`: races of rollovers | `RaceInv` |
| `JournalOrderProofs` | `JournalWriter`: places and numbers | `PlaceInv`, `DiskInv`, `TurnInv` |
| `JournalAckProofs` | `JournalWriter`: acknowledged events | `AckInv` |
| `StatisticsProofs` | `AnalysisPipeline`, `Dashboard` | `PInv`, `DInv`, `GInv` |
| `EngineProofs` | `Forecasting`, `TierPipeline` | `FInv`, `TInv` |

Components whose proofs are in one module are independent: each theorem is about the specification it names (`Spec` of
the MPSC queue and of `Forecasting`, `ReaderSpec` of the replay, `TierSpec` of the tiers). The three modules of the
writer build on each other, and each invariant contains the one before.

**Rings**, for every number of producers and calls and every
capacity (a power of two, as the `static_assert`s demand; above one for the MPSC queue): type correctness, freedom from
data races, bounds of `approx_size`, truthful answers and the refinement of `BoundedFifo`; for the MPSC queue also that
the ring is never overrun and that a producer's elements arrive in order. The first lemmas say that positions less
than a capacity apart use different cells; nothing else looks into `%`.

For the MPSC queue the properties are not inductive: why a producer may write its cell depends on the sequence numbers
of all cells. `IInv` adds that every position of the window from the first one not freed onwards has a sequence number
that tells whether it is free, claimed or published (`CellInv`), that no number goes below its position (`LapInv`, which
makes a stale position fail the test), that claimed positions are distinct and in the window (`OwnerInv`), that a
producer whose exchange can succeed has seen a cell that is still free (`CasInv`), and that what was delivered is a
prefix of what was accepted (`DeliveredPrefix`). With capacity one this argument fails: freed and published cells have
the same number, and TLC refutes the refinement. For the SPSC queue `IInv` says that each cached index is at or behind
the true one and that what the producer believes to be in the ring never exceeds the capacity (`IndexInv`), and that the
cells between the indices hold the accepted elements not delivered (`CellInv`).

**Hazard pointers**: a slot has one owner, and a version whose protection was visible at the
second look is not deleted while it is used, for any number of readers, slots and versions. `HInv` says what the buffers
may hold (`Shape`), who owns a slot, pending stores included (`Exclusive`), that a protection has reached its
slot or is the last store waiting (`Announced`), that only replaced versions are retired or deleted (`Replaced`), and
that what a sound reader uses is in its slot, and in `protected_ptrs` once a scan that can delete it has passed (`Safe`).

**Epochs**, for any readers, writers, slots and calls: `ProtectedReads`, `DeletedOnce` and `ReclaimFreesAll`. A version
is current, about to be retired, in one retire list entry, in the hands of one reclaim, or deleted (`Places`). A reader
owns its slot and the stores on their way to it (`Ownership`), and its slot shows its epoch once its buffer has drained
(`Announcements`). The heart is `Bounds`: the version a reader holds is not retired under an epoch before the one the
reader announced, and if a reclaim's scan has passed the reader's slot, or was never to come to it, not under an epoch
before the bound of that reclaim either; what is collected is retired before the bound. `Quiet` follows a reclaim that
meets no active reader from its call on: all that was retired before the call stays listed, with an epoch below the
bound, until somebody collects it.

**Replay**, for any number of files and slots, any contents and any stated sizes: `read_next` returns valid records only
and never goes back, and returns none twice if all sizes are positive. If all sizes are the writer's, a replay that ends
well has dispatched all of `Replayed` and nothing but `PromisedRecords`, in order, and counted them. `RInv`
says where the reader can be (between two slots, or inside one), that with the writer's sizes everything a reader
must find before this position has been returned and nothing else (`OnTheWay`), and that this is complete at
the end. A load that fails moves `segment_index` on but may keep the old mapping (`PositionOK`), so position and file
number are two things.

**Writer**, for any number of threads and calls and any size of segment, whatever fails and whenever the process dies or
the power goes: `FaultOnlyInRaces`, `PlacesDisjoint`, `ReplayInSequence` and `AckedReplayed`. Each excuses some mishaps,
and its invariant promises something only as long as none of those has happened; each is proved in the order in which it
needs the others.
- `RaceInv`: a thread in a rollover has the lock, and until a race every append that holds a place holds one inside the
  mapped segment (`Inside`). While no segment is mapped the offset stays at or above its limit and sends every append to
  the lock: that the reset comes after the mapping is what makes a failed rollover harmless.
- `PlaceInv`: files are numbered up to the current segment and empty behind the offset (`Fresh`), places in use are
  distinct and below the offset (`Apart`), and each is empty or has the header of its own event (`Owned`).
- `DiskInv`: a file on the disk is the one in the page cache, or an older state of it (`Behind`), so that after a power
  failure nothing is there that was not written.
- `TurnInv`: numbers in the files grow with the places (`Increasing`), none is above the counter (`Counted`), and the
  number an append has drawn fits between those before and behind its place (`Turns`).
- `AckInv`: every segment that append has left is complete and synced (`Left`), the mapped one has a record header in
  every place handed out or an append that will put it there (`Filled`), and all but one being set up have their segment
  header (`Headed`). So what was acknowledged is found when the writer is closed or nobody is appending.

Assumed is that a segment has room for a record and that no thread is called `NoThread`; the bounds are any natural numbers.

**Statistics**: `BooksAgree` for any threads, objects, sizes and interleaving of events, resets and half-done
migrations. The lemmas say what one `record_allocation` or `record_free` does to books that agree; `PInv` adds that what
is pending or under way carries known tiers, sizes and processes. `DispatchSeesOneList` rests on `DInv`: the tokens
a dispatch has called are those of the matching subscribers it has passed, in their order in the list as it is now.

**Dashboard**: the plan with the best score fits its tier whatever usage was sampled (a plan over
capacity scores less than the NVMe plan), and a VRAM decision on statistics that are still current does not raise the
peak. `GInv` has the types, that the plans on display were made for the context on display, and what each fresh decision
promises.

**Forecasting**: `ForecastAccounting`, `PatternAccounting` and `RestoresOneSnapshot` for any objects, callers, decay
steps and threads that persist and restore at once, whenever the process dies. `FInv` says that the file holds lines of
the snapshot of the persist that truncated it last (`DiskOK`); that whoever writes a file that is not mixed is that persist
(`Writes`), and a load that is not torn has read only lines that are in the file now (`Reads`), so a truncation must
either tear it or come before it; and what a finished load holds of its snapshot (`LoadedFrom`). The one caller between
the cache test and the insertion is about to insert an object that has no entry (`AskersOK`), which is why the accounts
balance. Assumed of `Known`, the table the program starts from, and of `Junk` is that they are finite tables of patterns.

**Tiers**: `OneRequestPerObject`, `StopOwnsWorker` and `WorkConserved` for any objects, controllers and calls. `TInv` has
that `pending` is the set of queued objects (`PlacementOK`), who may join which worker (`LifecycleOK`), that a pass has
the optimizer's lock from its first task to its last (`PassOK`), and the two balances with the task or request that is
in a worker's hand (`OptimizerOK`, `PrefetchOK`).

The invariants of the rings were checked with TLC on small instances before they were proved.

Only model-checked: all liveness properties, since fairness and `ENABLED` are out of the prover's reach; and
`UnflaggedBooksExact` and `NoWastedSegments`, which sum or fold over data, and the prover has no induction to reason about
that.

Most leaves name their prover: Zenon for first-order steps, SMT where there is arithmetic. When tlapm
1.4.5 prepares an obligation for SMT, the time it takes grows with the SMT obligations it has already
prepared in the same module, and it gives up after 5 seconds whatever `SMTT` allows. A leaf added to a
long module should therefore go to Zenon if Zenon can prove it.

## Not modelled, and what follows for a reader

- The wrap-around of 64-bit cursors, epochs and counters. Processors with weaker ordering than x86-64.
- `EpochRcu`: several instances (they share the thread-local slot), nested sections (the inner exit ends the outer one),
  more readers than slots (they share slot 0, and `ProtectedReads` excludes it).
- `HazardPointers`: `retire` and `reclaim` from several threads at once (`retired_` has no lock). The scan's loads of
  `active` and `pointer` of one slot are one step.
- Journal: moving a writer or reader, failing `msync`, more than 999999 segments (file names no longer sort by number),
  the bytes of an event (`EventSerializer` copies a fixed-size struct). `read_next` reports a file it cannot load as the
  end of the journal; `Replayed` says so.
- `MpscQueue`: `dequeue` may answer "empty" while a later element is published. That is how the algorithm works.
- `AnalysisPipeline`: callbacks that subscribe or dispatch (the lock is not recursive). Every object is booked in RAM,
  since the factory (`event.h:115`) sets that tier and nothing changes it. Out-of-order events leave the books off, and
  two events of one object with the same timestamp may do so uncounted: `UnflaggedBooksExact` says when they are exact.
- `Forecasting`: other policies and repositories, rounding of the saved scores, latencies. `Junk` stands for what a torn
  load may yield; nothing is claimed of it but that the accounts stay balanced. A cut line or a torn load may end the
  process: `std::stoll` throws inside a `noexcept` function, modelled as a crash.
- `TierPipeline`: the destructors, costs and times. A task that is refused is added again by each pass; `WorkConserved`
  counts both. A request that is in the worker's hand is issued although it was cancelled. A `start` while a `stop`
  joins terminates the program; a second `stop` at that time returns before the worker has ended.
- `TierPlanning`: `update_policy`, `register_rule` and metrics. `plan_placement` compares with counters nothing changes.
- `Dashboard`: sockets, JSON text, the displayed prediction accuracy. The adapter's constructor names a member `twin`
  that the header calls `twin_`; the model reads it as the latter.
- Config, platform wrappers, value types, views and benchmarks have no protocol to check.
