---------------------------- MODULE EngineProofs ----------------------------
(***************************************************************************)
(* The engines that learn from the accesses and act on them.               *)
(*                                                                         *)
(* The counters of the learning and prediction engines and the pattern     *)
(* file, for any objects, any number of callers, any decay factors and any *)
(* time to live.                                                           *)
(*                                                                         *)
(* The optimizer, the prefetch engine and the placement queue they share,  *)
(* for any objects, any number of threads and any number of calls.         *)
(***************************************************************************)
EXTENDS Forecasting, TierPipeline, FiniteSetTheorems, TLAPS

(* Some of the lines of a table: of the copied one those written so far,   *)
(* of the written ones those read so far.                                  *)
PartOf(lines, copied) ==
  /\ IsTable(lines) /\ IsTable(copied)
  /\ DOMAIN lines \subseteq DOMAIN copied
  /\ \A o \in DOMAIN lines : lines[o] = copied[o]

(* What a load may make of a table that one persist wrote. *)
Cut(p) == [p EXCEPT !.counted = FALSE]
LoadedFrom(lines, saved, whole) ==
  /\ DOMAIN lines \subseteq DOMAIN saved
  /\ \A o \in DOMAIN lines : lines[o] \in {saved[o], Cut(saved[o])}
  /\ \A o, p \in DOMAIN lines : lines[o] # saved[o] /\ lines[p] # saved[p] => o = p
  /\ whole => lines = saved

DiskOK ==
  disk # NoFile =>
    /\ disk = [state |-> disk.state, lines |-> disk.lines, snapshot |-> disk.snapshot]
    /\ disk.state \in {"partial", "complete", "mixed"}
    /\ PartOf(disk.lines, disk.snapshot)
    /\ disk.state = "complete" => DOMAIN disk.lines = DOMAIN disk.snapshot

(* A file that is not mixed is written by the persist that truncated it,   *)
(* and read by loads that began after that.                                *)
Writes(c, d) == c.phase = "write" /\ d.state = "partial" => d.snapshot = c.snapshot
Reads(c, d) ==
  c.phase = "load" /\ ~ c.torn =>
    d # NoFile /\ d.state # "mixed" /\ d.snapshot = c.snapshot /\ PartOf(c.lines, d.lines)

PersistOK(c) ==
  /\ c = [phase |-> c.phase, snapshot |-> c.snapshot]
  /\ c.phase \in {"open", "write"}
  /\ IsTable(c.snapshot)

RestoreOK(c) ==
  /\ c = [phase |-> c.phase, lines |-> c.lines, whole |-> c.whole, torn |-> c.torn,
          snapshot |-> c.snapshot]
  /\ c.phase \in {"load", "merge"} /\ c.torn \in BOOLEAN
  /\ IsTable(c.lines)
  /\ c.phase = "merge" /\ ~ c.torn => LoadedFrom(c.lines, c.snapshot, c.whole)

CallOK(c, d) == (c = NoCall \/ PersistOK(c) \/ RestoreOK(c)) /\ Writes(c, d) /\ Reads(c, d)

CallsOK ==
  /\ DOMAIN fileCall = FileUsers
  /\ \A u \in FileUsers : CallOK(fileCall[u], disk)

FilesOK == DiskOK /\ CallsOK

TableOK ==
  /\ IsTable(pattern_db)
  /\ learned_patterns_count \in Nat /\ forgotten_patterns_count \in Nat
  /\ PatternAccounting

Questions == {NotAsking} \cup [phase : {"read"}, object : ObjectIds, tier : ObservedTiers]

Metrics ==
  [predictions_issued : Nat, correct_predictions : Nat, false_positives : Nat,
   false_negatives : Nat]

(* One caller at a time is inside get_prediction, about to issue a         *)
(* prediction for an object that has none.                                 *)
AskersOK ==
  /\ asking \in [Callers -> Questions]
  /\ \A c, e \in Callers : asking[c] # NotAsking /\ asking[e] # NotAsking => c = e
  /\ \A c \in Callers : asking[c] # NotAsking => asking[c].object \notin DOMAIN prediction_cache

CacheOK ==
  /\ IsFiniteSet(DOMAIN prediction_cache)
  /\ metrics \in Metrics /\ expired \in Nat
  /\ ForecastAccounting

FInv == TableOK /\ FilesOK /\ AskersOK /\ CacheOK

-----------------------------------------------------------------------------
(* learn_step makes a pattern of a pattern. *)
LEMMA LearnTyped ==
  ASSUME NEW p \in Patterns, NEW stride
  PROVE  learn_step(p, stride) \in Patterns
<1>1. HotAccesses \in Nat \ {0}
  BY LearningAssumption, Zenon
<1>2. /\ p.accesses \in 0 .. HotAccesses /\ p.moving \in BOOLEAN
      /\ p.confidence \in Nat /\ p.recency \in Nat /\ p.counted \in BOOLEAN
  BY Zenon DEF Patterns
<1>3. AtMost(p.accesses + 1, HotAccesses) \in 0 .. HotAccesses
  BY <1>1, <1>2 DEF AtMost
<1>4. AtMost(20, p.confidence + 2) \in Nat /\ Less(p.confidence, 1) \in Nat /\ 20 \in Nat
  BY <1>2 DEF AtMost, Less
<1>5. \A a \in 0 .. HotAccesses, m \in BOOLEAN, c \in Nat, r \in Nat, k \in BOOLEAN :
        [accesses |-> a, moving |-> m, confidence |-> c, recency |-> r, counted |-> k] \in Patterns
  BY Zenon DEF Patterns
<1> DEFINE m == IF p.accesses = 0 \/ stride = "repeated" THEN p.moving ELSE stride = "nonzero"
           c == IF p.accesses = 0 THEN p.confidence
                ELSE IF stride = "repeated" THEN AtMost(20, p.confidence + 2)
                ELSE Less(p.confidence, 1)
<1>6. m \in BOOLEAN
  BY <1>2, Zenon
<1>7. c \in Nat
  BY <1>2, <1>4, Zenon
<1> HIDE DEF m, c
<1>8. learn_step(p, stride) = [accesses |-> AtMost(p.accesses + 1, HotAccesses), moving |-> m,
                               confidence |-> c, recency |-> 20, counted |-> p.counted]
  BY Zenon DEF learn_step, m, c
<1>9. PICK a \in 0 .. HotAccesses : a = AtMost(p.accesses + 1, HotAccesses)
  BY <1>3, Zenon
<1>10. [accesses |-> a, moving |-> m, confidence |-> c, recency |-> 20, counted |-> p.counted] \in Patterns
  BY <1>2, <1>4, <1>5, <1>6, <1>7, Zenon
<1> QED BY <1>8, <1>9, <1>10, Zenon

(* So does decay. *)
LEMMA DecayTyped ==
  ASSUME NEW p \in Patterns, NEW d \in Decays
  PROVE  decay(p, d) \in Patterns
<1>1. p.confidence \in Nat /\ p.recency \in Nat /\ d \in Nat
  BY LearningAssumption, Zenon DEF Patterns
<1>2. Less(p.confidence, d) \in Nat /\ Less(p.recency, d) \in Nat
  BY <1>1 DEF Less
<1> QED BY <1>2, Zenon DEF decay, Patterns

(* map[o] = v adds a key if it was not there. *)
LEMMA PutAdds ==
  ASSUME NEW f, NEW o, NEW v, IsFiniteSet(DOMAIN f)
  PROVE  /\ IsFiniteSet(DOMAIN Put(f, o, v))
         /\ DOMAIN Put(f, o, v) = DOMAIN f \cup {o}
         /\ Put(f, o, v)[o] = v
         /\ \A x \in DOMAIN f : x # o => Put(f, o, v)[x] = f[x]
         /\ Cardinality(DOMAIN f) \in Nat
         /\ Cardinality(DOMAIN Put(f, o, v)) =
              IF o \in DOMAIN f THEN Cardinality(DOMAIN f) ELSE Cardinality(DOMAIN f) + 1
<1>1. DOMAIN Put(f, o, v) = DOMAIN f \cup {o}
  BY Zenon DEF Put
<1>2. /\ Put(f, o, v)[o] = v
      /\ \A x \in DOMAIN f : x # o => Put(f, o, v)[x] = f[x]
  BY Zenon DEF Put
<1>3. IsFiniteSet(DOMAIN f \cup {o})
      /\ Cardinality(DOMAIN f \cup {o}) =
           IF o \in DOMAIN f THEN Cardinality(DOMAIN f) ELSE Cardinality(DOMAIN f) + 1
  BY FS_AddElement, Zenon
<1>4. Cardinality(DOMAIN f) \in Nat
  BY FS_CardinalityType, Zenon
<1> QED BY <1>1, <1>2, <1>3, <1>4, Zenon

(* A table with one more pattern is a table. *)
LEMMA PutTable ==
  ASSUME NEW f, NEW o, NEW v \in Patterns, IsTable(f)
  PROVE  IsTable(Put(f, o, v))
<1>1. IsFiniteSet(DOMAIN Put(f, o, v))
  BY PutAdds, Zenon DEF IsTable
<1>2. f \in [DOMAIN f -> Patterns]
  BY Zenon DEF IsTable
<1>3. Put(f, o, v) \in [DOMAIN f \cup {o} -> Patterns]
  BY <1>2, Zenon DEF Put
<1>4. DOMAIN Put(f, o, v) = DOMAIN f \cup {o}
  BY Zenon DEF Put
<1> QED BY <1>1, <1>3, <1>4, Zenon DEF IsTable

(* So are two merged ones. *)
LEMMA PutAllTable ==
  ASSUME NEW f, NEW g, IsTable(f), IsTable(g)
  PROVE  IsTable(PutAll(f, g))
<1>1. /\ f \in [DOMAIN f -> Patterns] /\ g \in [DOMAIN g -> Patterns]
      /\ IsFiniteSet(DOMAIN f) /\ IsFiniteSet(DOMAIN g)
  BY Zenon DEF IsTable
<1>2. PutAll(f, g) \in [DOMAIN f \cup DOMAIN g -> Patterns]
  BY <1>1, Zenon DEF PutAll
<1>3. IsFiniteSet(DOMAIN f \cup DOMAIN g)
  BY <1>1, FS_Union, Zenon
<1>4. DOMAIN PutAll(f, g) = DOMAIN f \cup DOMAIN g
  BY Zenon DEF PutAll
<1> QED BY <1>2, <1>3, <1>4, Zenon DEF IsTable

(* Dropping some of the keys of a container. *)
LEMMA Dropping ==
  ASSUME NEW S, NEW T, IsFiniteSet(S), T \subseteq S
  PROVE  /\ IsFiniteSet(S \ T) /\ IsFiniteSet(T)
         /\ Cardinality(S) \in Nat /\ Cardinality(T) \in Nat /\ Cardinality(S \ T) \in Nat
         /\ Cardinality(S) = Cardinality(S \ T) + Cardinality(T)
<1>1. IsFiniteSet(T) /\ IsFiniteSet(S \ T)
  BY FS_Subset, Zenon
<1>2. Cardinality(S) \in Nat /\ Cardinality(T) \in Nat /\ Cardinality(S \ T) \in Nat
  BY <1>1, FS_CardinalityType, Zenon
<1>3. Cardinality(S \ T) = Cardinality(S) - Cardinality(S \cap T)
  BY FS_Difference, Zenon
<1>4. S \cap T = T
  BY Zenon
<1> QED BY <1>1, <1>2, <1>3, <1>4

(* The empty table, file and cache. *)
LEMMA EmptyTable ==
  /\ IsTable(NoPatterns) /\ DOMAIN NoPatterns = {} /\ Cardinality(DOMAIN NoPatterns) = 0
<1>1. DOMAIN NoPatterns = {}
  BY DEF NoPatterns
<1>2. IsFiniteSet({}) /\ Cardinality({}) = 0
  BY FS_EmptySet, Zenon
<1>3. NoPatterns \in [{} -> Patterns]
  BY DEF NoPatterns
<1> QED BY <1>1, <1>2, <1>3, Zenon DEF IsTable

-----------------------------------------------------------------------------
(* A thread that uses no file is bound to none. *)
LEMMA NoCallOK ==
  ASSUME NEW d
  PROVE  CallOK(NoCall, d)
<1>1. NoCall.phase = "none"
  BY DEF NoCall
<1>2. "none" # "write" /\ "none" # "load"
  OBVIOUS
<1> QED BY <1>1, <1>2, Zenon DEF CallOK, Writes, Reads

(* A process starts with what it knows and an empty cache. *)
LEMMA FInit == Init => FInv
<1> SUFFICES ASSUME Init PROVE FInv
  BY Zenon
<1>1. TableOK
  <2>1. IsTable(Known)
    BY LearningAssumption, Zenon
  <2>2. Cardinality(DOMAIN Known) \in Nat
    BY <2>1, FS_CardinalityType, Zenon DEF IsTable
  <2> QED BY <2>1, <2>2 DEF Init, LearningInit, TableOK, PatternAccounting
<1>2. FilesOK
  BY NoCallOK, Zenon DEF Init, LearningInit, FilesOK, DiskOK, CallsOK
<1>3. AskersOK
  <2>1. asking = [c \in Callers |-> NotAsking]
    BY Zenon DEF Init, PredictionInit
  <2> QED BY <2>1, Zenon DEF AskersOK, Questions
<1>4. CacheOK
  <2>1. prediction_cache = NoPatterns /\ metrics = NoMetrics /\ expired = 0
    BY Zenon DEF Init, PredictionInit, NoPatterns
  <2>2. NoMetrics \in Metrics
    BY Zenon DEF NoMetrics, Metrics
  <2> QED BY <2>1, <2>2, EmptyTable DEF CacheOK, ForecastAccounting, IsTable, NoMetrics
<1> QED BY <1>1, <1>2, <1>3, <1>4, Zenon DEF FInv

(* The prediction engine's part does not look at the table or the file. *)
LEMMA PredictionsApart ==
  ASSUME AskersOK, CacheOK, UNCHANGED predictionVars
  PROVE  AskersOK' /\ CacheOK'
  BY Zenon DEF predictionVars, AskersOK, CacheOK, ForecastAccounting

(* And the learning engine's part does not look at the cache. *)
LEMMA LearningApart ==
  ASSUME TableOK, FilesOK, UNCHANGED <<dbVars, fileVars, merged>>
  PROVE  TableOK' /\ FilesOK'
  BY Zenon DEF dbVars, fileVars, TableOK, PatternAccounting, FilesOK, DiskOK, CallsOK

(* The files stay as they are while the table changes. *)
LEMMA FilesApart ==
  ASSUME FilesOK, UNCHANGED fileVars
  PROVE  FilesOK'
  BY Zenon DEF fileVars, FilesOK, DiskOK, CallsOK

(* The table stays as it is while the files change. *)
LEMMA TableApart ==
  ASSUME TableOK, UNCHANGED <<dbVars, merged>>
  PROVE  TableOK'
  BY Zenon DEF dbVars, TableOK, PatternAccounting

(* learn_access adds a pattern for an object it did not know. *)
LEMMA LearnKeeps ==
  ASSUME TableOK, NEW o \in ObjectIds, Learn(o)
  PROVE  TableOK'
<1> DEFINE known == o \in DOMAIN pattern_db
           old == IF known THEN pattern_db[o] ELSE NewPattern
<1>1. PICK stride \in Strides(old) : pattern_db' = Put(pattern_db, o, learn_step(old, stride))
  BY Zenon DEF Learn, learn_access
<1>2. /\ learned_patterns_count' = learned_patterns_count + (IF known THEN 0 ELSE 1)
      /\ active_patterns_count' = Cardinality(DOMAIN pattern_db')
      /\ UNCHANGED <<forgotten_patterns_count, merged>>
  BY Zenon DEF Learn, learn_access, Count
<1>3. old \in Patterns
  <2>1. NewPattern \in Patterns
    BY LearningAssumption DEF NewPattern, Patterns
  <2> QED BY <2>1, Zenon DEF TableOK, IsTable
<1> HIDE DEF old
<1>4. learn_step(old, stride) \in Patterns
  BY <1>3, LearnTyped, Zenon
<1>5. PICK v \in Patterns : v = learn_step(old, stride)
  BY <1>4, Zenon
<1>6. IsTable(pattern_db')
  BY <1>1, <1>5, PutTable, Zenon DEF TableOK
<1>7. /\ Cardinality(DOMAIN pattern_db) \in Nat
      /\ Cardinality(DOMAIN pattern_db') =
           IF known THEN Cardinality(DOMAIN pattern_db) ELSE Cardinality(DOMAIN pattern_db) + 1
  BY <1>1, <1>5, PutAdds, Zenon DEF TableOK, IsTable
<1>8. PatternAccounting'
  BY <1>2, <1>7 DEF TableOK, PatternAccounting
<1> QED BY <1>2, <1>6, <1>8 DEF TableOK

(* decay_patterns counts what it drops. *)
LEMMA DecayKeeps ==
  ASSUME TableOK, NEW d \in Decays, Decay(d)
  PROVE  TableOK'
<1> DEFINE decayed == [o \in DOMAIN pattern_db |-> decay(pattern_db[o], d)]
<1>1. PICK forget \in SUBSET DOMAIN decayed :
        /\ pattern_db' = [o \in DOMAIN decayed \ forget |-> decayed[o]]
        /\ forgotten_patterns_count' = forgotten_patterns_count + Cardinality(forget)
        /\ active_patterns_count' = Cardinality(DOMAIN pattern_db')
        /\ UNCHANGED <<learned_patterns_count, merged>>
  BY Zenon DEF Decay, decay_patterns, Count
<1>2. IsFiniteSet(DOMAIN pattern_db) /\ pattern_db \in [DOMAIN pattern_db -> Patterns]
  BY Zenon DEF TableOK, IsTable
<1>3. decayed \in [DOMAIN pattern_db -> Patterns]
  BY <1>2, DecayTyped, Zenon
<1> HIDE DEF decayed
<1>4. DOMAIN pattern_db' = DOMAIN pattern_db \ forget /\ forget \subseteq DOMAIN pattern_db
  BY <1>1, <1>3, Zenon
<1>5. pattern_db' \in [DOMAIN pattern_db' -> Patterns]
  BY <1>1, <1>3, Zenon
<1>6. /\ IsFiniteSet(DOMAIN pattern_db') /\ Cardinality(forget) \in Nat
      /\ Cardinality(DOMAIN pattern_db) \in Nat /\ Cardinality(DOMAIN pattern_db') \in Nat
      /\ Cardinality(DOMAIN pattern_db) = Cardinality(DOMAIN pattern_db') + Cardinality(forget)
  BY <1>2, <1>4, Dropping, Zenon
<1>7. PatternAccounting'
  BY <1>1, <1>6 DEF TableOK, PatternAccounting
<1>8. IsTable(pattern_db')
  BY <1>5, <1>6, Zenon DEF IsTable
<1> QED BY <1>1, <1>6, <1>7, <1>8 DEF TableOK

(* reset and a crash leave nothing in the table. *)
LEMMA EmptiedOK ==
  ASSUME pattern_db' = NoPatterns, learned_patterns_count' = 0, forgotten_patterns_count' = 0,
         active_patterns_count' = 0
  PROVE  TableOK'
  BY EmptyTable DEF TableOK, PatternAccounting

(* A call stays in order when the file changes and still is the one the    *)
(* call writes or reads.                                                   *)
LEMMA OneCallChanges ==
  ASSUME CallsOK, NEW u \in FileUsers, NEW c, CallOK(c, disk),
         fileCall' = [fileCall EXCEPT ![u] = c], disk' = disk
  PROVE  CallsOK'
<1>1. DOMAIN fileCall' = FileUsers
  BY Zenon DEF CallsOK
<1>2. \A v \in FileUsers : fileCall'[v] = IF v = u THEN c ELSE fileCall[v]
  BY Zenon DEF CallsOK
<1> QED BY <1>1, <1>2, Zenon DEF CallsOK

(* The lines of a table, and one more of them. *)
LEMMA PartGrows ==
  ASSUME NEW f, NEW g, PartOf(f, g), NEW o \in DOMAIN g \ DOMAIN f
  PROVE  /\ PartOf(Put(f, o, g[o]), g)
         /\ \A e : PartOf(e, f) => PartOf(e, Put(f, o, g[o]))
<1>1. PICK v \in Patterns : v = g[o]
  BY Zenon DEF PartOf, IsTable
<1>2. /\ DOMAIN Put(f, o, v) = DOMAIN f \cup {o} /\ Put(f, o, v)[o] = v
      /\ \A x \in DOMAIN f : x # o => Put(f, o, v)[x] = f[x]
  BY Zenon DEF Put
<1>3. IsTable(Put(f, o, v))
  BY PutTable, Zenon DEF PartOf
<1> HIDE DEF Put
<1> QED BY <1>1, <1>2, <1>3, Zenon DEF PartOf

(* Each step of persist, whatever the other threads do with the file. *)
LEMMA PersistKeeps ==
  ASSUME TableOK, FilesOK, NEW u \in FileUsers, Persist(u)
  PROVE  FilesOK'
<1> DEFINE c == fileCall[u]
<1>1. CallOK(c, disk) /\ CallsOK /\ DiskOK
  BY Zenon DEF FilesOK, CallsOK
<1>2. ASSUME c.phase \in {"open", "write"}
      PROVE  c = [phase |-> c.phase, snapshot |-> c.snapshot] /\ IsTable(c.snapshot)
  BY <1>1, <1>2 DEF CallOK, PersistOK, RestoreOK, NoCall
<1> HIDE DEF c
<1>3. CASE PersistCopy(u)
  <2> DEFINE e == [phase |-> "open", snapshot |-> pattern_db]
  <2>1. e.phase = "open" /\ e.snapshot = pattern_db /\ e = [phase |-> e.phase, snapshot |-> e.snapshot]
    BY Zenon
  <2>2. fileCall' = [fileCall EXCEPT ![u] = e] /\ disk' = disk
    BY <1>3, Zenon DEF PersistCopy
  <2> HIDE DEF e
  <2>3. CallOK(e, disk)
    <3>1. e.phase # "write" /\ e.phase # "load"
      BY <2>1
    <3> QED BY <2>1, <3>1, Zenon DEF CallOK, PersistOK, Writes, Reads, TableOK
  <2> QED BY <1>1, <2>2, <2>3, OneCallChanges, Zenon DEF FilesOK, DiskOK
<1>4. CASE fileCall' = [fileCall EXCEPT ![u] = NoCall] /\ disk' = disk
  BY <1>1, <1>4, NoCallOK, OneCallChanges, Zenon DEF FilesOK, DiskOK
<1>5. CASE /\ c.phase = "open"
           /\ fileCall' = [v \in FileUsers |-> IF v = u THEN [c EXCEPT !.phase = "write"]
                                               ELSE Overtaken(fileCall[v])]
           /\ disk' = [state |-> IF Writers = {} THEN "partial" ELSE "mixed",
                       lines |-> << >>, snapshot |-> c.snapshot]
  <2>1. c = [phase |-> c.phase, snapshot |-> c.snapshot] /\ IsTable(c.snapshot)
    BY <1>2, <1>5, Zenon
  <2>2. DiskOK'
    <3>1. PartOf(<< >>, c.snapshot)
      BY <2>1, EmptyTable, Zenon DEF PartOf, NoPatterns
    <3>2. disk'.state \in {"partial", "mixed"} /\ disk'.lines = << >> /\ disk'.snapshot = c.snapshot
      BY <1>5, Zenon
    <3>3. disk' = [state |-> disk'.state, lines |-> disk'.lines, snapshot |-> disk'.snapshot]
      BY <1>5, Zenon
    <3>4. disk'.state # "complete"
      BY <3>2
    <3> QED BY <3>1, <3>2, <3>3, <3>4, Zenon DEF DiskOK
  <2>3. ASSUME NEW v \in FileUsers PROVE CallOK(fileCall'[v], disk')
    <3>1. CASE v = u
      <4>1. fileCall'[v] = [phase |-> "write", snapshot |-> c.snapshot]
        BY <1>5, <2>1, <3>1, Zenon
      <4>2. fileCall'[v].phase = "write" /\ fileCall'[v].snapshot = c.snapshot
        BY <4>1
      <4>3. disk'.snapshot = c.snapshot
        BY <1>5, Zenon
      <4>4. "write" # "load"
        OBVIOUS
      <4> QED BY <2>1, <4>1, <4>2, <4>3, <4>4, Zenon DEF CallOK, PersistOK, Writes, Reads
    <3>2. CASE v # u /\ fileCall[v].phase = "load"
      <4> DEFINE e == fileCall[v]
      <4>1. CallOK(e, disk) /\ fileCall'[v] = [e EXCEPT !.torn = TRUE] /\ e.phase = "load"
        BY <1>1, <1>5, <3>2, Zenon DEF CallsOK, Overtaken
      <4> HIDE DEF e
      <4>2. RestoreOK(e)
        BY <4>1 DEF CallOK, PersistOK, NoCall
      <4>3. fileCall'[v] = [phase |-> e.phase, lines |-> e.lines, whole |-> e.whole, torn |-> TRUE,
                            snapshot |-> e.snapshot]
        BY <4>1, <4>2, Zenon DEF RestoreOK
      <4>4. "load" # "write" /\ "load" # "merge"
        OBVIOUS
      <4> QED BY <4>1, <4>2, <4>3, <4>4, Zenon DEF CallOK, RestoreOK, Writes, Reads
    <3>3. CASE v # u /\ fileCall[v].phase # "load"
      <4> DEFINE e == fileCall[v]
      <4>1. CallOK(e, disk) /\ fileCall'[v] = e /\ e.phase # "load"
        BY <1>1, <1>5, <3>3, Zenon DEF CallsOK, Overtaken
      <4>2. e.phase = "write" => disk'.state = "mixed"
        BY <1>5, Zenon DEF Writers
      <4>3. "mixed" # "partial"
        OBVIOUS
      <4> HIDE DEF e
      <4> QED BY <4>1, <4>2, <4>3, Zenon DEF CallOK, Writes, Reads
    <3> QED BY <3>1, <3>2, <3>3, Zenon
  <2>4. DOMAIN fileCall' = FileUsers
    BY <1>5, Zenon
  <2> QED BY <2>2, <2>3, <2>4, Zenon DEF FilesOK, CallsOK
<1>6. CASE PersistLine(u)
  <2>1. /\ c.phase = "write" /\ disk.state = "partial" /\ fileCall' = fileCall
        /\ disk.snapshot = c.snapshot
    BY <1>1, <1>6, Zenon DEF PersistLine, CallOK, Writes, c
  <2>2. PICK o \in DOMAIN disk.snapshot \ DOMAIN disk.lines :
          disk' = [disk EXCEPT !.lines = Put(disk.lines, o, disk.snapshot[o])]
    BY <1>6, <2>1, Zenon DEF PersistLine, c
  <2>3. disk # NoFile
    BY <2>1 DEF NoFile
  <2>4. /\ disk = [state |-> disk.state, lines |-> disk.lines, snapshot |-> disk.snapshot]
        /\ PartOf(disk.lines, disk.snapshot)
    BY <1>1, <2>3, Zenon DEF DiskOK
  <2> DEFINE more == Put(disk.lines, o, disk.snapshot[o])
  <2>5. PartOf(more, disk.snapshot) /\ \A e : PartOf(e, disk.lines) => PartOf(e, more)
    BY <2>2, <2>4, PartGrows, Zenon
  <2> HIDE DEF more
  <2>6. disk' = [state |-> "partial", lines |-> more, snapshot |-> disk.snapshot]
    BY <2>1, <2>2, <2>4, Zenon DEF more
  <2>7. "partial" # "complete" /\ "partial" # "mixed" /\ disk' # NoFile
    BY <2>6 DEF NoFile
  <2>8. DiskOK'
    BY <2>5, <2>6, <2>7, Zenon DEF DiskOK
  <2>9. ASSUME NEW v \in FileUsers PROVE CallOK(fileCall'[v], disk')
    BY <1>1, <2>1, <2>5, <2>6, <2>7, Zenon DEF CallsOK, CallOK, Writes, Reads
  <2> QED BY <1>1, <2>1, <2>8, <2>9, Zenon DEF FilesOK, CallsOK
<1>7. CASE /\ c.phase = "write" /\ disk.state = "partial" /\ DOMAIN c.snapshot = DOMAIN disk.lines
           /\ disk' = [disk EXCEPT !.state = "complete"]
           /\ fileCall' = [fileCall EXCEPT ![u] = NoCall]
  <2>1. disk # NoFile /\ disk.snapshot = c.snapshot
    BY <1>1, <1>7 DEF NoFile, CallOK, Writes
  <2>2. /\ disk = [state |-> disk.state, lines |-> disk.lines, snapshot |-> disk.snapshot]
        /\ PartOf(disk.lines, disk.snapshot)
    BY <1>1, <2>1, Zenon DEF DiskOK
  <2>3. disk' = [state |-> "complete", lines |-> disk.lines, snapshot |-> disk.snapshot]
    BY <1>7, <2>2, Zenon
  <2>4. "complete" # "partial" /\ "complete" # "mixed" /\ disk' # NoFile
    BY <2>3 DEF NoFile
  <2>5. DiskOK'
    BY <1>7, <2>1, <2>2, <2>3, Zenon DEF DiskOK
  <2>6. /\ DOMAIN fileCall' = FileUsers
        /\ \A v \in FileUsers : fileCall'[v] = IF v = u THEN NoCall ELSE fileCall[v]
    BY <1>1, <1>7, Zenon DEF CallsOK
  <2>7. ASSUME NEW v \in FileUsers PROVE CallOK(fileCall'[v], disk')
    <3>1. CASE v = u
      BY <2>6, <3>1, NoCallOK, Zenon
    <3>2. CASE v # u
      BY <1>1, <2>3, <2>4, <2>6, <3>2, Zenon DEF CallsOK, CallOK, Writes, Reads
    <3> QED BY <3>1, <3>2, Zenon
  <2> QED BY <2>5, <2>6, <2>7, Zenon DEF FilesOK, CallsOK
<1> QED BY <1>3, <1>4, <1>5, <1>6, <1>7, Zenon DEF Persist, PersistOpen, PersistClose, c

(* A load that ends where the file ends has read lines of one persist. *)
LEMMA EndedLoad ==
  ASSUME NEW lines, NEW d, DiskOK, d = disk, d # NoFile, PartOf(lines, d.lines),
         DOMAIN lines = DOMAIN d.lines
  PROVE  /\ LoadedFrom(lines, d.snapshot, d.state = "complete")
         /\ \A o \in DOMAIN d.snapshot \ DOMAIN d.lines :
              /\ IsTable(Put(lines, o, Cut(d.snapshot[o])))
              /\ LoadedFrom(Put(lines, o, Cut(d.snapshot[o])), d.snapshot, FALSE)
<1>1. PartOf(d.lines, d.snapshot) /\ (d.state = "complete" => DOMAIN d.lines = DOMAIN d.snapshot)
  BY Zenon DEF DiskOK
<1>2. PartOf(lines, d.snapshot)
  BY <1>1, Zenon DEF PartOf
<1>3. DOMAIN lines = DOMAIN d.snapshot => lines = d.snapshot
  BY <1>2 DEF PartOf, IsTable
<1>4. LoadedFrom(lines, d.snapshot, d.state = "complete")
  BY <1>1, <1>2, <1>3, Zenon DEF LoadedFrom, PartOf
<1>5. ASSUME NEW o \in DOMAIN d.snapshot \ DOMAIN d.lines
      PROVE  /\ IsTable(Put(lines, o, Cut(d.snapshot[o])))
             /\ LoadedFrom(Put(lines, o, Cut(d.snapshot[o])), d.snapshot, FALSE)
  <2> DEFINE v == Cut(d.snapshot[o])
  <2>1. v \in Patterns
    <3>1. d.snapshot[o] \in Patterns
      BY <1>2, Zenon DEF PartOf, IsTable
    <3> QED BY <3>1, Zenon DEF Cut, Patterns
  <2>2. v = Cut(d.snapshot[o])
    OBVIOUS
  <2> HIDE DEF v
  <2>3. /\ DOMAIN Put(lines, o, v) = DOMAIN lines \cup {o} /\ Put(lines, o, v)[o] = v
        /\ \A x \in DOMAIN lines : x # o => Put(lines, o, v)[x] = lines[x]
    BY Zenon DEF Put
  <2>4. IsTable(Put(lines, o, v))
    BY <1>2, <2>1, PutTable, Zenon DEF PartOf
  <2>5. PICK more : more = Put(lines, o, v)
    BY Zenon
  <2>6. /\ DOMAIN more = DOMAIN lines \cup {o} /\ more[o] = v
        /\ \A x \in DOMAIN lines : more[x] = d.snapshot[x]
    BY <1>2, <2>3, <2>5, Zenon DEF PartOf
  <2>7. LoadedFrom(more, d.snapshot, FALSE)
    BY <1>2, <2>2, <2>6, Zenon DEF LoadedFrom, PartOf
  <2> QED BY <2>2, <2>4, <2>5, <2>7, Zenon
<1> QED BY <1>4, <1>5, Zenon

(* Each step of load_patterns, whatever the other threads do. *)
LEMMA LoadKeeps ==
  ASSUME FilesOK, NEW u \in FileUsers, Load(u)
  PROVE  FilesOK'
<1> DEFINE c == fileCall[u]
<1>1. CallOK(c, disk) /\ CallsOK /\ DiskOK
  BY Zenon DEF FilesOK, CallsOK
<1>2. ASSUME c.phase = "load" PROVE RestoreOK(c)
  BY <1>1, <1>2 DEF CallOK, PersistOK, NoCall
<1> HIDE DEF c
<1>3. disk' = disk
  BY Zenon DEF Load, RestoreOpen, RestoreLine, RestoreEnd, RestoreCutLine, RestoreTorn, Loaded
<1>4. ASSUME NEW e, CallOK(e, disk), fileCall' = [fileCall EXCEPT ![u] = e] PROVE FilesOK'
  BY <1>1, <1>3, <1>4, OneCallChanges, Zenon DEF FilesOK, DiskOK
<1>5. CASE RestoreOpen(u)
  <2> DEFINE e == [phase |-> "load", lines |-> << >>, whole |-> FALSE, torn |-> disk.state = "mixed",
                   snapshot |-> disk.snapshot]
  <2>1. fileCall' = [fileCall EXCEPT ![u] = e] /\ disk.state # "missing"
    BY <1>5, Zenon DEF RestoreOpen
  <2>2. disk # NoFile
    BY <2>1 DEF NoFile
  <2>3. PartOf(<< >>, disk.lines) /\ IsTable(<< >>)
    BY <1>1, <2>2, EmptyTable, Zenon DEF DiskOK, PartOf, NoPatterns
  <2>4. "load" # "write" /\ "load" # "merge"
    OBVIOUS
  <2>5. /\ e = [phase |-> e.phase, lines |-> e.lines, whole |-> e.whole, torn |-> e.torn,
                snapshot |-> e.snapshot]
        /\ e.phase = "load" /\ e.lines = << >> /\ e.torn \in BOOLEAN /\ e.snapshot = disk.snapshot
        /\ e.torn = (disk.state = "mixed")
    BY Zenon
  <2> HIDE DEF e
  <2>6. CallOK(e, disk)
    BY <2>2, <2>3, <2>4, <2>5, Zenon DEF CallOK, RestoreOK, Writes, Reads
  <2> QED BY <1>4, <2>1, <2>6, Zenon
<1>6. CASE RestoreLine(u)
  <2>1. c.phase = "load" /\ ~ c.torn
    BY <1>6, Zenon DEF RestoreLine, c
  <2>2. PICK o \in DOMAIN disk.lines \ DOMAIN c.lines :
          fileCall' = [fileCall EXCEPT ![u] = [c EXCEPT !.lines = Put(c.lines, o, disk.lines[o])]]
    BY <1>6, Zenon DEF RestoreLine, c
  <2> DEFINE more == Put(c.lines, o, disk.lines[o])
             e == [c EXCEPT !.lines = more]
  <2>3. PartOf(more, disk.lines)
    BY <1>1, <2>1, <2>2, PartGrows, Zenon DEF CallOK, Reads
  <2> HIDE DEF more
  <2>4. /\ e = [phase |-> e.phase, lines |-> e.lines, whole |-> e.whole, torn |-> e.torn,
                snapshot |-> e.snapshot]
        /\ e.phase = "load" /\ e.lines = more /\ ~ e.torn /\ e.snapshot = c.snapshot
        /\ e.torn \in BOOLEAN
    <3>1. c = [phase |-> c.phase, lines |-> c.lines, whole |-> c.whole, torn |-> c.torn,
               snapshot |-> c.snapshot]
      BY <1>2, <2>1, Zenon DEF RestoreOK
    <3>2. e = [phase |-> c.phase, lines |-> more, whole |-> c.whole, torn |-> c.torn,
               snapshot |-> c.snapshot]
      BY <3>1
    <3> HIDE DEF e
    <3> QED BY <1>2, <2>1, <3>2, Zenon DEF RestoreOK
  <2> HIDE DEF e
  <2>5. "load" # "write" /\ "load" # "merge"
    OBVIOUS
  <2>6. CallOK(e, disk)
    BY <1>1, <2>1, <2>3, <2>4, <2>5, Zenon DEF CallOK, RestoreOK, Writes, Reads, PartOf
  <2> QED BY <1>4, <2>2, <2>6, Zenon DEF e, more
<1>7. ASSUME NEW lines, IsTable(lines), c.phase = "load",
             c.torn \/ LoadedFrom(lines, c.snapshot, disk.state = "complete"), Loaded(u, lines)
      PROVE  FilesOK'
  <2> DEFINE e == [phase |-> "merge", lines |-> lines, whole |-> disk.state = "complete",
                   torn |-> c.torn, snapshot |-> c.snapshot]
  <2>1. fileCall' = [fileCall EXCEPT ![u] = e]
    BY <1>7, Zenon DEF Loaded, c
  <2>2. /\ e = [phase |-> e.phase, lines |-> e.lines, whole |-> e.whole, torn |-> e.torn,
                snapshot |-> e.snapshot]
        /\ e.phase = "merge" /\ e.lines = lines /\ e.torn = c.torn /\ e.snapshot = c.snapshot
        /\ e.whole = (disk.state = "complete")
    BY Zenon
  <2> HIDE DEF e
  <2>3. "merge" # "write" /\ "merge" # "load"
    OBVIOUS
  <2>4. CallOK(e, disk)
    BY <1>2, <1>7, <2>2, <2>3, Zenon DEF CallOK, RestoreOK, Writes, Reads
  <2> QED BY <1>4, <2>1, <2>4, Zenon
<1>8. ASSUME AtFileEnd(u)
      PROVE  /\ c.phase = "load" /\ ~ c.torn /\ disk # NoFile /\ disk.snapshot = c.snapshot
             /\ PartOf(c.lines, disk.lines) /\ DOMAIN c.lines = DOMAIN disk.lines
  BY <1>1, <1>8, Zenon DEF AtFileEnd, CallOK, Reads, c
<1>9. CASE RestoreEnd(u)
  <2>1. AtFileEnd(u) /\ Loaded(u, c.lines)
    BY <1>9, Zenon DEF RestoreEnd, c
  <2>2. LoadedFrom(c.lines, disk.snapshot, disk.state = "complete")
    BY <1>1, <1>8, <2>1, EndedLoad, Zenon
  <2> QED BY <1>7, <1>8, <2>1, <2>2, Zenon DEF PartOf
<1>10. CASE RestoreCutLine(u)
  <2>1. AtFileEnd(u) /\ disk.state = "partial"
    BY <1>10, Zenon DEF RestoreCutLine
  <2>2. PICK o \in DOMAIN disk.snapshot \ DOMAIN disk.lines :
          Loaded(u, Put(c.lines, o, Cut(disk.snapshot[o])))
    BY <1>10, Zenon DEF RestoreCutLine, Cut, c
  <2>3. /\ IsTable(Put(c.lines, o, Cut(disk.snapshot[o])))
        /\ LoadedFrom(Put(c.lines, o, Cut(disk.snapshot[o])), disk.snapshot, FALSE)
    BY <1>1, <1>8, <2>1, <2>2, EndedLoad, Zenon
  <2>4. (disk.state = "complete") = FALSE
    BY <2>1
  <2>5. LoadedFrom(Put(c.lines, o, Cut(disk.snapshot[o])), c.snapshot, disk.state = "complete")
    BY <1>8, <2>1, <2>3, <2>4, Zenon
  <2> QED BY <1>7, <1>8, <2>1, <2>2, <2>3, <2>5, Zenon
<1>11. CASE RestoreTorn(u)
  <2>1. c.phase = "load" /\ c.torn
    BY <1>11, Zenon DEF RestoreTorn, c
  <2>2. PICK junk \in Junk : Loaded(u, PutAll(c.lines, junk))
    BY <1>11, Zenon DEF RestoreTorn, c
  <2>3. IsTable(PutAll(c.lines, junk))
    BY <1>2, <2>1, LearningAssumption, PutAllTable, Zenon DEF RestoreOK
  <2> QED BY <1>7, <2>1, <2>2, <2>3, Zenon
<1> QED BY <1>5, <1>6, <1>9, <1>10, <1>11, Zenon DEF Load

(* restore merges what it loaded, whatever that is. *)
LEMMA MergeKeeps ==
  ASSUME TableOK, FilesOK, NEW u \in FileUsers, Merge(u)
  PROVE  TableOK' /\ FilesOK'
<1> DEFINE c == fileCall[u]
<1>1. CallOK(c, disk) /\ CallsOK /\ DiskOK
  BY Zenon DEF FilesOK, CallsOK
<1>2. c.phase = "merge"
  BY Zenon DEF Merge, RestoreMerge
<1>3. IsTable(c.lines)
  <2> HIDE DEF c
  <2> QED BY <1>1, <1>2 DEF CallOK, PersistOK, RestoreOK, NoCall
<1>4. /\ pattern_db' = PutAll(pattern_db, c.lines)
      /\ learned_patterns_count' = Cardinality(DOMAIN pattern_db')
      /\ active_patterns_count' = Cardinality(DOMAIN pattern_db')
      /\ fileCall' = [fileCall EXCEPT ![u] = NoCall] /\ disk' = disk
      /\ UNCHANGED forgotten_patterns_count /\ merged' = TRUE
  BY Zenon DEF Merge, RestoreMerge, Count
<1> HIDE DEF c
<1>5. IsTable(pattern_db')
  BY <1>3, <1>4, PutAllTable, Zenon DEF TableOK
<1>6. Cardinality(DOMAIN pattern_db') \in Nat
  BY <1>5, FS_CardinalityType, Zenon DEF IsTable
<1>7. TableOK'
  BY <1>4, <1>5, <1>6, Zenon DEF TableOK, PatternAccounting
<1>8. CallsOK'
  BY <1>1, <1>4, NoCallOK, OneCallChanges, Zenon
<1> QED BY <1>1, <1>4, <1>7, <1>8, Zenon DEF FilesOK, DiskOK

(* get_prediction drops the expired prediction before it reads on. *)
LEMMA AskKeeps ==
  ASSUME AskersOK, CacheOK, TableOK, NEW c \in Callers, NEW o \in ObjectIds, Ask(c, o)
  PROVE  AskersOK' /\ CacheOK'
<1> DEFINE gone == {o} \cap DOMAIN prediction_cache
<1>1. /\ DOMAIN prediction_cache' = DOMAIN prediction_cache \ gone
      /\ expired' = expired + Cardinality(gone) /\ metrics' = metrics
      /\ o \notin DOMAIN prediction_cache' /\ Unlocked
  BY Zenon DEF Ask, get_prediction_Read, Without
<1>2. CacheOK'
  <2>1. gone \subseteq DOMAIN prediction_cache /\ IsFiniteSet(DOMAIN prediction_cache)
    BY Zenon DEF CacheOK
  <2> HIDE DEF gone
  <2>2. /\ IsFiniteSet(DOMAIN prediction_cache \ gone) /\ Cardinality(gone) \in Nat
        /\ Cardinality(DOMAIN prediction_cache \ gone) \in Nat
        /\ Cardinality(DOMAIN prediction_cache) =
             Cardinality(DOMAIN prediction_cache \ gone) + Cardinality(gone)
    BY <2>1, Dropping, Zenon
  <2>3. /\ metrics.predictions_issued \in Nat /\ metrics.correct_predictions \in Nat
        /\ metrics.false_positives \in Nat /\ expired \in Nat
    BY Zenon DEF CacheOK, Metrics
  <2>4. expired' \in Nat
    BY <1>1, <2>2, <2>3
  <2>5. ForecastAccounting'
    BY <1>1, <2>2, <2>3 DEF CacheOK, ForecastAccounting
  <2> QED BY <1>1, <2>2, <2>4, <2>5, Zenon DEF CacheOK
<1>3. CASE UNCHANGED asking
  <2>1. AskersOK'
    BY <1>1, <1>3, Zenon DEF AskersOK, Unlocked
  <2> QED BY <1>2, <2>1, Zenon
<1>4. CASE \E tier \in predict(pattern_db[o]) :
             asking' = [asking EXCEPT ![c] = [phase |-> "read", object |-> o, tier |-> tier]]
  <2>1. PICK tier \in ObservedTiers :
          asking' = [asking EXCEPT ![c] = [phase |-> "read", object |-> o, tier |-> tier]]
    BY <1>4, Zenon DEF predict, ObservedTiers
  <2> DEFINE q == [phase |-> "read", object |-> o, tier |-> tier]
  <2>2. q \in Questions /\ q.object = o
    BY Zenon DEF Questions
  <2> HIDE DEF q
  <2>3. asking' = [asking EXCEPT ![c] = q]
    BY <2>1, Zenon DEF q
  <2>4. asking \in [Callers -> Questions] /\ \A e \in Callers : asking[e] = NotAsking
    BY <1>1, Zenon DEF AskersOK, Unlocked
  <2>5. asking'[c] = q /\ \A e \in Callers \ {c} : asking'[e] = NotAsking
    BY <2>3, <2>4, Zenon
  <2>6. asking' \in [Callers -> Questions]
    BY <2>2, <2>3, <2>4, Zenon
  <2> QED BY <1>1, <1>2, <2>2, <2>5, <2>6, Zenon DEF AskersOK
<1> QED BY <1>2, <1>3, <1>4, Zenon DEF Ask, get_prediction_Read

(* The prediction issued is new in the cache. *)
LEMMA AnswerKeeps ==
  ASSUME AskersOK, CacheOK, NEW c \in Callers, Answer(c)
  PROVE  AskersOK' /\ CacheOK'
<1>1. /\ asking[c].phase = "read" /\ metrics' = Counted(metrics, "predictions_issued")
      /\ asking' = [asking EXCEPT ![c] = NotAsking] /\ expired' = expired
  BY Zenon DEF Answer, get_prediction_Return
<1>2. PICK o, v : o = asking[c].object /\ prediction_cache' = Put(prediction_cache, o, v)
  BY Zenon DEF Answer, get_prediction_Return
<1>3. asking[c] # NotAsking
  BY <1>1 DEF NotAsking
<1>4. o \notin DOMAIN prediction_cache
  BY <1>2, <1>3, Zenon DEF AskersOK
<1>5. \A e \in Callers : asking'[e] = NotAsking
  BY <1>1, <1>3, Zenon DEF AskersOK
<1>6. AskersOK'
  <2>1. asking' \in [Callers -> Questions]
    BY <1>1, Zenon DEF AskersOK, Questions
  <2> QED BY <1>5, <2>1, Zenon DEF AskersOK
<1>7. /\ IsFiniteSet(DOMAIN prediction_cache') /\ Cardinality(DOMAIN prediction_cache) \in Nat
      /\ Cardinality(DOMAIN prediction_cache') = Cardinality(DOMAIN prediction_cache) + 1
  BY <1>2, <1>4, PutAdds, Zenon DEF CacheOK
<1>8. /\ metrics' \in Metrics /\ metrics'.predictions_issued = metrics.predictions_issued + 1
      /\ metrics'.correct_predictions = metrics.correct_predictions
      /\ metrics'.false_positives = metrics.false_positives
  BY <1>1 DEF CacheOK, Metrics, Counted
<1>9. /\ metrics.predictions_issued \in Nat /\ metrics.correct_predictions \in Nat
      /\ metrics.false_positives \in Nat /\ expired \in Nat
  BY Zenon DEF CacheOK, Metrics
<1>10. ForecastAccounting'
  BY <1>1, <1>7, <1>8, <1>9 DEF CacheOK, ForecastAccounting
<1> QED BY <1>1, <1>6, <1>7, <1>8, <1>10, Zenon DEF CacheOK

(* An observation takes its prediction from the cache and counts it. *)
LEMMA ObserveKeeps ==
  ASSUME AskersOK, CacheOK, NEW o \in ObjectIds, NEW tier \in ObservedTiers, Observe(o, tier)
  PROVE  AskersOK' /\ CacheOK'
<1>1. /\ DOMAIN prediction_cache' = DOMAIN prediction_cache \ {o}
      /\ asking' = asking /\ expired' = expired
  BY Zenon DEF Observe, register_access_observation, Without
<1>2. AskersOK'
  BY <1>1, Zenon DEF AskersOK
<1>3. /\ metrics.predictions_issued \in Nat /\ metrics.correct_predictions \in Nat
      /\ metrics.false_positives \in Nat /\ metrics.false_negatives \in Nat /\ expired \in Nat
  BY Zenon DEF CacheOK, Metrics
<1>4. /\ IsFiniteSet(DOMAIN prediction_cache') /\ Cardinality(DOMAIN prediction_cache) \in Nat
      /\ Cardinality(DOMAIN prediction_cache') \in Nat
      /\ Cardinality(DOMAIN prediction_cache) =
           Cardinality(DOMAIN prediction_cache') + (IF o \in DOMAIN prediction_cache THEN 1 ELSE 0)
  <2>1. /\ IsFiniteSet(DOMAIN prediction_cache \ {o})
        /\ Cardinality(DOMAIN prediction_cache \ {o}) =
             IF o \in DOMAIN prediction_cache THEN Cardinality(DOMAIN prediction_cache) - 1
             ELSE Cardinality(DOMAIN prediction_cache)
    BY FS_RemoveElement, Zenon DEF CacheOK
  <2>2. Cardinality(DOMAIN prediction_cache) \in Nat
        /\ Cardinality(DOMAIN prediction_cache \ {o}) \in Nat
    BY <2>1, FS_CardinalityType, Zenon DEF CacheOK
  <2> QED BY <1>1, <2>1, <2>2
<1>5. /\ metrics' \in Metrics /\ metrics'.predictions_issued = metrics.predictions_issued
      /\ metrics'.correct_predictions + metrics'.false_positives =
           metrics.correct_predictions + metrics.false_positives
             + (IF o \in DOMAIN prediction_cache THEN 1 ELSE 0)
  <2>1. CASE o \notin DOMAIN prediction_cache
    <3>1. metrics' = Counted(metrics, "false_negatives")
      BY <2>1, Zenon DEF Observe, register_access_observation
    <3> QED BY <1>3, <2>1, <3>1 DEF Counted, CacheOK, Metrics
  <2>2. CASE o \in DOMAIN prediction_cache
    <3>1. \/ metrics' = Counted(metrics, "correct_predictions")
          \/ metrics' = Counted(metrics, "false_positives")
      BY <2>2, Zenon DEF Observe, register_access_observation
    <3> QED BY <1>3, <2>2, <3>1 DEF Counted, CacheOK, Metrics
  <2> QED BY <2>1, <2>2, Zenon
<1>6. metrics'.correct_predictions \in Nat /\ metrics'.false_positives \in Nat
  BY <1>5, Zenon DEF Metrics
<1>7. ForecastAccounting'
  BY <1>1, <1>3, <1>4, <1>5, <1>6 DEF CacheOK, ForecastAccounting
<1> QED BY <1>1, <1>2, <1>3, <1>4, <1>5, <1>7, Zenon DEF CacheOK

(* Predictions dropped by invalidate_expired_predictions have expired. *)
LEMMA InvalidateKeeps ==
  ASSUME AskersOK, CacheOK, Invalidate
  PROVE  AskersOK' /\ CacheOK'
<1> DEFINE gone == {o \in DOMAIN prediction_cache : Expired(o)}
<1>1. /\ DOMAIN prediction_cache' = DOMAIN prediction_cache \ gone
      /\ expired' = expired + Cardinality(gone) /\ metrics' = metrics /\ asking' = asking
  BY Zenon DEF Invalidate, invalidate_expired_predictions, Without
<1>2. AskersOK'
  BY <1>1, Zenon DEF AskersOK
<1>3. gone \subseteq DOMAIN prediction_cache /\ IsFiniteSet(DOMAIN prediction_cache)
  BY Zenon DEF CacheOK
<1> HIDE DEF gone
<1>4. /\ IsFiniteSet(DOMAIN prediction_cache \ gone) /\ Cardinality(gone) \in Nat
      /\ Cardinality(DOMAIN prediction_cache \ gone) \in Nat
      /\ Cardinality(DOMAIN prediction_cache) =
           Cardinality(DOMAIN prediction_cache \ gone) + Cardinality(gone)
  BY <1>3, Dropping, Zenon
<1>5. /\ metrics.predictions_issued \in Nat /\ metrics.correct_predictions \in Nat
      /\ metrics.false_positives \in Nat /\ expired \in Nat
  BY Zenon DEF CacheOK, Metrics
<1>6. expired' \in Nat
  BY <1>1, <1>4, <1>5
<1>7. ForecastAccounting'
  BY <1>1, <1>4, <1>5 DEF CacheOK, ForecastAccounting
<1> QED BY <1>1, <1>2, <1>4, <1>6, <1>7, Zenon DEF CacheOK

(* Resetting the prediction engine, or starting it anew. *)
LEMMA ClearedOK ==
  ASSUME prediction_cache' = << >>, metrics' = NoMetrics, expired' = 0
  PROVE  CacheOK'
<1>1. NoMetrics \in Metrics
  BY Zenon DEF NoMetrics, Metrics
<1>2. prediction_cache' = NoPatterns
  BY Zenon DEF NoPatterns
<1> QED BY <1>1, <1>2, EmptyTable DEF CacheOK, ForecastAccounting, IsTable, NoMetrics

(* Only the file survives the process. *)
LEMMA DiesKeeps ==
  ASSUME FilesOK, ProcessDies
  PROVE  FInv'
<1>1. TableOK'
  BY EmptiedOK, Zenon DEF ProcessDies, LearningCrash
<1>2. FilesOK'
  BY NoCallOK, Zenon DEF ProcessDies, LearningCrash, FilesOK, DiskOK, CallsOK
<1>3. CacheOK'
  BY ClearedOK, Zenon DEF ProcessDies
<1>4. AskersOK'
  <2>1. asking' = [c \in Callers |-> NotAsking]
    BY Zenon DEF ProcessDies
  <2> QED BY <2>1, Zenon DEF AskersOK, Questions
<1> QED BY <1>1, <1>2, <1>3, <1>4, Zenon DEF FInv

(* FInv is inductive. *)
LEMMA FNext == FInv /\ [Next]_vars => FInv'
<1> SUFFICES ASSUME FInv, [Next]_vars PROVE FInv'
  BY Zenon
<1>0. TableOK /\ FilesOK /\ AskersOK /\ CacheOK
  BY Zenon DEF FInv
<1>1. ASSUME NEW o \in ObjectIds, Learn(o) PROVE FInv'
  <2>1. UNCHANGED <<fileVars, predictionVars>>
    BY <1>1, Zenon DEF Learn, learn_access
  <2> QED BY <1>0, <1>1, <2>1, LearnKeeps, FilesApart, PredictionsApart, Zenon DEF FInv
<1>2. ASSUME NEW d \in Decays, Decay(d) PROVE FInv'
  <2>1. UNCHANGED <<fileVars, predictionVars>>
    BY <1>2, Zenon DEF Decay, decay_patterns
  <2> QED BY <1>0, <1>2, <2>1, DecayKeeps, FilesApart, PredictionsApart, Zenon DEF FInv
<1>3. CASE ResetLearning
  <2>1. UNCHANGED <<fileVars, predictionVars>>
    BY <1>3, Zenon DEF ResetLearning, reset
  <2>2. TableOK'
    BY <1>3, EmptyTable, EmptiedOK, Zenon DEF ResetLearning, reset, Count
  <2> QED BY <1>0, <2>1, <2>2, FilesApart, PredictionsApart, Zenon DEF FInv
<1>4. ASSUME NEW u \in FileUsers, Persist(u) PROVE FInv'
  <2>1. UNCHANGED <<dbVars, merged, predictionVars>>
    BY <1>4, Zenon DEF Persist, PersistCopy, PersistOpen, PersistLine, PersistClose
  <2> QED BY <1>0, <1>4, <2>1, PersistKeeps, TableApart, PredictionsApart, Zenon DEF FInv
<1>5. ASSUME NEW u \in FileUsers, Load(u) PROVE FInv'
  <2>1. UNCHANGED <<dbVars, merged, predictionVars>>
    BY <1>5, Zenon DEF Load, RestoreOpen, RestoreLine, RestoreEnd, RestoreCutLine, RestoreTorn, Loaded
  <2> QED BY <1>0, <1>5, <2>1, LoadKeeps, TableApart, PredictionsApart, Zenon DEF FInv
<1>6. ASSUME NEW c \in Callers, NEW o \in ObjectIds, Ask(c, o) PROVE FInv'
  <2>1. UNCHANGED <<dbVars, fileVars, merged>>
    BY <1>6, Zenon DEF Ask
  <2> QED BY <1>0, <1>6, <2>1, AskKeeps, LearningApart, Zenon DEF FInv
<1>7. ASSUME NEW c \in Callers, Answer(c) PROVE FInv'
  <2>1. UNCHANGED <<dbVars, fileVars, merged>>
    BY <1>7, Zenon DEF Answer
  <2> QED BY <1>0, <1>7, <2>1, AnswerKeeps, LearningApart, Zenon DEF FInv
<1>8. ASSUME NEW o \in ObjectIds, NEW tier \in ObservedTiers, Observe(o, tier) PROVE FInv'
  <2>1. UNCHANGED <<dbVars, fileVars, merged>>
    BY <1>8, Zenon DEF Observe
  <2> QED BY <1>0, <1>8, <2>1, ObserveKeeps, LearningApart, Zenon DEF FInv
<1>9. CASE Invalidate
  <2>1. UNCHANGED <<dbVars, fileVars, merged>>
    BY <1>9, Zenon DEF Invalidate
  <2> QED BY <1>0, <1>9, <2>1, InvalidateKeeps, LearningApart, Zenon DEF FInv
<1>10. CASE ResetPredictions
  <2>1. UNCHANGED <<dbVars, fileVars, merged>> /\ Unlocked /\ asking' = asking
    BY <1>10, Zenon DEF ResetPredictions, reset_predictions
  <2>2. CacheOK'
    BY <1>10, ClearedOK, Zenon DEF ResetPredictions, reset_predictions
  <2>3. AskersOK'
    BY <1>0, <2>1, Zenon DEF AskersOK, Unlocked
  <2> QED BY <1>0, <2>1, <2>2, <2>3, LearningApart, Zenon DEF FInv
<1>11. CASE Tick \/ UNCHANGED vars
  <2>1. UNCHANGED <<dbVars, fileVars, merged, predictionVars>>
    BY <1>11, Zenon DEF Tick, vars
  <2> QED BY <1>0, <2>1, LearningApart, PredictionsApart, Zenon DEF FInv
<1>12. ASSUME NEW u \in FileUsers, Merge(u) PROVE FInv'
  BY <1>0, <1>12, MergeKeeps, PredictionsApart, Zenon DEF FInv, Merge
<1>13. ASSUME NEW u \in FileUsers, RestoreAborts(u) PROVE FInv'
  BY <1>0, <1>13, DiesKeeps, Zenon DEF RestoreAborts
<1>14. CASE Crash
  BY <1>0, <1>14, DiesKeeps, Zenon DEF Crash
<1> QED BY <1>1, <1>2, <1>3, <1>4, <1>5, <1>6, <1>7, <1>8, <1>9, <1>10, <1>11, <1>12, <1>13, <1>14,
           Zenon DEF Next

(* The tables, the file and the calls under way belong together in every   *)
(* state: any number of threads learn, ask, save and restore at once, and  *)
(* the process dies at any moment.                                         *)
THEOREM ForecastInvariance == Spec => []FInv
  BY FInit, FNext, PTL DEF Spec

(* Every prediction get_prediction counts as issued is observed, cached or *)
(* dropped as expired.                                                     *)
THEOREM PredictionsAccounted == Spec => []ForecastAccounting
<1>1. FInv => ForecastAccounting
  BY Zenon DEF FInv, CacheOK
<1> QED BY <1>1, ForecastInvariance, PTL

(* The counters of the learning engine agree with its table. *)
THEOREM PatternsAccounted == Spec => []PatternAccounting
<1>1. FInv => PatternAccounting
  BY Zenon DEF FInv, TableOK
<1> QED BY <1>1, ForecastInvariance, PTL

(* A restore that no truncation disturbs merges lines of one persist, all  *)
(* of them if it had finished, and at most one access_count is cut short.  *)
THEOREM RestoredFromOneSnapshot == Spec => []RestoresOneSnapshot
<1>1. FInv => RestoresOneSnapshot
  <2> SUFFICES ASSUME FInv, NEW u \in FileUsers,
                      fileCall[u].phase = "merge", ~ fileCall[u].torn
               PROVE  LoadedFrom(fileCall[u].lines, fileCall[u].snapshot, fileCall[u].whole)
    BY Zenon DEF RestoresOneSnapshot, LoadedFrom, Cut
  <2> DEFINE c == fileCall[u]
  <2>1. CallOK(c, disk)
    BY Zenon DEF FInv, FilesOK, CallsOK
  <2> HIDE DEF c
  <2>2. ASSUME c.phase = "merge", ~ c.torn PROVE LoadedFrom(c.lines, c.snapshot, c.whole)
    <3>1. RestoreOK(c)
      BY <2>1, <2>2 DEF CallOK, PersistOK, NoCall
    <3> QED BY <2>2, <3>1, Zenon DEF RestoreOK
  <2>3. c.phase = "merge" /\ ~ c.torn
    BY Zenon DEF c
  <2> QED BY <2>2, <2>3, Zenon DEF c
<1> QED BY <1>1, ForecastInvariance, PTL

-----------------------------------------------------------------------------
(* The placement queue and its workers. *)

(* Two sequences, one after the other. *)
LEMMA Joined ==
  ASSUME NEW S, NEW a \in Seq(S), NEW b \in Seq(S)
  PROVE  a \o b \in Seq(S) /\ Len(a \o b) = Len(a) + Len(b)
OBVIOUS

(* Appending is joining a sequence of one element. *)
LEMMA AppendJoins ==
  ASSUME NEW S, NEW s \in Seq(S), NEW e \in S
  PROVE  Append(s, e) = s \o <<e>>
<1>1. <<e>> \in Seq(S) /\ Len(<<e>>) = 1 /\ <<e>>[1] = e
  OBVIOUS
<1> DEFINE t == <<e>>
<1>2. t \in Seq(S) /\ Len(t) = 1 /\ t[1] = e
  BY <1>1, Zenon
<1> HIDE DEF t
<1>3. /\ Append(s, e) \in Seq(S) /\ Len(Append(s, e)) = Len(s) + 1
      /\ \A i \in 1 .. Len(s) + 1 : Append(s, e)[i] = IF i <= Len(s) THEN s[i] ELSE e
  OBVIOUS
<1>4. /\ s \o t \in Seq(S) /\ Len(s \o t) = Len(s) + 1
      /\ \A i \in 1 .. Len(s) + 1 : (s \o t)[i] = IF i <= Len(s) THEN s[i] ELSE e
  <2>0. s \o t \in Seq(S) /\ Len(s \o t) = Len(s) + Len(t)
    BY <1>2, Joined, Zenon
  <2>1. s \o t \in Seq(S) /\ Len(s \o t) = Len(s) + 1
    BY <1>2, <2>0, Zenon
  <2>2. \A i \in 1 .. Len(s) + Len(t) :
          (s \o t)[i] = IF i <= Len(s) THEN s[i] ELSE t[i - Len(s)]
    OBVIOUS
  <2>3. ASSUME NEW i \in 1 .. Len(s) + 1
        PROVE  (s \o t)[i] = IF i <= Len(s) THEN s[i] ELSE e
    <3>1. (s \o t)[i] = IF i <= Len(s) THEN s[i] ELSE t[i - Len(s)]
      BY <1>2, <2>2, Zenon
    <3>2. ~ (i <= Len(s)) => i - Len(s) = 1
      OBVIOUS
    <3> QED BY <1>2, <3>1, <3>2, Zenon
  <2> QED BY <2>1, <2>3, Zenon
<1>5. Append(s, e) = s \o t
  BY <1>3, <1>4
<1> QED BY <1>5, Zenon DEF t

Ids == Objects \cup {kNull}
Tasks == [object : Ids, target : {"ram", "vram"}]
Requests == [object : Ids, expires : BOOLEAN, none : {FALSE}]
Counters == [issued : Nat, cancelled : Nat, hits : Nat, misses : Nat]

(* The placement queue. *)
PlacementOK ==
  /\ queue \in Seq(Objects)
  /\ OneRequestPerObject

(* What start, stop and the workers keep: an engine that runs has a worker *)
(* that has not ended, and a worker that was told to stop is waited for by *)
(* one controller.                                                         *)
LifecycleOK ==
  /\ is_running \in [Engines -> BOOLEAN]
  /\ worker \in [Engines -> {"none", "loop", "work", "ended"}]
  /\ lock \in [Engines -> BOOLEAN]
  /\ joining \in [Controllers -> Engines \cup {"none"}]
  /\ \A e \in Engines : is_running[e] => worker[e] \in {"loop", "work"}
  /\ \A c \in Controllers : joining[c] # "none" =>
       worker[joining[c]] # "none" /\ ~ is_running[joining[c]]
  /\ \A c, d \in Controllers :
       joining[c] = joining[d] /\ joining[c] # "none" => c = d
  /\ \A e \in Engines : worker[e] # "none" /\ ~ is_running[e] =>
       \E c \in Controllers : joining[c] = e

(* A pass holds mutex_, and the worker is inside its loop as long as its   *)
(* pass lasts.                                                             *)
PassOK ==
  /\ turn \in Nat
  /\ turn # 0 => lock["optimizer"]
  /\ turn # 0 /\ passer = "worker" => worker["optimizer"] = "work"

OptimizerOK ==
  /\ IsFiniteSet(DOMAIN residency) /\ DOMAIN residency \subseteq Ids
  /\ migrations \in Seq(Tasks)
  /\ task_id_counter \in Nat /\ migrated \in Nat
  /\ TasksConserved

PrefetchOK ==
  /\ prefetch_queue \in Seq(Requests)
  /\ hand \in Requests \cup {NoRequest}
  /\ prefetch_ids \in Nat
  /\ prefetched \in Counters
  /\ RequestsConserved

TInv == PlacementOK /\ LifecycleOK /\ PassOK /\ OptimizerOK /\ PrefetchOK

-----------------------------------------------------------------------------
(* The engines as constructed. *)
LEMMA TInit == TierInit => TInv
<1> SUFFICES ASSUME TierInit PROVE TInv
  BY Zenon
<1>1. PlacementOK
  BY DEF TierInit, PlacementInit, PlacementOK, OneRequestPerObject
<1>2. LifecycleOK
  BY Zenon DEF TierInit, LifecycleInit, LifecycleOK, Engines
<1>3. PassOK
  BY Zenon DEF TierInit, OptimizerInit, PassOK
<1>4. OptimizerOK
  <2>1. DOMAIN residency = {}
    BY DEF TierInit, OptimizerInit
  <2>2. IsFiniteSet(DOMAIN residency)
    BY <2>1, FS_EmptySet, Zenon
  <2>3. migrations \in Seq(Tasks) /\ Len(migrations) = 0
    BY DEF TierInit, OptimizerInit
  <2> QED BY <2>1, <2>2, <2>3 DEF TierInit, OptimizerInit, OptimizerOK, TasksConserved
<1>5. PrefetchOK
  <2>1. prefetch_queue \in Seq(Requests) /\ Len(prefetch_queue) = 0
    BY DEF TierInit, PrefetchInit
  <2>2. hand = NoRequest /\ prefetch_ids = 0
    BY Zenon DEF TierInit, PrefetchInit
  <2>3. prefetched = [issued |-> 0, cancelled |-> 0, hits |-> 0, misses |-> 0]
    BY Zenon DEF TierInit, PrefetchInit
  <2>4. prefetched \in Counters /\ prefetched.issued = prefetched.hits /\ AllSettled = 0
    BY <2>3 DEF Counters, AllSettled
  <2> QED BY <2>1, <2>2, <2>4 DEF PrefetchOK, RequestsConserved
<1> QED BY <1>1, <1>2, <1>3, <1>4, <1>5, Zenon DEF TInv

-----------------------------------------------------------------------------
(* The placement queue. *)

(* A request that is not refused keeps the queue free of duplicates. *)
LEMMA EnqueueKeeps ==
  ASSUME PlacementOK, NEW o \in Ids, Enqueue(o)
  PROVE  PlacementOK'
<1>1. o \in Objects /\ o \notin pending_objects
  BY Zenon DEF Enqueue, Refused, Ids
<1>2. /\ queue' \in Seq(Objects) /\ Len(queue') = Len(queue) + 1 /\ Len(queue) \in Nat
      /\ DOMAIN queue = 1 .. Len(queue) /\ DOMAIN queue' = 1 .. Len(queue) + 1
      /\ \A i \in 1 .. Len(queue) : queue'[i] = queue[i]
      /\ queue'[Len(queue) + 1] = o
  BY <1>1 DEF PlacementOK, Enqueue
<1>3. pending_objects' = pending_objects \cup {o}
  BY Zenon DEF Enqueue
<1>4. \A i \in DOMAIN queue : queue[i] # o
  BY <1>1, Zenon DEF PlacementOK, OneRequestPerObject
<1>5. pending_objects' = {queue'[i] : i \in DOMAIN queue'}
  BY <1>2, <1>3 DEF PlacementOK, OneRequestPerObject
<1>6. ASSUME NEW i \in DOMAIN queue', NEW j \in DOMAIN queue', queue'[i] = queue'[j]
      PROVE  i = j
  BY <1>2, <1>4, <1>6 DEF PlacementOK, OneRequestPerObject
<1> QED BY <1>2, <1>5, <1>6, Zenon DEF PlacementOK, OneRequestPerObject

(* The head leaves the queue and the set of pending objects together. *)
LEMMA DequeueKeeps ==
  ASSUME PlacementOK, DequeueRequest
  PROVE  PlacementOK'
<1>1. /\ queue' \in Seq(Objects) /\ Len(queue') = Len(queue) - 1 /\ Len(queue) \in Nat \ {0}
      /\ DOMAIN queue = 1 .. Len(queue) /\ DOMAIN queue' = 1 .. Len(queue) - 1
      /\ \A i \in 1 .. Len(queue) - 1 : queue'[i] = queue[i + 1]
      /\ Head(queue) = queue[1]
  BY DEF PlacementOK, DequeueRequest
<1>2. pending_objects' = pending_objects \ {queue[1]}
  BY <1>1, Zenon DEF DequeueRequest
<1>3. \A i \in 2 .. Len(queue) : queue[i] # queue[1]
  BY <1>1 DEF PlacementOK, OneRequestPerObject
<1>4. ASSUME NEW o PROVE o \in pending_objects' <=> \E i \in DOMAIN queue' : o = queue'[i]
  <2>1. ASSUME o \in pending_objects' PROVE \E i \in DOMAIN queue' : o = queue'[i]
    <3>1. PICK i \in DOMAIN queue : o = queue[i]
      BY <1>2, <2>1, Zenon DEF PlacementOK, OneRequestPerObject
    <3>2. i # 1
      BY <1>2, <2>1, <3>1, Zenon
    <3>3. i - 1 \in DOMAIN queue' /\ queue'[i - 1] = o
      BY <1>1, <3>1, <3>2
    <3> QED BY <3>3, Zenon
  <2>2. ASSUME NEW i \in DOMAIN queue', o = queue'[i] PROVE o \in pending_objects'
    <3>1. i + 1 \in DOMAIN queue /\ o = queue[i + 1]
      BY <1>1, <2>2
    <3> QED BY <1>1, <1>2, <1>3, <3>1 DEF PlacementOK, OneRequestPerObject
  <2> QED BY <2>1, <2>2, Zenon
<1>5. pending_objects' = {queue'[i] : i \in DOMAIN queue'}
  BY <1>4, Zenon
<1>6. ASSUME NEW i \in DOMAIN queue', NEW j \in DOMAIN queue', queue'[i] = queue'[j]
      PROVE  i = j
  <2>1. i + 1 \in DOMAIN queue /\ j + 1 \in DOMAIN queue /\ queue[i + 1] = queue[j + 1]
    BY <1>1, <1>6
  <2> QED BY <1>1, <2>1 DEF PlacementOK, OneRequestPerObject
<1> QED BY <1>1, <1>5, <1>6, Zenon DEF PlacementOK, OneRequestPerObject

(* No request, no pending object. *)
LEMMA ClearKeeps ==
  ASSUME PlacementOK, ClearQueue
  PROVE  PlacementOK'
<1>1. queue' = << >> /\ pending_objects' = {}
  BY Zenon DEF ClearQueue
<1>2. queue' \in Seq(Objects) /\ DOMAIN queue' = {}
  BY <1>1
<1> QED BY <1>1, <1>2, Zenon DEF PlacementOK, OneRequestPerObject

(* Steps of the placement engine's own callers. *)
LEMMA PlacementKeeps ==
  ASSUME TInv, PlacementStep, UNCHANGED <<lifecycleVars, optimizerVars, prefetchVars>>
  PROVE  TInv'
<1>1. PlacementOK'
  <2>1. ASSUME NEW o \in Objects, EnqueueRequest(o) PROVE PlacementOK'
    BY <2>1, EnqueueKeeps, Zenon DEF EnqueueRequest, Ids, TInv
  <2> QED BY <2>1, DequeueKeeps, ClearKeeps, Zenon DEF PlacementStep, TInv
<1>2. LifecycleOK' /\ PassOK'
  BY Zenon DEF TInv, LifecycleOK, PassOK, lifecycleVars, optimizerVars
<1>3. OptimizerOK'
  BY Zenon DEF TInv, OptimizerOK, TasksConserved, optimizerVars
<1>4. PrefetchOK'
  BY Zenon DEF TInv, PrefetchOK, RequestsConserved, AllSettled, prefetchVars
<1> QED BY <1>1, <1>2, <1>3, <1>4, Zenon DEF TInv

-----------------------------------------------------------------------------
(* start and stop. *)

(* The worker is started with nobody waiting for it. *)
LEMMA StartKeeps ==
  ASSUME LifecycleOK, PassOK, NEW c \in Controllers, NEW e \in Engines,
         Start(c, e), UNCHANGED optimizerVars
  PROVE  LifecycleOK' /\ PassOK'
<1>1. /\ is_running' = [is_running EXCEPT ![e] = TRUE]
      /\ worker' = [worker EXCEPT ![e] = "loop"]
      /\ lock' = lock /\ joining' = joining /\ worker[e] = "none"
  BY Zenon DEF Start
<1>2. \A d \in Controllers : joining[d] # e
  BY <1>1, Zenon DEF LifecycleOK, Engines
<1>3. LifecycleOK'
  BY <1>1, <1>2, Zenon DEF LifecycleOK, Engines
<1>4. PassOK'
  BY <1>1, Zenon DEF LifecycleOK, PassOK, Engines, optimizerVars
<1> QED BY <1>3, <1>4, Zenon

(* The controller that clears is_running_ is the one that joins. *)
LEMMA StopFlagKeeps ==
  ASSUME LifecycleOK, PassOK, NEW c \in Controllers, NEW e \in Engines,
         StopFlag(c, e), UNCHANGED optimizerVars
  PROVE  LifecycleOK' /\ PassOK'
<1>1. /\ is_running' = [is_running EXCEPT ![e] = FALSE]
      /\ joining' = [joining EXCEPT ![c] = e]
      /\ lock' = lock /\ worker' = worker /\ is_running[e] /\ joining[c] = "none"
  BY Zenon DEF StopFlag, Ready
<1>2. \A d \in Controllers : joining[d] # e
  BY <1>1, ZenonT(30), SMT DEF LifecycleOK, Engines
<1>3. LifecycleOK'
  BY <1>1, <1>2, ZenonT(30), SMT DEF LifecycleOK, Engines
<1>4. PassOK'
  BY <1>1, Zenon DEF PassOK, optimizerVars
<1> QED BY <1>3, <1>4, Zenon

(* A join takes the worker of a stopped engine away. *)
LEMMA StopJoinKeeps ==
  ASSUME LifecycleOK, PassOK, NEW c \in Controllers,
         StopJoin(c), UNCHANGED optimizerVars
  PROVE  LifecycleOK' /\ PassOK'
<1> DEFINE e == joining[c]
<1>1. /\ e \in Engines /\ worker[e] = "ended"
      /\ worker' = [worker EXCEPT ![e] = "none"]
      /\ joining' = [joining EXCEPT ![c] = "none"]
      /\ lock' = lock /\ is_running' = is_running
  BY DEF StopJoin, LifecycleOK
<1>2. ~ is_running[e] /\ \A d \in Controllers : joining[d] = e => d = c
  BY <1>1, Zenon DEF LifecycleOK, Engines
<1> HIDE DEF e
<1>3. LifecycleOK'
  BY <1>1, <1>2, ZenonT(30), SMT DEF LifecycleOK, Engines
<1>4. PassOK'
  BY <1>1, Zenon DEF LifecycleOK, PassOK, Engines, optimizerVars
<1> QED BY <1>3, <1>4, Zenon

(* A worker that is told to stop ends, and waits for its join. *)
LEMMA WorkerTestKeeps ==
  ASSUME LifecycleOK, PassOK, NEW e \in Engines, WorkerTest(e),
         UNCHANGED <<turn, passer>>
  PROVE  LifecycleOK' /\ PassOK'
<1>1. /\ worker[e] = "loop"
      /\ worker' = [worker EXCEPT ![e] = IF is_running[e] THEN "work" ELSE "ended"]
      /\ lock' = lock /\ is_running' = is_running /\ joining' = joining
  BY Zenon DEF WorkerTest
<1>2. LifecycleOK'
  BY <1>1, Zenon DEF LifecycleOK, Engines
<1>3. PassOK'
  BY <1>1, Zenon DEF LifecycleOK, PassOK, Engines
<1> QED BY <1>2, <1>3, Zenon

(* A turn of the prefetch worker leads back to its test. *)
LEMMA NextTurnKeeps ==
  ASSUME LifecycleOK, PassOK, Working, NextTurn, UNCHANGED <<turn, passer>>
  PROVE  LifecycleOK' /\ PassOK'
<1>1. /\ worker["prefetch"] = "work"
      /\ worker' = [worker EXCEPT !["prefetch"] = "loop"]
      /\ lock' = lock /\ is_running' = is_running /\ joining' = joining
  BY Zenon DEF NextTurn, Working
<1>2. LifecycleOK'
  BY <1>1, Zenon DEF LifecycleOK, Engines
<1>3. PassOK'
  BY <1>1, Zenon DEF LifecycleOK, PassOK, Engines
<1> QED BY <1>2, <1>3, Zenon

(* Steps of the controllers. *)
LEMMA ControlKeeps ==
  ASSUME TInv, ControlStep, UNCHANGED <<placementVars, clientCalls, optimizerVars, prefetchVars>>
  PROVE  TInv'
<1>1. LifecycleOK' /\ PassOK'
  <2>1. ASSUME NEW c \in Controllers, NEW e \in Engines, StartTerminates(c, e)
        PROVE  LifecycleOK' /\ PassOK'
    BY <2>1, Zenon DEF TInv, StartTerminates, LifecycleOK, PassOK, optimizerVars
  <2> QED BY <2>1, StartKeeps, StopFlagKeeps, StopJoinKeeps, Zenon DEF ControlStep, TInv
<1>2. PlacementOK'
  BY Zenon DEF TInv, PlacementOK, OneRequestPerObject, placementVars
<1>3. OptimizerOK'
  BY Zenon DEF TInv, OptimizerOK, TasksConserved, optimizerVars
<1>4. PrefetchOK'
  BY Zenon DEF TInv, PrefetchOK, RequestsConserved, AllSettled, prefetchVars
<1> QED BY <1>1, <1>2, <1>3, <1>4, Zenon DEF TInv

-----------------------------------------------------------------------------
(* The optimizer. *)

(* The rest of a sequence when an element is taken out. *)
LEMMA ErasedShortens ==
  ASSUME NEW S, NEW s \in Seq(S), NEW i \in DOMAIN s
  PROVE  Erased(s, i) \in Seq(S) /\ Len(Erased(s, i)) = Len(s) - 1
<1>1. i \in 1 .. Len(s) /\ Len(s) \in Nat
  OBVIOUS
<1> DEFINE a == SubSeq(s, 1, i - 1)
           b == SubSeq(s, i + 1, Len(s))
<1>2. a \in Seq(S) /\ Len(a) = i - 1
  BY <1>1
<1>3. b \in Seq(S) /\ Len(b) = Len(s) - i
  BY <1>1
<1>4. Erased(s, i) = a \o b
  BY Zenon DEF Erased
<1> HIDE DEF a, b
<1>5. a \o b \in Seq(S) /\ Len(a \o b) = Len(a) + Len(b)
  BY <1>2, <1>3, Joined, Zenon
<1>6. Len(a) + Len(b) = Len(s) - 1
  BY <1>1, <1>2, <1>3
<1> QED BY <1>4, <1>5, <1>6, Zenon

(* An access adds its object to the map. *)
LEMMA RecordAccessKeeps ==
  ASSUME TInv, NEW o \in Ids, NEW tier \in Tiers, RecordAccess(o, tier)
  PROVE  OptimizerOK'
<1>1. DOMAIN residency' = DOMAIN residency \cup {o}
  BY Zenon DEF RecordAccess
<1>2. IsFiniteSet(DOMAIN residency') /\ DOMAIN residency' \subseteq Ids
  BY <1>1, FS_AddElement, Zenon DEF TInv, OptimizerOK
<1> QED BY <1>2, Zenon DEF RecordAccess, TInv, OptimizerOK, TasksConserved

(* A pass numbers each task it makes. *)
LEMMA PassBeginKeeps ==
  ASSUME TInv, NEW by \in {"worker", "caller"}, PassBegin(by)
  PROVE  OptimizerOK' /\ LifecycleOK' /\ PassOK'
<1> DEFINE due == {o \in DOMAIN residency : NeedsMigration(residency'[o])}
           made(order) == [i \in DOMAIN order |-> Task(order[i], residency'[order[i]])]
<1>1. DOMAIN residency' = DOMAIN residency
  BY Zenon DEF PassBegin
<1>2. IsFiniteSet(due) /\ Cardinality(due) \in Nat /\ due \subseteq Ids
  BY FS_Subset, FS_CardinalityType, Zenon DEF TInv, OptimizerOK
<1>3. PICK order \in Listings(due) :
        /\ migrations' = migrations \o made(order)
        /\ task_id_counter' = task_id_counter + Len(order)
  BY Zenon DEF PassBegin
<1>4. order \in [1 .. Cardinality(due) -> due]
  BY Zenon DEF Listings
<1> HIDE DEF due
<1>5. order \in Seq(Ids) /\ Len(order) \in Nat
  BY <1>2, <1>4
<1>6. made(order) \in Seq(Tasks) /\ Len(made(order)) = Len(order)
  <2>1. \A i \in 1 .. Len(order) : Task(order[i], residency'[order[i]]) \in Tasks
    BY <1>5 DEF Task, Tasks
  <2> QED BY <1>5, <2>1
<1> HIDE DEF made
<1>7. migrations' \in Seq(Tasks) /\ Len(migrations') = Len(migrations) + Len(order)
      /\ Len(migrations) \in Nat
  <2>1. migrations \in Seq(Tasks)
    BY Zenon DEF TInv, OptimizerOK
  <2>2. /\ migrations \o made(order) \in Seq(Tasks)
        /\ Len(migrations \o made(order)) = Len(migrations) + Len(made(order))
    BY <1>6, <2>1
  <2> QED BY <1>3, <1>6, <2>1, <2>2
<1>8. OptimizerOK'
  <2>1. migrated' = migrated
    BY Zenon DEF PassBegin
  <2> QED BY <1>1, <1>3, <1>5, <1>7, <2>1 DEF TInv, OptimizerOK, TasksConserved
<1>9. /\ lock' = [lock EXCEPT !["optimizer"] = TRUE] /\ turn' = 1 /\ passer' = by
      /\ UNCHANGED <<is_running, worker, joining>>
      /\ by = "worker" => worker["optimizer"] = "work"
  BY Zenon DEF PassBegin
<1>10. LifecycleOK'
  BY <1>9, Zenon DEF TInv, LifecycleOK, Engines
<1>11. PassOK'
  BY <1>9, Zenon DEF TInv, PassOK, LifecycleOK, Engines
<1> QED BY <1>8, <1>10, <1>11, Zenon

(* A task that is accepted leaves the list and is counted. *)
LEMMA TaskDoneKeeps ==
  ASSUME TInv, TaskDone
  PROVE  PlacementOK' /\ OptimizerOK' /\ LifecycleOK' /\ PassOK'
<1>1. migrations[turn] \in Tasks /\ migrations[turn].object \in Ids
  <2>1. migrations \in Seq(Tasks) /\ turn \in DOMAIN migrations
    BY Zenon DEF TInv, OptimizerOK, TaskDone
  <2>2. migrations[turn] \in Tasks
    BY <2>1
  <2> QED BY <2>2, Zenon DEF Tasks
<1>2. PlacementOK'
  BY <1>1, EnqueueKeeps, Zenon DEF TInv, TaskDone
<1>3. migrations' \in Seq(Tasks) /\ Len(migrations') = Len(migrations) - 1
      /\ Len(migrations) \in Nat
  BY ErasedShortens DEF TInv, OptimizerOK, TaskDone
<1>4. DOMAIN residency' = DOMAIN residency
  BY Zenon DEF TaskDone
<1>5. OptimizerOK'
  BY <1>3, <1>4 DEF TInv, OptimizerOK, TasksConserved, TaskDone
<1>6. LifecycleOK' /\ PassOK'
  BY Zenon DEF TInv, LifecycleOK, PassOK, TaskDone, lifecycleVars
<1> QED BY <1>2, <1>5, <1>6, Zenon

(* The end of a pass gives the mutex and the worker back. *)
LEMMA PassEndKeeps ==
  ASSUME TInv, PassEnd
  PROVE  LifecycleOK' /\ PassOK'
<1>1. /\ lock' = [lock EXCEPT !["optimizer"] = FALSE] /\ turn' = 0 /\ turn # 0
      /\ UNCHANGED <<is_running, joining>>
      /\ worker' = IF passer = "worker" THEN [worker EXCEPT !["optimizer"] = "loop"] ELSE worker
  <2>1. Len(migrations) \in Nat
    BY DEF TInv, OptimizerOK
  <2> QED BY <2>1 DEF PassEnd
<1>2. CASE passer = "worker"
  <2>1. worker["optimizer"] = "work"
    BY <1>1, <1>2, Zenon DEF TInv, PassOK
  <2> QED BY <1>1, <1>2, <2>1, Zenon DEF TInv, LifecycleOK, PassOK, Engines
<1>3. CASE passer # "worker"
  BY <1>1, <1>3, Zenon DEF TInv, LifecycleOK, PassOK, Engines
<1> QED BY <1>2, <1>3, Zenon

(* Steps of the optimizer. *)
LEMMA OptimizerKeeps ==
  ASSUME TInv, OptimizerStep, UNCHANGED prefetchVars
  PROVE  TInv'
<1>1. PrefetchOK'
  BY Zenon DEF TInv, PrefetchOK, RequestsConserved, AllSettled, prefetchVars
<1>2. ASSUME UNCHANGED placementVars PROVE PlacementOK'
  BY <1>2, Zenon DEF TInv, PlacementOK, OneRequestPerObject, placementVars
<1>3. ASSUME NEW o \in Ids, NEW tier \in Tiers, RecordAccess(o, tier)
      PROVE  PlacementOK' /\ OptimizerOK' /\ LifecycleOK' /\ PassOK'
  <2>1. UNCHANGED lifecycleVars
    BY <1>3, Zenon DEF RecordAccess
  <2>2. LifecycleOK'
    BY <2>1, Zenon DEF TInv, LifecycleOK, lifecycleVars
  <2>3. PassOK'
    BY <1>3, <2>1, Zenon DEF TInv, PassOK, RecordAccess, lifecycleVars
  <2>4. OptimizerOK'
    BY <1>3, RecordAccessKeeps, Zenon
  <2> QED BY <1>2, <1>3, <2>2, <2>3, <2>4, Zenon DEF RecordAccess
<1>4. ASSUME NEW by \in {"worker", "caller"}, PassBegin(by)
      PROVE  PlacementOK' /\ OptimizerOK' /\ LifecycleOK' /\ PassOK'
  BY <1>2, <1>4, PassBeginKeeps, Zenon DEF PassBegin
<1>5. CASE TaskRefused
  <2>1. turn' \in Nat /\ turn # 0
    BY <1>5, SMTT(30) DEF TInv, PassOK, OptimizerOK, TaskRefused
  <2>2. LifecycleOK' /\ PassOK'
    BY <1>5, <2>1, Zenon DEF TInv, LifecycleOK, PassOK, TaskRefused, lifecycleVars
  <2>3. OptimizerOK'
    BY <1>5, Zenon DEF TInv, OptimizerOK, TasksConserved, TaskRefused
  <2> QED BY <1>1, <1>2, <1>5, <2>2, <2>3, Zenon DEF TaskRefused, TInv
<1>6. CASE PassEnd
  <2>1. OptimizerOK'
    BY <1>6, Zenon DEF TInv, OptimizerOK, TasksConserved, PassEnd
  <2> QED BY <1>1, <1>2, <1>6, <2>1, PassEndKeeps, Zenon DEF PassEnd, TInv
<1>7. CASE OptimizerLoop
  <2>1. OptimizerOK'
    BY <1>7, Zenon DEF TInv, OptimizerOK, TasksConserved, OptimizerLoop, optimizerVars
  <2>2. LifecycleOK' /\ PassOK'
    BY <1>7, WorkerTestKeeps, Zenon DEF TInv, OptimizerLoop, optimizerVars, Engines
  <2> QED BY <1>1, <1>2, <1>7, <2>1, <2>2, Zenon DEF OptimizerLoop, TInv
<1> QED BY <1>1, <1>3, <1>4, <1>5, <1>6, <1>7, TaskDoneKeeps, Zenon DEF OptimizerStep, PassStep, Ids, TInv

-----------------------------------------------------------------------------
(* The prefetch engine. *)

(* A request is not the mark of an empty hand. *)
LEMMA RequestShape ==
  /\ \A r \in Requests : r # NoRequest /\ r.object \in Ids
  /\ \A o \in Ids : \A x \in BOOLEAN : Request(o, x) \in Requests
<1>1. ASSUME NEW r \in Requests PROVE r.object \in Ids /\ r.none = FALSE
  BY Zenon DEF Requests
<1>2. NoRequest.none = TRUE
  BY Zenon DEF NoRequest
<1>3. ASSUME NEW o \in Ids, NEW x \in BOOLEAN PROVE Request(o, x) \in Requests
  BY <1>3, Zenon DEF Request, Requests
<1> QED BY <1>1, <1>2, <1>3, Zenon

(* An empty hand has nothing that expires. *)
LEMMA NoRequestKept == ~ NoRequest.expires
BY Zenon DEF NoRequest

(* The counters when n requests are settled: cancelled, missed or hit. *)
LEMMA CountersAdd ==
  ASSUME PrefetchOK, NEW n \in Nat,
         NEW p, \/ p = [prefetched EXCEPT !.cancelled = @ + n]
                \/ p = [prefetched EXCEPT !.misses = @ + n]
                \/ p = [prefetched EXCEPT !.issued = @ + n, !.hits = @ + n]
  PROVE  /\ p \in Counters
         /\ p.cancelled + p.hits + p.misses = AllSettled + n /\ AllSettled \in Nat
         /\ p.issued = p.hits
<1>1. prefetched \in Counters /\ prefetched.issued = prefetched.hits
  BY Zenon DEF PrefetchOK, RequestsConserved
<1>2. CASE p = [prefetched EXCEPT !.cancelled = @ + n]
  BY <1>1, <1>2 DEF Counters, AllSettled
<1>3. CASE p = [prefetched EXCEPT !.misses = @ + n]
  BY <1>1, <1>3 DEF Counters, AllSettled
<1>4. CASE p = [prefetched EXCEPT !.issued = @ + n, !.hits = @ + n]
  <2>1. /\ p.cancelled = prefetched.cancelled /\ p.misses = prefetched.misses
        /\ p.issued = prefetched.issued + n /\ p.hits = prefetched.hits + n
    BY <1>1, <1>4, Zenon DEF Counters
  <2>2. p \in Counters
    <3> DEFINE q == [prefetched EXCEPT !.issued = @ + n]
    <3>1. q \in Counters
      BY <1>1 DEF Counters
    <3>2. p = [q EXCEPT !.hits = @ + n]
      BY <1>1, <1>4, ZenonT(30) DEF Counters
    <3> HIDE DEF q
    <3> QED BY <3>1, <3>2 DEF Counters
  <2> QED BY <1>1, <2>1, <2>2 DEF Counters, AllSettled
<1> QED BY <1>2, <1>3, <1>4, Zenon

(* A settled request leaves the hand and is counted. *)
LEMMA SettledKeeps ==
  ASSUME PrefetchOK, hand # NoRequest, NEW field \in {"cancelled", "misses"}, Settled(field)
  PROVE  PrefetchOK'
<1>1. /\ hand' = NoRequest /\ prefetched' = [prefetched EXCEPT ![field] = @ + 1]
      /\ UNCHANGED <<prefetch_queue, prefetch_ids>>
  BY Zenon DEF Settled
<1>2. \/ prefetched' = [prefetched EXCEPT !.cancelled = @ + 1]
      \/ prefetched' = [prefetched EXCEPT !.misses = @ + 1]
  BY <1>1, Zenon
<1>3. /\ prefetched' \in Counters /\ AllSettled \in Nat
      /\ AllSettled' = AllSettled + 1 /\ prefetched'.issued = prefetched'.hits
  BY <1>2, CountersAdd, Zenon DEF AllSettled
<1>4. Len(prefetch_queue) \in Nat
  BY DEF PrefetchOK
<1> QED BY <1>1, <1>3, <1>4 DEF PrefetchOK, RequestsConserved

(* Requests are numbered as they are queued. *)
LEMMA SubmitKeeps ==
  ASSUME PrefetchOK, NEW requests \in Seq(Requests),
         prefetch_ids' = prefetch_ids + Len(requests),
         prefetch_queue' = prefetch_queue \o requests,
         UNCHANGED <<hand, prefetched>>
  PROVE  PrefetchOK'
<1>1. /\ prefetch_queue \o requests \in Seq(Requests)
      /\ Len(prefetch_queue \o requests) = Len(prefetch_queue) + Len(requests)
  BY DEF PrefetchOK
<1>2. prefetch_queue' \in Seq(Requests) /\ Len(prefetch_queue') = Len(prefetch_queue) + Len(requests)
  BY <1>1, Zenon
<1>3. Len(prefetch_queue) \in Nat /\ Len(requests) \in Nat
  BY DEF PrefetchOK
<1>4. AllSettled \in Nat /\ AllSettled' = AllSettled
  BY DEF PrefetchOK, Counters, AllSettled
<1> HIDE DEF Requests
<1>5. RequestsConserved'
  BY <1>2, <1>3, <1>4 DEF PrefetchOK, RequestsConserved
<1> QED BY <1>2, <1>3, <1>5, SMTT(30), Zenon DEF PrefetchOK

(* A stride adds one request. *)
LEMMA RecordAddressKeeps ==
  ASSUME TInv, NEW o \in Objects, RecordAddress(o)
  PROVE  PrefetchOK'
<1>1. CASE UNCHANGED <<prefetch_queue, prefetch_ids>>
  BY <1>1, Zenon DEF TInv, PrefetchOK, RequestsConserved, AllSettled, RecordAddress
<1>2. CASE /\ prefetch_ids' = prefetch_ids + 1
           /\ prefetch_queue' = Append(prefetch_queue, Request(o, TRUE))
  <2> DEFINE r == Request(o, TRUE)
  <2>1. r \in Requests
    BY RequestShape, Zenon DEF Ids
  <2> HIDE DEF r
  <2>2. <<r>> \in Seq(Requests) /\ Len(<<r>>) = 1
    BY <2>1
  <2>3. prefetch_queue' = prefetch_queue \o <<r>>
    BY <1>2, <2>1, AppendJoins, ZenonT(30) DEF TInv, PrefetchOK, r
  <2> QED BY <1>2, <2>2, <2>3, SubmitKeeps, Zenon DEF RecordAddress, TInv
<1> QED BY <1>1, <1>2, Zenon DEF RecordAddress

(* What remove_if and erase leave of a sequence is a sequence of its       *)
(* elements, and no longer than it.                                        *)
LEMMA KeptAtIsSeq ==
  ASSUME NEW S, NEW s \in Seq(S), NEW I \in SUBSET DOMAIN s, NEW left \in KeptAt(s, I)
  PROVE  left \in Seq(S) /\ Len(left) <= Len(s)
<1>1. Cardinality(I) \in Nat /\ Cardinality(I) <= Len(s)
  <2>1. DOMAIN s = 1 .. Len(s) /\ Len(s) \in Nat
    OBVIOUS
  <2>2. IsFiniteSet(DOMAIN s) /\ Cardinality(DOMAIN s) = Len(s)
    <3>1. /\ IsFiniteSet(1 .. Len(s))
          /\ Cardinality(1 .. Len(s)) = IF 1 > Len(s) THEN 0 ELSE Len(s) - 1 + 1
      BY <2>1, FS_Interval, SMTT(30)
    <3> QED BY <2>1, <3>1
  <2>3. IsFiniteSet(I) /\ Cardinality(I) <= Cardinality(DOMAIN s)
    BY <2>2, FS_Subset, Zenon
  <2> QED BY <2>2, <2>3, FS_CardinalityType, Zenon
<1>2. PICK f \in Ascending(I) : left = [k \in DOMAIN f |-> s[f[k]]]
  BY Zenon DEF KeptAt
<1>3. f \in [1 .. Cardinality(I) -> I]
  BY Zenon DEF Ascending
<1>4. \A k \in 1 .. Cardinality(I) : s[f[k]] \in S
  BY <1>3
<1> QED BY <1>1, <1>2, <1>3, <1>4, SMTT(30), Zenon

(* A cancelled request is counted, the one in the worker's hand is not     *)
(* touched.                                                                *)
LEMMA CancelKeeps ==
  ASSUME TInv, NEW o \in Ids, CancelPrefetch(o)
  PROVE  PrefetchOK'
<1>1. prefetch_queue' \in Seq(Requests) /\ Len(prefetch_queue') <= Len(prefetch_queue)
  BY KeptAtIsSeq, Zenon DEF TInv, PrefetchOK, CancelPrefetch
<1>2. /\ prefetched' = [prefetched EXCEPT
                          !.cancelled = @ + Len(prefetch_queue) - Len(prefetch_queue')]
      /\ UNCHANGED <<hand, prefetch_ids>>
  BY Zenon DEF CancelPrefetch
<1>3. Len(prefetch_queue) \in Nat /\ Len(prefetch_queue') \in Nat
  BY <1>1 DEF TInv, PrefetchOK
<1>4. /\ prefetched' \in Counters
      /\ AllSettled' = AllSettled + Len(prefetch_queue) - Len(prefetch_queue')
      /\ prefetched'.issued = prefetched'.hits /\ AllSettled \in Nat
  <2>1. PICK n \in Nat : n = Len(prefetch_queue) - Len(prefetch_queue')
    BY <1>1, <1>3
  <2>2. prefetched.cancelled \in Nat
    BY Zenon DEF TInv, PrefetchOK, Counters
  <2>3. prefetched' = [prefetched EXCEPT !.cancelled = @ + n]
    BY <1>2, <1>3, <2>1, <2>2, Zenon
  <2>4. AllSettled' = AllSettled + n /\ AllSettled \in Nat
    BY <2>3, CountersAdd, Zenon DEF TInv, AllSettled
  <2>5. prefetched' \in Counters /\ prefetched'.issued = prefetched'.hits
    BY <2>3, CountersAdd, ZenonT(30) DEF TInv
  <2> QED BY <1>3, <2>1, <2>4, <2>5, Zenon
<1> QED BY <1>1, <1>2, <1>3, <1>4, SMTT(30), Zenon DEF TInv, PrefetchOK, RequestsConserved

(* The worker takes the oldest request. *)
LEMMA TakeKeeps ==
  ASSUME TInv, TakeRequest
  PROVE  PrefetchOK'
<1>1. prefetch_queue \in Seq(Requests) /\ prefetch_queue # << >> /\ hand = NoRequest
  BY Zenon DEF TInv, PrefetchOK, TakeRequest
<1>2. /\ hand' \in Requests /\ prefetch_queue' \in Seq(Requests)
      /\ Len(prefetch_queue') = Len(prefetch_queue) - 1 /\ Len(prefetch_queue) \in Nat
  BY <1>1 DEF TakeRequest
<1>3. hand' # NoRequest
  BY <1>2, RequestShape, Zenon
<1>4. UNCHANGED <<prefetch_ids, prefetched>> /\ AllSettled' = AllSettled /\ AllSettled \in Nat
  BY DEF TakeRequest, AllSettled, TInv, PrefetchOK, Counters
<1> QED BY <1>1, <1>2, <1>3, <1>4 DEF TInv, PrefetchOK, RequestsConserved

(* A request handed to the placement engine is a hit. *)
LEMMA IssueKeeps ==
  ASSUME TInv, Issue
  PROVE  PlacementOK' /\ PrefetchOK'
<1>1. hand \in Requests /\ hand # NoRequest
  BY Zenon DEF TInv, PrefetchOK, Issue
<1>2. PlacementOK'
  BY <1>1, RequestShape, EnqueueKeeps, Zenon DEF TInv, Issue
<1>3. /\ hand' = NoRequest /\ UNCHANGED <<prefetch_queue, prefetch_ids>>
      /\ prefetched' = [prefetched EXCEPT !.issued = @ + 1, !.hits = @ + 1]
  BY Zenon DEF Issue
<1>4. /\ prefetched' \in Counters
      /\ AllSettled' = AllSettled + 1
      /\ prefetched'.issued = prefetched'.hits /\ AllSettled \in Nat
  <2>1. PICK n \in Nat : n = 1
    BY Zenon
  <2>2. prefetched' = [prefetched EXCEPT !.issued = @ + n, !.hits = @ + n]
    BY <1>3, <2>1, Zenon
  <2>3. PrefetchOK
    BY Zenon DEF TInv
  <2>4. PICK p : p = prefetched'
    BY Zenon
  <2>5. /\ p \in Counters /\ p.issued = p.hits
        /\ p.cancelled + p.hits + p.misses = AllSettled + n /\ AllSettled \in Nat
    BY <2>2, <2>3, <2>4, CountersAdd, Zenon
  <2> QED BY <2>1, <2>4, <2>5, Zenon DEF AllSettled
<1>5. Len(prefetch_queue) \in Nat
  BY DEF TInv, PrefetchOK
<1> QED BY <1>1, <1>2, <1>3, <1>4, <1>5 DEF TInv, PrefetchOK, RequestsConserved

(* Steps of the prefetch engine. *)
LEMMA PrefetchKeeps ==
  ASSUME TInv, PrefetchStep, UNCHANGED optimizerVars
  PROVE  TInv'
<1>1. OptimizerOK'
  BY Zenon DEF TInv, OptimizerOK, TasksConserved, optimizerVars
<1>2. ASSUME UNCHANGED placementVars PROVE PlacementOK'
  BY <1>2, Zenon DEF TInv, PlacementOK, OneRequestPerObject, placementVars
<1>3. ASSUME UNCHANGED lifecycleVars PROVE LifecycleOK' /\ PassOK'
  BY <1>3, Zenon DEF TInv, LifecycleOK, PassOK, lifecycleVars, optimizerVars
<1>4. ASSUME UNCHANGED prefetchVars PROVE PrefetchOK'
  BY <1>4, Zenon DEF TInv, PrefetchOK, RequestsConserved, AllSettled, prefetchVars
<1>5. ASSUME Working, NextTurn PROVE LifecycleOK' /\ PassOK'
  BY <1>5, NextTurnKeeps, Zenon DEF TInv, optimizerVars
<1>6. ASSUME NEW o \in Objects, RecordAddress(o) PROVE TInv'
  BY <1>1, <1>2, <1>3, <1>6, RecordAddressKeeps, Zenon DEF RecordAddress, TInv
<1>7. ASSUME NEW o \in Ids, CancelPrefetch(o) PROVE TInv'
  BY <1>1, <1>2, <1>3, <1>7, CancelKeeps, Zenon DEF CancelPrefetch, TInv
<1>8. ASSUME NEW requests \in Seq(Requests), SubmitPrefetches(requests) PROVE TInv'
  BY <1>1, <1>2, <1>3, <1>8, SubmitKeeps, Zenon DEF SubmitPrefetches, TInv
<1>9. ASSUME NEW o \in Ids, NEW x \in BOOLEAN
      PROVE  <<Request(o, x)>> \in Seq(Requests) /\ <<Request(o, x), Request(o, FALSE)>> \in Seq(Requests)
  <2> DEFINE r == Request(o, x)
             q == Request(o, FALSE)
  <2>1. r \in Requests /\ q \in Requests
    BY RequestShape, Zenon
  <2> HIDE DEF r, q
  <2>2. <<r>> \in Seq(Requests) /\ <<r, q>> \in Seq(Requests)
    BY <2>1
  <2> QED BY <2>2, Zenon DEF r, q
<1>10. CASE PrefetchLoop
  <2>1. LifecycleOK' /\ PassOK'
    BY <1>10, WorkerTestKeeps, Zenon DEF TInv, PrefetchLoop, optimizerVars, Engines
  <2> QED BY <1>1, <1>2, <1>4, <1>10, <2>1, Zenon DEF PrefetchLoop, TInv
<1>11. CASE TakeRequest
  BY <1>1, <1>2, <1>3, <1>11, TakeKeeps, Zenon DEF TakeRequest, TInv
<1>12. CASE NothingToDo
  BY <1>1, <1>2, <1>4, <1>5, <1>12, Zenon DEF NothingToDo, TInv
<1>13. CASE ExpiredRequest
  <2>1. hand # NoRequest
    BY <1>13, NoRequestKept, Zenon DEF ExpiredRequest
  <2> QED BY <1>1, <1>2, <1>5, <1>13, <2>1, SettledKeeps, Zenon, SMT DEF ExpiredRequest, Settled, TInv
<1>14. CASE Issue
  BY <1>1, <1>5, <1>14, IssueKeeps, Zenon DEF Issue, TInv
<1>15. CASE Miss
  BY <1>1, <1>2, <1>5, <1>15, SettledKeeps, Zenon DEF Miss, Settled, TInv
<1>16. CASE \E o \in Ids, x \in BOOLEAN :
              \/ SubmitPrefetches(<<Request(o, x)>>)
              \/ SubmitPrefetches(<<Request(o, x), Request(o, FALSE)>>)
  BY <1>8, <1>9, <1>16, Zenon
<1> QED BY <1>6, <1>7, <1>10, <1>11, <1>12, <1>13, <1>14, <1>15, <1>16, ZenonT(30)
        DEF PrefetchStep, PrefetchWork, Ids

-----------------------------------------------------------------------------
(* TInv is inductive. *)
LEMMA TNext == TInv /\ [TierNext]_tierVars => TInv'
<1> SUFFICES ASSUME TInv, [TierNext]_tierVars PROVE TInv'
  BY Zenon
<1>1. CASE UNCHANGED tierVars
  <2>1. PlacementOK'
    BY <1>1, Zenon DEF tierVars, TInv, PlacementOK, OneRequestPerObject, placementVars
  <2>4. LifecycleOK'
    BY <1>1, Zenon DEF tierVars, TInv, LifecycleOK, lifecycleVars
  <2>5. PassOK'
    BY <1>1, Zenon DEF tierVars, TInv, PassOK, lifecycleVars, optimizerVars
  <2>2. OptimizerOK'
    BY <1>1, Zenon DEF tierVars, TInv, OptimizerOK, TasksConserved, optimizerVars
  <2>3. PrefetchOK'
    BY <1>1, Zenon DEF tierVars, TInv, PrefetchOK, RequestsConserved, AllSettled, prefetchVars
  <2> QED BY <2>1, <2>2, <2>3, <2>4, <2>5, Zenon, SMT DEF TInv
<1> QED BY <1>1, PlacementKeeps, ControlKeeps, OptimizerKeeps, PrefetchKeeps, Zenon, SMT DEF TierNext

(* The invariant behind the three theorems below. *)
THEOREM TierInvariance == TierSpec => []TInv
  BY TInit, TNext, PTL DEF TierSpec

(* memory_placement.h:51, "Prevents duplicate ObjectIds in queue": with    *)
(* any number of direct callers, passes and prefetches, an object has at   *)
(* most one request in the placement queue, and is pending exactly as long *)
(* as it has one.                                                          *)
THEOREM QueueHasNoDuplicates == TierSpec => []OneRequestPerObject
<1>1. TInv => OneRequestPerObject
  BY Zenon DEF TInv, PlacementOK
<1> QED BY <1>1, TierInvariance, PTL

(* However start and stop interleave, a worker that was told to stop has   *)
(* exactly one stop that is going to join it.                              *)
THEOREM OneStopJoins == TierSpec => []StopOwnsWorker
<1>1. ASSUME TInv, NEW e \in Engines, worker[e] # "none", ~ is_running[e]
      PROVE  Cardinality({c \in Controllers : joining[c] = e}) = 1
  <2>1. PICK c \in Controllers : joining[c] = e
    BY <1>1, Zenon DEF TInv, LifecycleOK
  <2>2. {d \in Controllers : joining[d] = e} = {c}
    <3>1. \A d \in Controllers : joining[d] = e => d = c
      BY <1>1, <2>1, Zenon DEF TInv, LifecycleOK, Engines
    <3> QED BY <2>1, <3>1, Zenon
  <2> QED BY <2>2, FS_Singleton, Zenon
<1>2. TInv => StopOwnsWorker
  BY <1>1, Zenon DEF StopOwnsWorker
<1> QED BY <1>2, TierInvariance, PTL

(* Every migration task and every prefetch request is pending, in the      *)
(* worker's hand, or counted once: none is lost between passes, cancels,   *)
(* refusals and the worker's steps outside mutex_.                         *)
THEOREM NoWorkLost == TierSpec => []WorkConserved
<1>1. TInv => WorkConserved
  BY Zenon DEF TInv, OptimizerOK, PrefetchOK, WorkConserved
<1> QED BY <1>1, TierInvariance, PTL
=============================================================================
