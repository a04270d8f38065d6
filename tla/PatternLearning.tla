-------------------------- MODULE PatternLearning --------------------------
(***************************************************************************)
(* PatternLearningEngine with DefaultLearningPolicy and                    *)
(* FilePatternRepository.  Scores are in units of 0.05.  What predictions  *)
(* look at is kept: whether the last stride was zero, and the frequency    *)
(* score 1 - 0.9^n as the number n of accesses, up to HotAccesses, from    *)
(* which it exceeds 0.8.  A comparison of two equal scores can go either   *)
(* way: sums of 0.05 and 0.1 in doubles fall on both sides of the exact    *)
(* value.  Addresses and object ids are not 0.  Of access_count, which     *)
(* nothing in the engine looks at, only whether it is right is kept.       *)
(***************************************************************************)
EXTENDS Integers, FiniteSets

CONSTANTS
  ObjectIds,
  Known,        \* what was learned before the first step considered
  Decays,       \* decay factors in use
  HotAccesses,  \* 16 in the code: 1 - 0.9^16 > 0.8
  FileUsers,    \* threads that call persist and restore
  Junk          \* tables that load_patterns can make of a damaged file

VARIABLES
  pattern_db,
  learned_patterns_count, forgotten_patterns_count, active_patterns_count,
  disk,         \* the pattern file
  fileCall      \* the persist or restore each thread is in

dbVars == <<pattern_db, learned_patterns_count, forgotten_patterns_count,
            active_patterns_count>>
fileVars == <<disk, fileCall>>

Patterns ==
  [accesses : 0 .. HotAccesses, moving : BOOLEAN, confidence : Nat, recency : Nat,
   counted : BOOLEAN]

IsTable(f) == IsFiniteSet(DOMAIN f) /\ f \in [DOMAIN f -> Patterns]

ASSUME LearningAssumption ==
  /\ Decays \subseteq Nat \ {0}
  /\ HotAccesses \in Nat \ {0}
  /\ IsTable(Known)
  /\ \A j \in Junk : IsTable(j)

(* The containers keyed by object: map[o] = v, and insertion of all of g. *)
Put(f, o, v) == [x \in DOMAIN f \cup {o} |-> IF x = o THEN v ELSE f[x]]
PutAll(f, g) == [x \in DOMAIN f \cup DOMAIN g |-> IF x \in DOMAIN g THEN g[x] ELSE f[x]]

AtMost(a, b) == IF a <= b THEN a ELSE b
Less(a, b) == IF a >= b THEN a - b ELSE 0

NoPatterns == << >>
NoFile == [state |-> "missing"]
NoCall == [phase |-> "none"]

NewPattern ==
  [accesses |-> 0, moving |-> FALSE, confidence |-> 10, recency |-> 0, counted |-> TRUE]

(* How an access relates to the last one: its stride is the last stride    *)
(* again, or a new one that is zero or not.                                *)
Strides(p) ==
  {"repeated", "nonzero"} \cup (IF p.moving THEN {"zero"} ELSE {})

learn_step(p, stride) ==
  [accesses |-> AtMost(p.accesses + 1, HotAccesses),
   moving |-> IF p.accesses = 0 \/ stride = "repeated" THEN p.moving
              ELSE stride = "nonzero",
   confidence |-> IF p.accesses = 0 THEN p.confidence
                  ELSE IF stride = "repeated" THEN AtMost(20, p.confidence + 2)
                  ELSE Less(p.confidence, 1),
   recency |-> 20,
   counted |-> p.counted]

decay_ConfidenceOnly(p, d) == [p EXCEPT !.confidence = Less(@, d)]

decay(p, d) ==
  [p EXCEPT !.confidence = Less(@, d), !.recency = Less(@, d)]

(* confidence < 0.1 && recency_score < 0.1: certain, and possible. *)
Cold(p) == p.confidence < 2 /\ p.recency < 2
MaybeCold(p) == p.confidence <= 2 /\ p.recency <= 2

LearningInit ==
  /\ pattern_db = Known
  /\ learned_patterns_count = Cardinality(DOMAIN Known)
  /\ forgotten_patterns_count = 0
  /\ active_patterns_count = Cardinality(DOMAIN Known)
  /\ disk = NoFile /\ fileCall = [u \in FileUsers |-> NoCall]

Count(db) == active_patterns_count' = Cardinality(DOMAIN db)

learn_access_AlwaysNew(o) ==
  /\ pattern_db' = Put(pattern_db, o, learn_step(NewPattern, "nonzero"))
  /\ learned_patterns_count' = learned_patterns_count + 1
  /\ Count(pattern_db')
  /\ UNCHANGED <<forgotten_patterns_count, fileVars>>

learn_access(o) ==
  LET known == o \in DOMAIN pattern_db
      old == IF known THEN pattern_db[o] ELSE NewPattern
  IN /\ \E stride \in Strides(old) :
          pattern_db' = Put(pattern_db, o, learn_step(old, stride))
     /\ learned_patterns_count' = learned_patterns_count + (IF known THEN 0 ELSE 1)
     /\ Count(pattern_db')
     /\ UNCHANGED <<forgotten_patterns_count, fileVars>>

decay_patterns(d) ==
  LET decayed == [o \in DOMAIN pattern_db |-> decay(pattern_db[o], d)]
  IN \E forget \in SUBSET DOMAIN decayed :
       /\ \A o \in forget : MaybeCold(decayed[o])
       /\ \A o \in DOMAIN decayed \ forget : ~ Cold(decayed[o])
       /\ pattern_db' = [o \in DOMAIN decayed \ forget |-> decayed[o]]
       /\ forgotten_patterns_count' = forgotten_patterns_count + Cardinality(forget)
       /\ Count(pattern_db')
       /\ UNCHANGED <<learned_patterns_count, fileVars>>

reset ==
  /\ pattern_db' = NoPatterns
  /\ learned_patterns_count' = 0
  /\ forgotten_patterns_count' = 0
  /\ Count(pattern_db')
  /\ UNCHANGED fileVars

-----------------------------------------------------------------------------
(* persist copies the table under the lock (active_patterns), and writes   *)
(* the file without it.  A file truncated while another persist writes to  *)
(* it is "mixed" from then on: each goes on at its own offset.  A load     *)
(* that a truncation overtakes is torn: it goes on at its own offset too.  *)

Writers == {u \in FileUsers : fileCall[u].phase = "write"}

PersistCopy(u) ==
  /\ fileCall[u] = NoCall
  /\ fileCall' = [fileCall EXCEPT ![u] = [phase |-> "open", snapshot |-> pattern_db]]
  /\ UNCHANGED <<dbVars, disk>>

Overtaken(call) == IF call.phase = "load" THEN [call EXCEPT !.torn = TRUE] ELSE call

PersistOpen_Append(u) ==
  /\ fileCall[u].phase = "open"
  /\ fileCall' = [v \in FileUsers |-> IF v = u THEN [fileCall[u] EXCEPT !.phase = "write"]
                                      ELSE Overtaken(fileCall[v])]
  /\ disk' = [state |-> IF Writers = {} THEN "partial" ELSE "mixed",
              lines |-> IF disk.state = "missing" THEN << >> ELSE disk.lines,
              snapshot |-> fileCall[u].snapshot]
  /\ UNCHANGED dbVars

PersistOpen(u) ==
  /\ fileCall[u].phase = "open"
  /\ \/ /\ fileCall' = [fileCall EXCEPT ![u] = NoCall]   \* the file cannot be opened
        /\ UNCHANGED disk
     \/ /\ fileCall' = [v \in FileUsers |-> IF v = u THEN [fileCall[u] EXCEPT !.phase = "write"]
                                            ELSE Overtaken(fileCall[v])]
        /\ disk' = [state |-> IF Writers = {} THEN "partial" ELSE "mixed",
                    lines |-> << >>, snapshot |-> fileCall[u].snapshot]
  /\ UNCHANGED dbVars

(* What the lines of a mixed file hold is not followed. *)
PersistLine(u) ==
  /\ fileCall[u].phase = "write" /\ disk.state = "partial"
  /\ \E o \in DOMAIN fileCall[u].snapshot \ DOMAIN disk.lines :
       disk' = [disk EXCEPT !.lines = Put(@, o, fileCall[u].snapshot[o])]
  /\ UNCHANGED <<dbVars, fileCall>>

(* A write that failed is not noticed: save_patterns returns kOk. *)
PersistClose(u) ==
  /\ fileCall[u].phase = "write"
  /\ \/ /\ disk.state = "partial" /\ DOMAIN fileCall[u].snapshot = DOMAIN disk.lines
        /\ disk' = [disk EXCEPT !.state = "complete"]
     \/ /\ disk.state = "mixed" \/ DOMAIN fileCall[u].snapshot # DOMAIN disk.lines
        /\ UNCHANGED disk
  /\ fileCall' = [fileCall EXCEPT ![u] = NoCall]
  /\ UNCHANGED dbVars

(* load_patterns, without the lock: it opens the file, reads line after    *)
(* line and ends where the file ends at that moment.                       *)
RestoreOpen(u) ==
  /\ fileCall[u] = NoCall
  /\ disk.state # "missing"
  /\ fileCall' = [fileCall EXCEPT ![u] =
       [phase |-> "load", lines |-> << >>, whole |-> FALSE, torn |-> disk.state = "mixed",
        snapshot |-> disk.snapshot]]
  /\ UNCHANGED <<dbVars, disk>>

RestoreLine(u) ==
  /\ fileCall[u].phase = "load" /\ ~ fileCall[u].torn
  /\ \E o \in DOMAIN disk.lines \ DOMAIN fileCall[u].lines :
       fileCall' = [fileCall EXCEPT ![u].lines = Put(@, o, disk.lines[o])]
  /\ UNCHANGED <<dbVars, disk>>

AtFileEnd(u) ==
  fileCall[u].phase = "load" /\ ~ fileCall[u].torn /\
  DOMAIN fileCall[u].lines = DOMAIN disk.lines

Loaded(u, lines) ==
  /\ fileCall' = [fileCall EXCEPT ![u] =
       [phase |-> "merge", lines |-> lines, whole |-> disk.state = "complete", torn |-> @.torn,
        snapshot |-> @.snapshot]]
  /\ UNCHANGED <<dbVars, disk>>

(* The last line of a file that is not complete may be cut.  Short of a    *)
(* field it is skipped; cut inside its last one it is loaded with the      *)
(* digits of access_count that are there.                                  *)
RestoreEnd(u) ==
  /\ AtFileEnd(u)
  /\ Loaded(u, fileCall[u].lines)

RestoreCutLine(u) ==
  /\ AtFileEnd(u) /\ disk.state = "partial"
  /\ \E o \in DOMAIN disk.snapshot \ DOMAIN disk.lines :
       Loaded(u, Put(fileCall[u].lines, o, [disk.snapshot[o] EXCEPT !.counted = FALSE]))

(* A torn load reads bytes that were never written as one line. *)
RestoreTorn(u) ==
  /\ fileCall[u].phase = "load" /\ fileCall[u].torn
  /\ \E junk \in Junk : Loaded(u, PutAll(fileCall[u].lines, junk))

(* A part that is no number makes stoull, stod or stoll throw, which ends  *)
(* the process, load_patterns being noexcept: the minus sign of a stride   *)
(* where the last line is cut, or anything in a torn load.                 *)
LoadThrows(u) ==
  /\ fileCall[u].phase = "load"
  /\ \/ fileCall[u].torn
     \/ /\ AtFileEnd(u) /\ disk.state = "partial"
        /\ \E o \in DOMAIN disk.snapshot \ DOMAIN disk.lines : disk.snapshot[o].moving

RestoreMerge(u) ==
  /\ fileCall[u].phase = "merge"
  /\ pattern_db' = PutAll(pattern_db, fileCall[u].lines)
  /\ learned_patterns_count' = Cardinality(DOMAIN pattern_db')
  /\ Count(pattern_db')
  /\ fileCall' = [fileCall EXCEPT ![u] = NoCall]
  /\ UNCHANGED <<forgotten_patterns_count, disk>>

(* The process dies: only what reached the file is left. *)
LearningCrash ==
  /\ pattern_db' = NoPatterns
  /\ learned_patterns_count' = 0
  /\ forgotten_patterns_count' = 0
  /\ active_patterns_count' = 0
  /\ fileCall' = [u \in FileUsers |-> NoCall]
  /\ UNCHANGED disk
=============================================================================
