--------------------------- MODULE StringInterner ---------------------------
(***************************************************************************)
(* StringInterner (core/src/concurrency/string_interner.cpp): strings are  *)
(* copied into a growing vector of characters, handles index a table of    *)
(* offsets, and the keys of the map are views into the vector.  Every      *)
(* method holds mutex_ throughout; the views resolve returns are used      *)
(* without it.                                                             *)
(*                                                                         *)
(* When the vector outgrows its capacity it moves: generation counts the   *)
(* moves since the last clear, and a view or key of an earlier generation  *)
(* points to freed memory.  A lookup compares its string with any key of   *)
(* the same length (a small table is searched without hashes, and hashes   *)
(* may collide), so that a freed key may match, may fail to match or may   *)
(* fault, whichever string it was made from.                               *)
(* clear is "Not thread-safe with active readers": handles and views from  *)
(* before it are not used any more.                                        *)
(***************************************************************************)
EXTENDS Integers, Sequences

CONSTANTS
  Strings,
  Length,        \* of each string
  ArenaCapacity, \* initial_arena_capacity
  MaxHandles     \* bound: handles given out

VARIABLES
  running,       \* no read of freed memory has faulted
  size,          \* arena_.size()
  generation, capacity,
  offsets,       \* offsets_ from handle 1 on
  map,           \* map_: entries [string, handle, generation of the key]
  views          \* history: the views resolve returned

internerVars == <<running, size, generation, capacity, offsets, map, views>>

InternerInit ==
  /\ running = TRUE /\ size = 0 /\ generation = 0 /\ capacity = ArenaCapacity
  /\ offsets = << >> /\ map = {} /\ views = {}

(* vector::insert of n characters and push_back of one, growing by the     *)
(* larger of the old size and what is needed.                              *)
Grown(cap, used, n) ==
  IF used + n <= cap THEN cap ELSE used + (IF used >= n THEN used ELSE n)

Appended(n) == Grown(Grown(capacity, size, n), size + n, 1)

Live(s) == {m \in map : m.string = s /\ m.generation = generation}
Dangling(s, now) == {m \in map : Length[m.string] = Length[s] /\ m.generation # now}

(* map_.find(str) finds an entry, which may be another string's. *)
internFound(s) ==
  /\ Live(s) \cup Dangling(s, generation) # {}
  /\ UNCHANGED internerVars

(* map_[arena_view] = handle may still meet a dangling key. *)
internNew(s) ==
  LET handle == Len(offsets) + 1
  IN /\ Live(s) = {}
     /\ handle <= MaxHandles
     /\ capacity' = Appended(Length[s])
     /\ generation' = IF capacity' = capacity THEN generation ELSE generation + 1
     /\ size' = size + Length[s] + 1
     /\ offsets' = Append(offsets, size)
     /\ \/ map' = map \cup {[string |-> s, handle |-> handle, generation |-> generation']}
        \/ \E m \in Dangling(s, generation') :
             map' = (map \ {m}) \cup {[m EXCEPT !.handle = handle]}
     /\ UNCHANGED <<running, views>>

(* Comparing with a freed key reads memory that may be gone. *)
internFaults(s) ==
  /\ Dangling(s, generation) # {}
  /\ running' = FALSE
  /\ UNCHANGED <<size, generation, capacity, offsets, map, views>>

resolve(h) ==
  /\ h \in DOMAIN offsets
  /\ views' = views \cup {[offset |-> offsets[h], generation |-> generation]}
  /\ UNCHANGED <<running, size, generation, capacity, offsets, map>>

clearArena ==
  /\ size' = 0 /\ map' = {} /\ offsets' = << >>
  /\ generation' = 0 /\ views' = {}
  /\ UNCHANGED <<running, capacity>>

InternerNext ==
  /\ running
  /\ \/ \E s \in Strings : internFound(s) \/ internNew(s) \/ internFaults(s)
     \/ \E h \in 1 .. MaxHandles : resolve(h)
     \/ clearArena

InternerSpec == InternerInit /\ [][InternerNext]_internerVars

-----------------------------------------------------------------------------
(* "Valid for lifetime of StringInterner" (string_interner.h:48): the view *)
(* resolve returned points into the arena as it is now, whatever other     *)
(* threads have interned since.                                            *)
ViewsStayValid == \A v \in views : v.generation = generation
=============================================================================
