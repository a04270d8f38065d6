----------------------------- MODULE MCEpochRcu -----------------------------
(* Small instances of EpochRcu for TLC. *)
EXTENDS EpochRcu, TLC

CONSTANTS r1, w1, w2

OneReader == {r1}
TwoWriters == {w1, w2}

(* The threads of a kind are interchangeable; no liveness is checked. *)
Symmetry == Permutations(Readers) \cup Permutations(Writers)
=============================================================================
