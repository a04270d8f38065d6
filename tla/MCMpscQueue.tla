---------------------------- MODULE MCMpscQueue ----------------------------
(* Small instances of MpscQueue for TLC. *)
EXTENDS MpscQueue

CONSTANTS p1, p2

TwoProducers == {p1, p2}
=============================================================================
