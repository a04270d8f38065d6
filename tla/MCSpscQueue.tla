---------------------------- MODULE MCSpscQueue ----------------------------
(* Small instances of SpscQueue for TLC; the bounds are in the cfg files. *)
EXTENDS SpscQueue
=============================================================================
