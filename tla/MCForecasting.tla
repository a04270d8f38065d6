---------------------------- MODULE MCForecasting ----------------------------
(* Two objects, two callers, a TTL of one tick.  One object starts with    *)
(* fifteen accesses behind it (seven of one stride, then seven changes of  *)
(* stride), so that one more access makes it popular or its stride trusted.*)
EXTENDS Forecasting, TLC

CONSTANTS o1, o2

MCKnown ==
  o1 :> [accesses |-> 15, moving |-> TRUE, confidence |-> 13, recency |-> 20, counted |-> TRUE]

(* A damaged file yields nothing, or a pattern with scores above 1. *)
MCJunk ==
  {NoPatterns,
   o2 :> [accesses |-> 1, moving |-> TRUE, confidence |-> 30, recency |-> 24, counted |-> FALSE]}

MCDecays == {8}
=============================================================================
