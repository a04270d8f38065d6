--------------------------- MODULE MCReplayEngine ---------------------------
(* Small instances of ReplayEngine for TLC; the bounds are in the cfgs.    *)
(* Besides the writer's own size, a header states a size of zero or one    *)
(* that reaches over the next record.                                      *)
EXTENDS ReplayEngine

OwnContents == SlotContents \X {RecordWords}
MCContents ==
  (OwnContents \ {<<"refused", RecordWords>>})
    \cup {<<"valid", 0>>, <<"badpayload", 0>>, <<"refused", 2 * RecordWords>>}
=============================================================================
