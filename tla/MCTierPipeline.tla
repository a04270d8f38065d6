--------------------------- MODULE MCTierPipeline ---------------------------
(* Small instances of TierPipeline for TLC. *)
EXTENDS TierPipeline

CONSTANTS o1, o2, c1, c2

OneObject == {o1}
TwoObjects == {o1, o2}
OneController == {c1}
TwoControllers == {c1, c2}
RamAndVram == {"ram", "vram"}
=============================================================================
