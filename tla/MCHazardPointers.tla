-------------------------- MODULE MCHazardPointers --------------------------
(* Two readers and a slot fewer or as many, three versions of the object.  *)
EXTENDS HazardPointers
=============================================================================
