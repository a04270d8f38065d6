-------------------------- MODULE MCStringInterner --------------------------
(* Three strings, two of one length, in an arena that the second or third  *)
(* of them outgrows.                                                       *)
EXTENDS StringInterner

MCStrings == {"a", "bb", "cc"}
MCLength == [s \in MCStrings |-> IF s = "a" THEN 1 ELSE 2]
=============================================================================
