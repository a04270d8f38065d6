----------------------------- MODULE Selection -----------------------------
(***************************************************************************)
(* What std::remove_if and erase leave of a sequence: the elements at the  *)
(* positions that are kept, in their order; and the orders in which an     *)
(* unordered container may list its elements.                              *)
(***************************************************************************)
EXTENDS Integers, Sequences, FiniteSets

(* The positions I from left to right, the one element of this set *)
Ascending(I) ==
  {f \in [1 .. Cardinality(I) -> I] : \A i, j \in DOMAIN f : i < j => f[i] < f[j]}

(* The elements of s at the positions I, the one element of this set *)
KeptAt(s, I) == {[k \in DOMAIN f |-> s[f[k]]] : f \in Ascending(I)}

(* erase of the element at position i *)
Erased(s, i) == SubSeq(s, 1, i - 1) \o SubSeq(s, i + 1, Len(s))

(* The iteration orders of an unordered container that holds S *)
Listings(S) ==
  {f \in [1 .. Cardinality(S) -> S] : \A i, j \in DOMAIN f : f[i] = f[j] => i = j}
=============================================================================
