------------------------------ MODULE Slices ------------------------------
(***************************************************************************)
(* Filtering a Go slice: what the loops that copy the elements to keep to  *)
(* the front of a slice, or to a new one, leave of it.                     *)
(***************************************************************************)
EXTENDS Integers, FiniteSets

(* A slice after its elements outside the index set K were cut out: the    *)
(* k-th element left is the one at the k-th smallest index of K.           *)
Nth(K, k) == CHOOSE i \in K : Cardinality({j \in K : j <= i}) = k
Compact(s, K) == [k \in 1..Cardinality(K) |-> s[Nth(K, k)]]
=============================================================================
