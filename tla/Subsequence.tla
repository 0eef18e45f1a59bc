---------------------------- MODULE Subsequence ----------------------------
(***************************************************************************)
(* The items of a sequence that some of its positions hold, in the order    *)
(* they have there: what a loop over an array copies when it skips some of  *)
(* them.  Each item's new place is the number of positions up to its own.    *)
(***************************************************************************)
EXTENDS Integers, Sequences, FiniteSets

Place(I, i) == Cardinality({j \in I : j <= i})
Picked(s, I) == [k \in 1..Cardinality(I) |-> s[CHOOSE i \in I : Place(I, i) = k]]
=============================================================================
