---------------------------- MODULE MCSharedHeap ----------------------------
(***************************************************************************)
(* Three nodes for both containers, so that each gets the other's back.      *)
(* Every property is about single states or steps, so nodes may be exchanged.*)
(***************************************************************************)
EXTENDS SharedHeap

Interchangeable == Permutations(Addresses)
=============================================================================
