------------------------------- MODULE Nodes -------------------------------
(***************************************************************************)
(* The memory list.c and stack.c build their nodes in: each node has a next *)
(* field, which points to a node, is Null, or holds an address that is      *)
(* neither.  A node that is not live keeps what it last held.               *)
(***************************************************************************)
EXTENDS Integers, Sequences, FiniteSets, SequencesExt

CONSTANTS Addresses,  \* where malloc can put a node
          Null,       \* nullptr
          Wild        \* what a next field may hold that was never written

ASSUME AddressesAssumption == IsFiniteSet(Addresses) /\ Null \notin Addresses /\ Wild \notin Addresses

(* Where a walk from first stands after i steps; it stays where it leaves the nodes. *)
Hops(first, next) ==
  LET hop[i \in 0..Cardinality(Addresses)] ==
        IF i = 0 THEN first
        ELSE IF hop[i - 1] \in Addresses THEN next[hop[i - 1]] ELSE hop[i - 1]
  IN hop

(* The nodes such a walk meets, and where it ends: at a node if it never does *)
NodesFrom(first, next) ==
  LET hop == Hops(first, next)
      met == {i \in 1..Cardinality(Addresses) : hop[i - 1] \in Addresses}
  IN [i \in 1..Cardinality(met) |-> hop[i - 1]]

EndOf(first, next) ==
  LET met == NodesFrom(first, next)
  IN IF met = <<>> THEN first ELSE next[Last(met)]

NodesOf(s) == {s[i] : i \in DOMAIN s}
=============================================================================
