------------------------------ MODULE HashMap ------------------------------
(***************************************************************************)
(* src/libstd/src/types/map.c: a chained hash map that doubles its bucket  *)
(* array when a put finds the load factor at 0.75 or more.                 *)
(*                                                                         *)
(* A chain of mapnodes is the sequence of its nodes, head first.  map_get, *)
(* map_delete and map_free are one step each.  map_put is several: the     *)
(* load check, one step per node that map_resize moves, the swap of the    *)
(* arrays, and the insertion, so that what holds in the middle of a resize *)
(* can be stated.  While map_resize runs, buckets[i] is what is left to    *)
(* move of chain i (the code's local "current"): nobody reads a node       *)
(* through the old array once it has moved.                                *)
(*                                                                         *)
(* Every allocation may fail.                                              *)
(*                                                                         *)
(* A definition whose name starts with Mut is a plausible mistake in the   *)
(* one that follows it, and part of no behaviour: PROJECT.json lists which *)
(* property refutes it.                                                    *)
(***************************************************************************)
EXTENDS Integers, Sequences, FiniteSets

CONSTANTS Keys,             \* the strings used as keys
          Values,           \* the non-null pointers stored as values
          Nil,              \* nullptr
          Hash,             \* Hash[k]: what hash() computes for the string k
          InitialCapacity   \* INITIAL_CAPACITY

ASSUME HashAssumption == Hash \in [Keys -> Nat]
ASSUME CapacityAssumption == InitialCapacity \in Nat \ {0}
ASSUME ResultAssumption == (Values \cup {Nil}) \cap BOOLEAN = {}

VARIABLES pc,           \* where the map's owner is: between calls, or inside map_put
          capacity,     \* m->capacity
          buckets,      \* m->buckets
          size,         \* m->size
          newBuckets,   \* map_resize's new_buckets
          index,        \* map_resize's i
          call,         \* the last operation called and its arguments
          result        \* what the last call returned

vars == <<pc, capacity, buckets, size, newBuckets, index, call, result>>

Storable == Values \cup {Nil}
Node == [key : Keys, value : Storable]
Call(op, k, v) == [op |-> op, key |-> k, value |-> v]
Calls == [op : {"put", "get", "delete"}, key : Keys, value : Storable]
Chains(cap) == [0 .. cap - 1 -> Seq(Node)]
EmptyChains(cap) == [b \in 0 .. cap - 1 |-> <<>>]

(* Type invariant.  The array under construction exists only while map_resize runs. *)
TypeOK ==
  /\ pc \in {"freed", "idle", "rehash", "insert", "exited"}
  /\ capacity \in Nat
  /\ pc \in {"idle", "rehash", "insert"} => capacity > 0
  /\ buckets \in Chains(capacity)
  /\ size \in Nat
  /\ newBuckets \in Chains(IF pc = "rehash" THEN 2 * capacity ELSE 0)
  /\ index \in 0 .. capacity
  /\ pc # "rehash" => index = 0
  /\ call \in Calls
  /\ result \in Storable \cup BOOLEAN

(* The chain a key belongs to in an array of cap buckets. *)
BucketOf(k, cap) == Hash[k] % cap

(* Where the search loops stop.  They stop at the first node that has the  *)
(* key; Distinct, below, makes it the only one.                             *)
Holds(chain, k) == \E i \in DOMAIN chain : chain[i].key = k
PositionOf(chain, k) == CHOOSE i \in DOMAIN chain : chain[i].key = k

MutOverloadedWhenFull == size > capacity

(* (double)size / (double)capacity >= MAX_LOAD_FACTOR *)
Overloaded == 4 * size >= 3 * capacity

(* Pushing a node in front of a chain, overwriting and unlinking its i-th. *)
MutPushFrontDropsChain(node, chain) == <<node>>
PushFront(node, chain) == <<node>> \o chain
MutUpdateKeepsValue(chain, i, node) == chain
Update(chain, i, node) == [chain EXCEPT ![i] = node]
Unlink(chain, i) == [j \in 1 .. Len(chain) - 1 |-> IF j < i THEN chain[j] ELSE chain[j + 1]]

-----------------------------------------------------------------------------
Init ==
  /\ pc = "freed"
  /\ capacity = 0
  /\ buckets = EmptyChains(0)
  /\ size = 0
  /\ newBuckets = EmptyChains(0)
  /\ index = 0
  /\ call \in {Call("put", k, v) : k \in Keys, v \in Storable}
  /\ result = Nil

(* map_init, on a map never used or freed since; no memory ends the process *)
MapInit ==
  /\ pc = "freed"
  /\ capacity' = InitialCapacity
  /\ buckets' = EmptyChains(InitialCapacity)
  /\ size' = 0
  /\ pc' = "idle"
  /\ UNCHANGED <<newBuckets, index, call, result>>

MapInitFails ==
  /\ pc = "freed"
  /\ pc' = "exited"
  /\ UNCHANGED <<capacity, buckets, size, newBuckets, index, call, result>>

(* map_put up to the outcome of its load check; map_resize has allocated its array *)
MapPut(k, v) ==
  /\ pc = "idle"
  /\ call' = Call("put", k, v)
  /\ \/ /\ Overloaded
        /\ pc' = "rehash"
        /\ newBuckets' = EmptyChains(2 * capacity)
        /\ index' = 0
     \/ /\ ~Overloaded
        /\ pc' = "insert"
        /\ UNCHANGED <<newBuckets, index>>
  /\ UNCHANGED <<capacity, buckets, size, result>>

(* map_put when map_resize cannot allocate the larger array *)
MapPutCannotResize(k, v) ==
  /\ pc = "idle"
  /\ Overloaded
  /\ call' = Call("put", k, v)
  /\ result' = FALSE
  /\ UNCHANGED <<pc, capacity, buckets, size, newBuckets, index>>

MutRehashNodeUsesOldIndex ==
  /\ pc = "rehash" /\ index < capacity /\ buckets[index] # <<>>
  /\ newBuckets' = [newBuckets EXCEPT ![index] = PushFront(Head(buckets[index]), @)]
  /\ buckets' = [buckets EXCEPT ![index] = Tail(@)]
  /\ UNCHANGED <<pc, capacity, size, index, call, result>>

(* map_resize's inner loop: the node at the head of the old chain moves to the head of its new one *)
RehashNode ==
  /\ pc = "rehash"
  /\ index < capacity
  /\ buckets[index] # <<>>
  /\ LET node == Head(buckets[index])
         b == BucketOf(node.key, 2 * capacity)
     IN newBuckets' = [newBuckets EXCEPT ![b] = PushFront(node, @)]
  /\ buckets' = [buckets EXCEPT ![index] = Tail(@)]
  /\ UNCHANGED <<pc, capacity, size, index, call, result>>

(* map_resize's outer loop: the chain is exhausted, on to the next one *)
RehashNextBucket ==
  /\ pc = "rehash"
  /\ index < capacity
  /\ buckets[index] = <<>>
  /\ index' = index + 1
  /\ UNCHANGED <<pc, capacity, buckets, size, newBuckets, call, result>>

(* map_resize returns true: the new array replaces the old one *)
RehashDone ==
  /\ pc = "rehash"
  /\ index = capacity
  /\ buckets' = newBuckets
  /\ capacity' = 2 * capacity
  /\ newBuckets' = EmptyChains(0)
  /\ index' = 0
  /\ pc' = "insert"
  /\ UNCHANGED <<size, call, result>>

(* the rest of map_put: update the node that has the key, or push a new one *)
Insert ==
  /\ pc = "insert"
  /\ LET b == BucketOf(call.key, capacity)
         new == [key |-> call.key, value |-> call.value]
     IN \/ /\ Holds(buckets[b], call.key)
           /\ buckets' = [buckets EXCEPT ![b] = Update(@, PositionOf(@, call.key), new)]
           /\ UNCHANGED size
        \/ /\ ~Holds(buckets[b], call.key)
           /\ buckets' = [buckets EXCEPT ![b] = PushFront(new, @)]
           /\ size' = size + 1
  /\ result' = TRUE
  /\ pc' = "idle"
  /\ UNCHANGED <<capacity, newBuckets, index, call>>

(* the rest of map_put when the node or the copy of the key cannot be allocated *)
InsertFails ==
  /\ pc = "insert"
  /\ result' = FALSE
  /\ pc' = "idle"
  /\ UNCHANGED <<capacity, buckets, size, newBuckets, index, call>>

MapGet(k) ==
  /\ pc = "idle"
  /\ LET chain == buckets[BucketOf(k, capacity)]
     IN result' = IF Holds(chain, k) THEN chain[PositionOf(chain, k)].value ELSE Nil
  /\ call' = Call("get", k, Nil)
  /\ UNCHANGED <<pc, capacity, buckets, size, newBuckets, index>>

MapDelete(k) ==
  /\ pc = "idle"
  /\ LET b == BucketOf(k, capacity)
     IN \/ /\ Holds(buckets[b], k)
           /\ buckets' = [buckets EXCEPT ![b] = Unlink(@, PositionOf(@, k))]
           /\ size' = size - 1
           /\ result' = TRUE
        \/ /\ ~Holds(buckets[b], k)
           /\ result' = FALSE
           /\ UNCHANGED <<buckets, size>>
  /\ call' = Call("delete", k, Nil)
  /\ UNCHANGED <<pc, capacity, newBuckets, index>>

MapFree ==
  /\ pc = "idle"
  /\ pc' = "freed"
  /\ size' = 0
  /\ capacity' = 0
  /\ buckets' = EmptyChains(0)
  /\ UNCHANGED <<newBuckets, index, call, result>>

PutStep == RehashNode \/ RehashNextBucket \/ RehashDone \/ Insert \/ InsertFails

Next ==
  \/ MapInit \/ MapInitFails \/ MapFree
  \/ \E k \in Keys, v \in Storable : MapPut(k, v) \/ MapPutCannotResize(k, v)
  \/ \E k \in Keys : MapGet(k) \/ MapDelete(k)
  \/ PutStep

Spec == Init /\ [][Next]_vars

-----------------------------------------------------------------------------
(* The nodes linked in an array of chains, and those the map owns: while    *)
(* map_resize runs a node is in one array or the other.                     *)
NodesIn(chains) == UNION {{chains[b][i] : i \in DOMAIN chains[b]} : b \in DOMAIN chains}
Nodes == NodesIn(buckets) \cup NodesIn(newBuckets)

(* Every node is in the chain its hash selects: a search looks nowhere else *)
(* (map_get, map_delete and map_put compute the index afresh, and a resize  *)
(* changes it for nodes that are already linked).                           *)
Placed(chains, cap) ==
  \A b \in DOMAIN chains : \A i \in DOMAIN chains[b] :
    BucketOf(chains[b][i].key, cap) = b

(* No chain has two nodes for one key: map_delete would uncover the second. *)
Distinct(chains) ==
  \A b \in DOMAIN chains : \A i, j \in DOMAIN chains[b] :
    chains[b][i].key = chains[b][j].key => i = j

(* Placement and distinctness in the live array at every step, and in the   *)
(* array under construction while map_resize runs (lines 188-199).          *)
WellPlaced ==
  /\ Placed(buckets, capacity) /\ Distinct(buckets)
  /\ Placed(newBuckets, 2 * capacity) /\ Distinct(newBuckets)

(* A resize neither loses nor duplicates a node, at every step of it: the   *)
(* chains behind i are drained, no key is in both arrays, and size counts   *)
(* the nodes of the two together.                                           *)
NothingLost ==
  /\ \A b \in 0 .. index - 1 : buckets[b] = <<>>
  /\ \A n \in NodesIn(buckets), m \in NodesIn(newBuckets) : n.key # m.key
  /\ IsFiniteSet(Nodes) /\ size = Cardinality(Nodes)

(* The load factor holds the chains short: a put inserts at most one node   *)
(* beyond the threshold it checked (line 72), whatever failed before.       *)
LoadBounded == pc = "idle" => 4 * (size - 1) < 3 * capacity

(* The contents the map stands for.                                         *)
Contents == [k \in {n.key : n \in Nodes} |-> (CHOOSE n \in Nodes : n.key = k).value]

(* The map is a dictionary: each call has the effect and the result the    *)
(* dictionary's operation has, a put that refuses changes nothing, and no   *)
(* step of a resize is visible in the contents.                             *)
Putting == pc \in {"rehash", "insert"}
Abstract == INSTANCE Dictionary WITH dict <- Contents, putting <- Putting
DictionarySpec == Abstract!Spec
=============================================================================
