----------------------------- MODULE LinkedList -----------------------------
(***************************************************************************)
(* src/libstd/src/types/list.c: a singly linked list.                      *)
(*                                                                         *)
(* list_add does not write the next field of the node it adds: the field     *)
(* keeps what the memory held, which is Null on a good day, the address a     *)
(* node that was freed had there, or no address at all.  list_get and        *)
(* list_delete count their steps by size and stay inside the list; list_add  *)
(* and list_free walk until they read Null, so the next of them goes wherever *)
(* that field leads: past the list (it strays, into the stack's nodes or into *)
(* freed memory) or into no memory at all (it crashes, or never returns).     *)
(* What the program does after that is not modelled.                        *)
(*                                                                         *)
(* data, next and live are malloc's memory: SharedHeap has others use it.   *)
(***************************************************************************)
EXTENDS Nodes

CONSTANTS Items, None

VARIABLES head,    \* list->head
          size,    \* list->size
          data,    \* each node's data
          next,    \* each node's next
          live,    \* the nodes malloc handed out and free did not take back
          walk,    \* how list_add and list_free have walked: "sound", "strayed" or "crashed"
          asked,   \* the index the last call was about, -1 if it was about none
          result   \* what it returned

vars == <<head, size, data, next, live, walk, asked, result>>

(* The nodes list_get and list_delete can step to *)
Nodes == [i \in 1..size |-> Hops(head, next)[i - 1]]

(* list_init *)
Init ==
  /\ head = Null /\ size = 0
  /\ data \in [Addresses -> {None}] /\ next \in [Addresses -> {Null}]
  /\ live = {} /\ walk = "sound" /\ asked = -1 /\ result = None

(* A walk that reads Null at last links or frees all it met; *)
Walked(met) == walk' = IF met = Nodes THEN walk ELSE "strayed"

(* one that does not, or that meets a node that was freed, may crash. *)
CanCrash(met, end, allocated) == end # Null \/ ~(NodesOf(met) \subseteq allocated)

(* The memory once malloc returned n: its next holds what n held when it was freed, or anything *)
Fresh(n) == {[next EXCEPT ![n] = leftover] : leftover \in {Null, Wild, next[n]}}

(* The new node goes behind the last node met; its own next keeps what was there. *)
ListAdd(x) ==
  /\ \E n \in Addresses \ live : \E memory \in Fresh(n) :
       LET met == NodesFrom(head, memory)
       IN /\ EndOf(head, memory) = Null
          /\ live' = live \cup {n}
          /\ data' = [data EXCEPT ![n] = x]
          /\ \/ head = Null /\ head' = n /\ next' = memory
             \/ head # Null /\ next' = [memory EXCEPT ![Last(met)] = n] /\ UNCHANGED head
          /\ Walked(met)
  /\ size' = size + 1
  /\ asked' = -1 /\ result' = "yes"

ListAddFails ==
  /\ asked' = -1 /\ result' = "no"
  /\ UNCHANGED <<head, size, data, next, live, walk>>

ListAddCrashes ==
  /\ \E n \in Addresses \ live : \E memory \in Fresh(n) :
       CanCrash(NodesFrom(head, memory), EndOf(head, memory), live \cup {n})
  /\ walk' = "crashed"
  /\ UNCHANGED <<head, size, data, next, live, asked, result>>

ListGet(index) ==
  /\ asked' = index
  /\ result' = IF index >= size THEN None ELSE data[Nodes[index + 1]]
  /\ UNCHANGED <<head, size, data, next, live, walk>>

MutUnlinkSkipsHead(index) ==
  /\ next' = IF index = 0 THEN next
             ELSE [next EXCEPT ![Nodes[index]] = next[Nodes[index + 1]]]
  /\ UNCHANGED head

Unlink(index) ==
  \/ /\ index = 0
     /\ head' = next[head]
     /\ UNCHANGED next
  \/ /\ index > 0
     /\ next' = [next EXCEPT ![Nodes[index]] = next[Nodes[index + 1]]]
     /\ UNCHANGED head

ListDelete(index) ==
  /\ index < size
  /\ Unlink(index)
  /\ live' = live \ {Nodes[index + 1]}
  /\ size' = size - 1
  /\ asked' = index /\ result' = "yes"
  /\ UNCHANGED <<data, walk>>

ListDeleteOutside(index) ==
  /\ index >= size
  /\ asked' = index /\ result' = "no"
  /\ UNCHANGED <<head, size, data, next, live, walk>>

ListFree ==
  LET met == NodesFrom(head, next)
  IN /\ EndOf(head, next) = Null
     /\ live' = live \ NodesOf(met)
     /\ Walked(met)
     /\ head' = Null /\ size' = 0
     /\ asked' = -1 /\ result' = None
     /\ UNCHANGED <<data, next>>

ListFreeCrashes ==
  /\ CanCrash(NodesFrom(head, next), EndOf(head, next), live)
  /\ walk' = "crashed"
  /\ UNCHANGED <<head, size, data, next, live, asked, result>>

Next ==
  /\ walk = "sound"
  /\ \/ \E x \in Items : ListAdd(x)
     \/ ListAddFails \/ ListAddCrashes
     \/ \E index \in 0..Cardinality(Addresses) :
          ListGet(index) \/ ListDelete(index) \/ ListDeleteOutside(index)
     \/ ListFree \/ ListFreeCrashes

Spec == Init /\ [][Next]_vars

-----------------------------------------------------------------------------
(* Properties *)

(* Until a walk strays, the list is the sequence of what was added at its end and not deleted: *)
(* list_get returns the item at the index, an addition that fails changes nothing.             *)
Held == INSTANCE Sequence
          WITH seq <- [i \in DOMAIN Nodes |-> data[Nodes[i]]],
               Offers <- {"InsertLast", "Get", "Delete"}
HoldsTheSequence == Held!Init /\ [][walk' = "strayed" \/ Held!Next]_(Held!vars)
=============================================================================
