------------------------------- MODULE Stack -------------------------------
(***************************************************************************)
(* src/libstd/src/types/stack.c: the stack libcli keeps a command's errors  *)
(* on.  The top is the first node.  data, next and live are malloc's memory:  *)
(* SharedHeap has others use it.                                           *)
(***************************************************************************)
EXTENDS Nodes

CONSTANTS Items, None

VARIABLES head,    \* s->head
          size,    \* s->size
          data,    \* each node's data
          next,    \* each node's next
          live,    \* the nodes malloc handed out and free did not take back
          asked,   \* 0 if the last call was about an item, the top; else -1
          result   \* what it returned

vars == <<head, size, data, next, live, asked, result>>

Nodes == NodesFrom(head, next)

(* stack_init *)
Init ==
  /\ head = Null /\ size = 0
  /\ data \in [Addresses -> {None}] /\ next \in [Addresses -> {Null}]
  /\ live = {} /\ asked = -1 /\ result = None

MutStackPushAtBottom(x) ==
  /\ \E n \in Addresses \ live :
       /\ live' = live \cup {n}
       /\ data' = [data EXCEPT ![n] = x]
       /\ next' = IF head = Null THEN [next EXCEPT ![n] = Null]
                  ELSE [next EXCEPT ![Last(Nodes)] = n, ![n] = Null]
       /\ head' = IF head = Null THEN n ELSE head
  /\ size' = size + 1
  /\ asked' = -1
  /\ result' = "yes"

StackPush(x) ==
  /\ \E n \in Addresses \ live :
       /\ live' = live \cup {n}
       /\ data' = [data EXCEPT ![n] = x]
       /\ next' = [next EXCEPT ![n] = head]
       /\ head' = n
  /\ size' = size + 1
  /\ asked' = -1
  /\ result' = "yes"

StackPushFails ==
  /\ asked' = -1
  /\ result' = "no"
  /\ UNCHANGED <<head, size, data, next, live>>

MutStackPopKeepsNode ==
  /\ head # Null
  /\ head' = next[head]
  /\ asked' = 0
  /\ result' = data[head]
  /\ size' = size - 1
  /\ UNCHANGED <<data, next, live>>

StackPop ==
  /\ head # Null
  /\ head' = next[head]
  /\ asked' = 0
  /\ result' = data[head]
  /\ live' = live \ {head}
  /\ size' = size - 1
  /\ UNCHANGED <<data, next>>

StackPopEmpty ==
  /\ head = Null
  /\ asked' = -1
  /\ result' = None
  /\ UNCHANGED <<head, size, data, next, live>>

StackPeek ==
  /\ asked' = IF head = Null THEN -1 ELSE 0
  /\ result' = IF head = Null THEN None ELSE data[head]
  /\ UNCHANGED <<head, size, data, next, live>>

StackFree ==
  /\ live' = live \ NodesOf(Nodes)
  /\ head' = Null /\ size' = 0
  /\ asked' = -1
  /\ result' = None
  /\ UNCHANGED <<data, next>>

Next ==
  \/ \E x \in Items : StackPush(x)
  \/ StackPushFails \/ StackPop \/ StackPopEmpty \/ StackPeek \/ StackFree

Spec == Init /\ [][Next]_vars

-----------------------------------------------------------------------------
(* Properties *)

(* The stack is the sequence of what was pushed and not popped, the last pushed first: an item *)
(* enters in front and nowhere else, and stack_pop and stack_peek return the one in front.     *)
Held == INSTANCE Sequence
          WITH seq <- [i \in DOMAIN Nodes |-> data[Nodes[i]]],
               Offers <- {"InsertFirst", "GetFirst", "TakeFirst"}
HoldsTheSequence == Held!Spec
=============================================================================
