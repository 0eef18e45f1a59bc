----------------------------- MODULE SharedHeap -----------------------------
(***************************************************************************)
(* A list and a stack of src/libstd whose nodes come from the same malloc:   *)
(* a node either of them frees may be the next one the other is given, with  *)
(* the data and next it held.  libcli keeps a command's errors on a stack    *)
(* for as long as the command lives, whatever else the program allocates.   *)
(*                                                                         *)
(* There are at most Cardinality(Addresses) nodes in use at once.           *)
(***************************************************************************)
EXTENDS Nodes

CONSTANTS Items, None

VARIABLES listHead, listSize, listAsked, listResult,
          stackHead, stackSize, stackAsked, stackResult,
          data, next, live,   \* malloc's memory
          walk                \* how the list has walked it

list == <<listHead, listSize, listAsked, listResult>>
stack == <<stackHead, stackSize, stackAsked, stackResult>>
heapVars == <<list, stack, data, next, live, walk>>

List == INSTANCE LinkedList
          WITH head <- listHead, size <- listSize, asked <- listAsked, result <- listResult
Errors == INSTANCE Stack
          WITH head <- stackHead, size <- stackSize, asked <- stackAsked, result <- stackResult

HeapInit == List!Init /\ Errors!Init

HeapNext ==
  \/ List!Next /\ UNCHANGED stack
  \/ walk = "sound" /\ Errors!Next /\ UNCHANGED <<list, walk>>

HeapSpec == HeapInit /\ [][HeapNext]_heapVars

-----------------------------------------------------------------------------
(* Properties *)

(* Each node malloc handed out belongs to the list or to the stack, never to both, and to none  *)
(* once it was freed: in whatever order the two are used, nothing is freed twice, freed while in *)
(* use, or leaked, as long as no list_add or list_free walked past the list's own last node.     *)
EachNodeHasAnOwner ==
  walk = "sound" =>
    /\ NodesOf(List!Nodes) \cap NodesOf(Errors!Nodes) = {}
    /\ live = NodesOf(List!Nodes) \cup NodesOf(Errors!Nodes)

(* Until a walk strays the list is the sequence of what was added at its end and not deleted    *)
(* (list_add, list_get, list_delete), whatever became of the nodes it freed.                    *)
ListHoldsTheSequence == List!HoldsTheSequence

(* Last in, first out: stack_pop and stack_peek return what was pushed last and not popped yet, *)
(* until a walk of the list strays and links a node into the stack.                             *)
StackHoldsTheSequence ==
  Errors!Held!Init /\ [][walk' = "strayed" \/ Errors!Held!Next]_(Errors!Held!vars)

(* adt_test.c:38-40 adds three items to a list, each expected to succeed and no more.          *)
NeverCrashes == walk # "crashed"
=============================================================================
