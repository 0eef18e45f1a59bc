------------------------------- MODULE Vector -------------------------------
(***************************************************************************)
(* src/libstd/src/types/vector.c: a growing array.                         *)
(*                                                                         *)
(* The array has room for what capacity says only when every realloc worked:*)
(* vector_init does not look at what malloc returned, and vector_add doubles*)
(* capacity before it knows whether realloc found the memory.  The block is *)
(* therefore modelled beside capacity.  vector_add goes by capacity alone:   *)
(* once it answered no, the next call writes past the block and answers yes. *)
(* What the program does after that is undefined, and the model stops there.*)
(*                                                                         *)
(* vector_free leaves items dangling; nothing in the repository uses a      *)
(* vector after freeing it, except to ask its size.                        *)
(***************************************************************************)
EXTENDS Integers, Sequences, SequencesExt

CONSTANTS Items, None,
          InitialCapacity,  \* 4 in vector_init
          Memory            \* realloc finds no memory for more items

ASSUME VectorAssumption ==
  InitialCapacity \in Nat \ {0} /\ Memory \in Nat /\ InitialCapacity <= Memory

VARIABLES capacity,  \* v->capacity
          size,      \* v->size
          items,     \* the items before size
          block,     \* the number of items the memory at v->items has room for, 0 at nullptr
          phase,     \* "used", "freed", or "overrun": an item was written past the block
          refused,   \* history: malloc or realloc has refused the vector memory
          asked,     \* the index the last call was about, -1 if it was about none
          result     \* what it returned

vars == <<capacity, size, items, block, phase, refused, asked, result>>

(* vector_init *)
Init ==
  /\ capacity = InitialCapacity /\ size = 0 /\ items = <<>>
  /\ block \in {InitialCapacity, 0} /\ refused = (block = 0)
  /\ phase = "used" /\ asked = -1 /\ result = None

(* v->items[v->size++] = item *)
Store(x) ==
  /\ items' = Append(items, x)
  /\ size' = size + 1
  /\ asked' = -1 /\ result' = "yes"
  /\ UNCHANGED refused

VectorAdd(x) ==
  /\ phase = "used" /\ size # capacity /\ size < block
  /\ Store(x)
  /\ UNCHANGED <<capacity, block, phase>>

(* The same code, where the block ends at or before size *)
VectorAddOverruns(x) ==
  /\ phase = "used" /\ size # capacity /\ size >= block
  /\ Store(x)
  /\ phase' = "overrun"
  /\ UNCHANGED <<capacity, block>>

MutVectorGrowReallocsTheSame(x) ==
  /\ phase = "used" /\ size = capacity /\ 2 * capacity <= Memory
  /\ capacity' = 2 * capacity
  /\ block' = capacity
  /\ Store(x)
  /\ UNCHANGED phase

(* realloc makes a block of the new capacity, or *)
VectorGrow(x) ==
  /\ phase = "used" /\ size = capacity /\ 2 * capacity <= Memory
  /\ capacity' = 2 * capacity
  /\ block' = 2 * capacity
  /\ Store(x)
  /\ UNCHANGED phase

(* finds no memory and leaves the old one. *)
VectorCannotGrow ==
  /\ phase = "used" /\ size = capacity
  /\ capacity' = 2 * capacity
  /\ refused' = TRUE
  /\ asked' = -1 /\ result' = "no"
  /\ UNCHANGED <<size, items, block, phase>>

VectorSet(index, x) ==
  /\ items' = IF index < size THEN [items EXCEPT ![index + 1] = x] ELSE items
  /\ asked' = index /\ result' = None
  /\ UNCHANGED <<capacity, size, block, phase, refused>>

VectorGet(index) ==
  /\ asked' = index
  /\ result' = IF index < size THEN items[index + 1] ELSE None
  /\ UNCHANGED <<capacity, size, items, block, phase, refused>>

MutVectorDeleteMovesNothing(index) ==
  /\ index < size
  /\ items' = SubSeq(items, 1, size - 1)
  /\ size' = size - 1
  /\ asked' = index /\ result' = "yes"
  /\ UNCHANGED <<capacity, block, phase, refused>>

VectorDelete(index) ==
  /\ index < size
  /\ items' = SubSeq(items, 1, index) \o SubSeq(items, index + 2, size)
  /\ size' = size - 1
  /\ asked' = index /\ result' = "yes"
  /\ UNCHANGED <<capacity, block, phase, refused>>

VectorDeleteOutside(index) ==
  /\ index >= size
  /\ asked' = index /\ result' = "no"
  /\ UNCHANGED <<capacity, size, items, block, phase, refused>>

VectorFree ==
  /\ phase = "used"
  /\ size' = 0 /\ capacity' = 0 /\ items' = <<>> /\ block' = 0
  /\ phase' = "freed"
  /\ asked' = -1 /\ result' = None
  /\ UNCHANGED refused

(* Every index from size on is outside; size stands for them. *)
Use ==
  \/ \E x \in Items : VectorAdd(x) \/ VectorAddOverruns(x) \/ VectorGrow(x)
  \/ VectorCannotGrow
  \/ \E index \in 0..size :
       \/ VectorGet(index) \/ VectorDelete(index) \/ VectorDeleteOutside(index)
       \/ \E x \in Items : VectorSet(index, x)

Next == phase # "overrun" /\ (Use \/ VectorFree)

Spec == Init /\ [][Next]_vars

-----------------------------------------------------------------------------
(* Properties *)

(* Type invariant.  Also: size counts the items, and stays within capacity. *)
TypeOK ==
  /\ capacity \in Nat /\ size \in 0..capacity /\ block \in Nat
  /\ items \in Seq(Items) /\ size = Len(items)
  /\ phase \in {"used", "freed", "overrun"} /\ refused \in BOOLEAN

(* As long as vector_init found memory and vector_add never answered no, vector_get, vector_set *)
(* and vector_delete, which check an index against size and never look at capacity, stay inside  *)
(* the block (vector.c:52-71).  Nobody in the repository stops at a no; after it they may not.   *)
WithinBlock == size > block => refused

(* The vector is the sequence of what was added at its end and not deleted, up to and with the  *)
(* first item that overruns the block.                                                          *)
Held == INSTANCE Sequence
          WITH seq <- items, Offers <- {"InsertLast", "Get", "Set", "Delete"}
HoldsTheSequence == Held!Spec
=============================================================================
