------------------------------ MODULE CliProofs ------------------------------
(***************************************************************************)
(* The vector, the dstring and the cli that keeps both, for every memory,    *)
(* every set of items and every line: a vector's items are the sequence that *)
(* was added, and stay inside its block until memory is refused; a string's  *)
(* count is the number of its references; the cli's are such a vector and    *)
(* such strings, and parsing adds the line to the vector.                    *)
(***************************************************************************)
EXTENDS Cli, SequenceTheorems, FiniteSetTheorems, TLAPS

-----------------------------------------------------------------------------
(* The vector                                                              *)

(* capacity is 0 only after vector_free: without this, doubling 0 would make no room.  It tells *)
(* the size of the block until memory is refused, and after that one addition may overrun it.   *)
VectorInv ==
  /\ TypeOK
  /\ phase = "used" => capacity > 0
  /\ phase # "overrun" => size <= block
  /\ refused \/ block = capacity

(* vector_init leaves room, or no block at all. *)
LEMMA VectorInitially == Init => VectorInv
<1> SUFFICES ASSUME Init PROVE VectorInv
  OBVIOUS
<1>1. /\ capacity = InitialCapacity /\ size = 0 /\ items = <<>> /\ phase = "used"
      /\ block \in {InitialCapacity, 0}
  BY DEF Init
<1>2. refused \in BOOLEAN /\ (block = 0 => refused)
  BY Zenon DEF Init
<1>3. refused \/ block = capacity
  BY <1>1, <1>2
<1>4. items \in Seq(Items) /\ Len(items) = 0 /\ block \in Nat /\ capacity \in Nat /\ capacity > 0
  BY <1>1, VectorAssumption, EmptySeq
<1>. QED BY <1>1, <1>2, <1>3, <1>4 DEF VectorInv, TypeOK

LEMMA BlockHoldsTheItems == VectorInv => WithinBlock
BY DEF VectorInv, TypeOK, WithinBlock

(* Removing one item of a sequence keeps the rest. *)
LEMMA RemovedItem ==
  ASSUME NEW S, NEW s \in Seq(S), NEW i \in 0..(Len(s) - 1)
  PROVE  /\ SubSeq(s, 1, i) \o SubSeq(s, i + 2, Len(s)) \in Seq(S)
         /\ Len(SubSeq(s, 1, i) \o SubSeq(s, i + 2, Len(s))) = Len(s) - 1
<1>1. SubSeq(s, 1, i) \in Seq(S) /\ Len(SubSeq(s, 1, i)) = i
  <2>1. \A j \in 1..i : s[j] \in S
    BY ElementOfSeq
  <2>. QED BY <2>1, SubSeqProperties
<1>2. SubSeq(s, i + 2, Len(s)) \in Seq(S) /\ Len(SubSeq(s, i + 2, Len(s))) = Len(s) - i - 1
  <2>1. \A j \in (i + 2)..Len(s) : s[j] \in S
    BY ElementOfSeq
  <2>. QED BY <2>1, SubSeqProperties
<1>3. i \in Nat /\ Len(s) \in Nat
  BY LenProperties
<1>4. i + (Len(s) - i - 1) = Len(s) - 1
  BY <1>3
<1> DEFINE front == SubSeq(s, 1, i)
<1> DEFINE back == SubSeq(s, i + 2, Len(s))
<1>5. front \in Seq(S) /\ back \in Seq(S) /\ Len(front) + Len(back) = Len(s) - 1
  BY <1>1, <1>2, <1>4
<1> HIDE DEF front, back
<1>6. front \o back \in Seq(S) /\ Len(front \o back) = Len(front) + Len(back)
  BY <1>5, ConcatProperties
<1>. QED BY <1>5, <1>6 DEF front, back

(* Every operation keeps the invariant. *)
LEMMA VectorStep == VectorInv /\ [Next]_vars => VectorInv'
<1> SUFFICES ASSUME VectorInv, [Next]_vars PROVE VectorInv'
  OBVIOUS
<1> USE VectorAssumption DEF VectorInv, TypeOK
<1>1. ASSUME NEW x \in Items, VectorAdd(x) PROVE VectorInv'
  <2>1. Append(items, x) \in Seq(Items) /\ Len(Append(items, x)) = Len(items) + 1
    BY AppendProperties
  <2>. QED BY <1>1, <2>1 DEF VectorAdd, Store
<1>2. ASSUME NEW x \in Items, VectorGrow(x) PROVE VectorInv'
  <2>1. Append(items, x) \in Seq(Items) /\ Len(Append(items, x)) = Len(items) + 1
    BY AppendProperties
  <2>. QED BY <1>2, <2>1 DEF VectorGrow, Store
<1>3. CASE VectorCannotGrow
  <2>1. capacity' \in Nat /\ capacity' >= capacity
    BY <1>3 DEF VectorCannotGrow
  <2>2. UNCHANGED <<size, items, block, phase>> /\ refused' = TRUE
    BY <1>3 DEF VectorCannotGrow
  <2>. QED BY <2>1, <2>2
<1>4. ASSUME NEW x \in Items, VectorAddOverruns(x) PROVE VectorInv'
  <2>1. Append(items, x) \in Seq(Items) /\ Len(Append(items, x)) = Len(items) + 1
    BY AppendProperties
  <2>2. size < capacity /\ size' = size + 1 /\ items' = Append(items, x) /\ phase' = "overrun"
        /\ UNCHANGED <<capacity, block, refused>>
    BY <1>4 DEF VectorAddOverruns, Store
  <2>. QED BY <2>1, <2>2
<1>5. ASSUME NEW index \in 0..size, VectorGet(index) PROVE VectorInv'
  BY <1>5 DEF VectorGet
<1>6. ASSUME NEW index \in 0..size, VectorDelete(index) PROVE VectorInv'
  <2>1. index \in 0..(Len(items) - 1)
    BY <1>6 DEF VectorDelete
  <2>2. items' \in Seq(Items) /\ Len(items') = Len(items) - 1
    BY <1>6, <2>1, RemovedItem DEF VectorDelete
  <2>3. size' \in 0..capacity /\ size' <= size
    BY <1>6 DEF VectorDelete
  <2>4. size' = Len(items') /\ UNCHANGED <<capacity, block, phase, refused>>
    BY <1>6, <2>2 DEF VectorDelete
  <2>. QED BY <2>2, <2>3, <2>4
<1>7. ASSUME NEW index \in 0..size, VectorDeleteOutside(index) PROVE VectorInv'
  BY <1>7 DEF VectorDeleteOutside
<1>8. ASSUME NEW index \in 0..size, NEW x \in Items, VectorSet(index, x) PROVE VectorInv'
  BY <1>8 DEF VectorSet
<1>9. CASE VectorFree
  BY <1>9 DEF VectorFree
<1>10. CASE UNCHANGED vars
  BY <1>10 DEF vars
<1>. QED
  BY <1>1, <1>2, <1>3, <1>4, <1>5, <1>6, <1>7, <1>8, <1>9, <1>10 DEF Next, Use

LEMMA VectorInvariance == Spec => []VectorInv
BY VectorInitially, VectorStep, PTL DEF Spec

(* vector.c keeps its size, its items and its capacity consistent. *)
THEOREM VectorTypeCorrect == Spec => []TypeOK
BY VectorInvariance, PTL DEF VectorInv

(* Until vector_init or vector_add is refused memory, vector_get, vector_set and vector_delete   *)
(* stay inside the block.                                                                        *)
THEOREM StaysWithinBlock == Spec => []WithinBlock
BY VectorInvariance, BlockHoldsTheItems, PTL

-----------------------------------------------------------------------------
(* The vector implements the sequence. *)

(* vector_init makes an empty one. *)
LEMMA VectorInitImplements == Init => Held!Init
BY DEF Init, Held!Init

(* Each operation is one of the sequence's on the same index, with the same result; an *)
(* addition that overruns still puts its item behind the last.                         *)
LEMMA VectorStepImplements ==
  VectorInv /\ [Next]_vars => [Held!Next]_(Held!vars)
<1> SUFFICES ASSUME VectorInv, [Next]_vars PROVE Held!Next \/ UNCHANGED <<items, asked, result>>
  BY DEF Held!vars
<1> USE DEF VectorInv, TypeOK
<1>1. ASSUME NEW x \in Items, VectorAdd(x) \/ VectorAddOverruns(x) \/ VectorGrow(x) PROVE Held!Next
  BY <1>1 DEF VectorAdd, VectorAddOverruns, VectorGrow, Store, Held!Next, Held!InsertLast
<1>2. CASE VectorCannotGrow
  BY <1>2 DEF VectorCannotGrow, Held!Next, Held!Refuse
<1>4. ASSUME NEW index \in 0..size, VectorGet(index) PROVE Held!Next
  <2>1. CASE index < size
    BY <1>4, <2>1 DEF VectorGet, Held!Next, Held!Get, Held!Indexes
  <2>2. CASE index >= size
    BY <1>4, <2>2 DEF VectorGet, Held!Next, Held!Missing, Held!Indexes
  <2>. QED BY <2>1, <2>2
<1>5. ASSUME NEW index \in 0..size, VectorDelete(index) PROVE Held!Next
  <2>1. index \in Held!Indexes
    BY <1>5 DEF VectorDelete, Held!Indexes
  <2>2. items' = Held!RemoveAt(items, index + 1)
    <3> DEFINE i == index + 1
    <3>1. i - 1 = index /\ i + 1 = index + 2
      OBVIOUS
    <3> HIDE DEF i
    <3>2. Held!RemoveAt(items, i) = SubSeq(items, 1, i - 1) \o SubSeq(items, i + 1, Len(items))
      BY DEF Held!RemoveAt
    <3>3. items' = SubSeq(items, 1, index) \o SubSeq(items, index + 2, Len(items))
      BY <1>5 DEF VectorDelete
    <3>4. items' = Held!RemoveAt(items, i)
      BY ONLY <3>1, <3>2, <3>3, Zenon
    <3>. QED BY <3>4 DEF i
  <2>3. Held!Delete(index)
    BY <1>5, <2>2 DEF VectorDelete, Held!Delete
  <2>. QED BY <2>1, <2>3 DEF Held!Next
<1>6. ASSUME NEW index \in 0..size, VectorDeleteOutside(index) PROVE Held!Next
  BY <1>6 DEF VectorDeleteOutside, Held!Next, Held!Missing, Held!Indexes
<1>7. ASSUME NEW index \in 0..size, NEW x \in Items, VectorSet(index, x) PROVE Held!Next
  <2>1. CASE index < size
    <3>1. index \in Held!Indexes /\ Held!Set(index, x)
      BY <1>7, <2>1 DEF VectorSet, Held!Set, Held!Indexes
    <3>. QED BY <3>1 DEF Held!Next
  <2>2. CASE index >= size
    BY <1>7, <2>2 DEF VectorSet, Held!Next, Held!Missing, Held!Indexes
  <2>. QED BY <2>1, <2>2
<1>8. CASE VectorFree
  BY <1>8 DEF VectorFree, Held!Next, Held!Clear
<1>9. CASE UNCHANGED vars
  BY <1>9 DEF vars
<1>. QED
  BY <1>1, <1>2, <1>4, <1>5, <1>6, <1>7, <1>8, <1>9 DEF Next, Use

(* vector.c keeps the promise of a sequence whose items enter at the end, up to the first *)
(* addition that overruns the block.                                                      *)
THEOREM VectorImplements == Spec => HoldsTheSequence
BY VectorInvariance, VectorInitImplements, VectorStepImplements, PTL DEF Spec, HoldsTheSequence, Held!Spec

-----------------------------------------------------------------------------
(* The reference count of a dstring, as long as sds finds memory.  The         *)
(* invariant is inductive once it has its types; what each step adds is who    *)
(* holds the string it is about.                                              *)

Record == [count : Int, text : BOOLEAN]

StringTypes ==
  /\ strings \in [Live -> Record] /\ Live \subseteq Cells
  /\ ref \in [Variables -> Cells \cup {Nil}]
  /\ starved \in BOOLEAN

StringInv == StringTypes /\ CountsItsReferences

(* The variables that hold a string are finitely many. *)
LEMMA HoldersFinite == \A c : IsFiniteSet(Holders(c)) /\ Cardinality(Holders(c)) \in Nat
<1> TAKE c
<1>1. Holders(c) \subseteq Variables
  BY DEF Holders
<1>. QED BY <1>1, CellsAssumption, FS_Subset, FS_CardinalityType

LEMMA StringInitially == StringInit => StringInv
BY DEF StringInit, StringInv, StringTypes, CountsItsReferences, Live

(* There is a fresh cell where there is room. *)
LEMMA FreshCell == Cells \ Live # {} => Fresh \in Cells /\ Fresh \notin Live
BY DEF Fresh

LEMMA NewStringKeeps == ASSUME StringInv, NEW v \in Variables, NewString(v) PROVE StringInv'
<1>1. PICK f \in Cells : f = Fresh /\ f \notin Live
  BY FreshCell DEF NewString
<1>2. PICK there \in BOOLEAN :
        /\ strings' = With(f, [count |-> 1, text |-> there])
        /\ starved' = (starved \/ ~there)
  BY <1>1 DEF NewString
<1>3. ref' = [ref EXCEPT ![v] = f] /\ ref[v] = Nil /\ process' = process
  BY <1>1 DEF NewString
<1>4. Live' = Live \cup {f}
  BY <1>2 DEF With, Live
<1>5. /\ strings'[f] = [count |-> 1, text |-> there]
      /\ \A c \in Live : strings'[c] = strings[c]
  BY <1>1, <1>2 DEF With, Live
<1>6. StringTypes'
  BY <1>1, <1>2, <1>3, <1>4 DEF StringInv, StringTypes, With, Live, Record
<1>7. ASSUME ~starved' PROVE CountsItsReferences'
  <2>1. ~starved /\ there = TRUE
    BY <1>2, <1>7
  <2>2. \A w \in Variables : ref[w] # f
    BY <1>1, <2>1, CellsAssumption DEF StringInv, CountsItsReferences
  <2>3. Holders(f)' = {v}
    BY <1>3, <2>2 DEF Holders, StringInv, StringTypes
  <2>4. \A c \in Live : Holders(c)' = Holders(c)
    BY <1>1, <1>3, CellsAssumption DEF Holders, StringInv, StringTypes
  <2>5. \A c \in Live' : strings'[c].text /\ strings'[c].count = Cardinality(Holders(c)')
                           /\ strings'[c].count > 0
    <3> SUFFICES ASSUME NEW c \in Live'
                 PROVE strings'[c].text /\ strings'[c].count = Cardinality(Holders(c)')
                         /\ strings'[c].count > 0
      OBVIOUS
    <3>1. CASE c = f
      <4>1. Cardinality({v}) = 1
        BY FS_Singleton
      <4>2. Holders(c)' = {v}
        BY <2>3, <3>1
      <4>. QED BY <1>5, <2>1, <3>1, <4>1, <4>2
    <3>2. CASE c \in Live
      BY <3>2, <1>5, <2>1, <2>4 DEF StringInv, CountsItsReferences
    <3>. QED BY <3>1, <3>2, <1>4
  <2>6. \A w \in Variables : ref'[w] \in Live' \cup {Nil}
    BY <1>3, <1>4, <2>1 DEF StringInv, StringTypes, CountsItsReferences
  <2>. QED BY <2>1, <2>5, <2>6, <1>3 DEF CountsItsReferences, StringInv
<1>. QED BY <1>6, <1>7 DEF StringInv, CountsItsReferences

(* dstring_addref: one variable more, and one reference more *)
LEMMA AddRefKeeps ==
  ASSUME StringInv, NEW v \in Variables, NEW w \in Variables, AddRef(v, w) PROVE StringInv'
<1>1. PICK c \in Live : c = ref[v]
  BY DEF AddRef
<1>2. /\ ref' = [ref EXCEPT ![w] = c] /\ ref[w] = Nil
      /\ starved' = starved /\ process' = process
      /\ strings' = IF strings[c].text THEN [strings EXCEPT ![c].count = @ + 1] ELSE strings
  BY <1>1 DEF AddRef
<1>3. Live' = Live
  BY <1>2 DEF Live
<1>4. StringTypes'
  BY <1>1, <1>2, <1>3 DEF StringInv, StringTypes, Live, Record
<1>5. ASSUME ~starved PROVE CountsItsReferences'
  <2>1. strings[c].text /\ c # Nil
    BY <1>1, <1>5, CellsAssumption DEF StringInv, CountsItsReferences, StringTypes
  <2>2. Holders(c)' = Holders(c) \cup {w} /\ w \notin Holders(c)
    BY <1>2, <2>1 DEF Holders, StringInv, StringTypes
  <2>3. Cardinality(Holders(c)') = Cardinality(Holders(c)) + 1
    BY <2>2, HoldersFinite, FS_AddElement
  <2>4. \A d \in Live \ {c} : Holders(d)' = Holders(d) /\ strings'[d] = strings[d]
    BY <1>2, CellsAssumption DEF Holders, StringInv, StringTypes, Live
  <2>5. /\ strings'[c].text
        /\ strings'[c].count = strings[c].count + 1
    BY <1>1, <1>2, <2>1 DEF StringInv, StringTypes, Live, Record
  <2>6. /\ strings[c].count = Cardinality(Holders(c)) /\ strings[c].count > 0
        /\ strings[c].count \in Int
    BY <1>1, <1>5 DEF StringInv, CountsItsReferences, StringTypes, Record
  <2>7. strings'[c].count = Cardinality(Holders(c)') /\ strings'[c].count > 0
    BY <2>3, <2>5, <2>6
  <2>8. \A d \in Live' : /\ strings'[d].text /\ strings'[d].count = Cardinality(Holders(d)')
                         /\ strings'[d].count > 0
    BY <1>3, <1>5, <2>4, <2>5, <2>7 DEF StringInv, CountsItsReferences
  <2>9. \A u \in Variables : ref'[u] \in Live' \cup {Nil}
    BY <1>1, <1>2, <1>3, <1>5 DEF StringInv, StringTypes, CountsItsReferences
  <2>. QED BY <1>2, <1>5, <2>8, <2>9 DEF CountsItsReferences, StringInv
<1>. QED BY <1>2, <1>4, <1>5 DEF StringInv, CountsItsReferences

(* A variable is dropped with its string when no other holds it. *)
LEMMA FreeKeeps ==
  ASSUME StringInv, NEW v \in Variables, NEW c \in Live, ref[v] = c, strings' = Without(c),
         ref' = [ref EXCEPT ![v] = Nil], starved' = starved, process' = process,
         ~starved => Holders(c) = {v}
  PROVE  StringInv'
<1>1. Live' = Live \ {c} /\ \A d \in Live' : strings'[d] = strings[d]
  BY DEF Without, Live
<1>2. StringTypes'
  BY <1>1 DEF StringInv, StringTypes, Without, Live, Record
<1>3. ASSUME ~starved PROVE CountsItsReferences'
  <2>1. \A d \in Live' : Holders(d)' = Holders(d)
    BY <1>1, CellsAssumption DEF Holders, StringInv, StringTypes
  <2>2. \A d \in Live' : /\ strings'[d].text /\ strings'[d].count = Cardinality(Holders(d)')
                         /\ strings'[d].count > 0
    BY <1>1, <1>3, <2>1 DEF StringInv, CountsItsReferences
  <2>3. \A u \in Variables : ref'[u] \in Live' \cup {Nil}
    <3> SUFFICES ASSUME NEW u \in Variables PROVE ref'[u] \in Live' \cup {Nil}
      OBVIOUS
    <3>1. CASE u = v
      BY <3>1 DEF StringInv, StringTypes
    <3>2. CASE u # v
      <4>1. ref'[u] = ref[u] /\ ref[u] # c
        BY <1>3, <3>2 DEF StringInv, StringTypes, Holders
      <4>. QED BY <1>1, <1>3, <4>1 DEF StringInv, CountsItsReferences
    <3>. QED BY <3>1, <3>2
  <2>. QED BY <1>3, <2>2, <2>3 DEF CountsItsReferences, StringInv
<1>. QED BY <1>2, <1>3 DEF StringInv, CountsItsReferences

LEMMA FreeStringKeeps ==
  ASSUME StringInv, NEW v \in Variables, FreeString(v) PROVE StringInv'
<1>1. PICK c \in Live : c = ref[v]
  BY DEF FreeString
<1>. QED BY <1>1, FreeKeeps DEF FreeString

(* dstring_release: the last reference takes the string with it, any other only itself. *)
LEMMA ReleaseKeeps ==
  ASSUME StringInv, NEW v \in Variables, Release(v) PROVE StringInv'
<1>1. PICK c \in Live : c = ref[v]
  BY DEF Release
<1>2. /\ ref' = [ref EXCEPT ![v] = Nil] /\ starved' = starved /\ process' = process
      /\ strings' = IF strings[c].count - 1 < 1 THEN Without(c)
                    ELSE [strings EXCEPT ![c].count = @ - 1]
  BY <1>1 DEF Release
<1>3. strings[c].count \in Int /\ v \in Holders(c)
  BY <1>1 DEF StringInv, StringTypes, Record, Holders
<1>4. CASE strings[c].count - 1 < 1
  <2>1. ASSUME ~starved PROVE Holders(c) = {v}
    <3>1. Cardinality(Holders(c)) = 1
      BY <1>3, <1>4, <2>1, HoldersFinite DEF StringInv, CountsItsReferences
    <3>2. PICK u : Holders(c) = {u}
      BY <3>1, HoldersFinite, FS_Singleton
    <3>. QED BY <1>3, <3>2
  <2>. QED BY <1>1, <1>2, <1>4, <2>1, FreeKeeps
<1>5. CASE ~(strings[c].count - 1 < 1)
  <2>1. strings' = [strings EXCEPT ![c].count = @ - 1] /\ Live' = Live
    BY <1>2, <1>5 DEF Live
  <2>2. StringTypes'
    BY <1>1, <1>2, <1>3, <2>1 DEF StringInv, StringTypes, Live, Record
  <2>3. ASSUME ~starved PROVE CountsItsReferences'
    <3>1. Holders(c)' = Holders(c) \ {v}
      BY <1>1, <1>2, CellsAssumption DEF Holders, StringInv, StringTypes
    <3>2. Cardinality(Holders(c)') = Cardinality(Holders(c)) - 1
      BY <1>3, <3>1, HoldersFinite, FS_RemoveElement
    <3>3. \A d \in Live \ {c} : Holders(d)' = Holders(d) /\ strings'[d] = strings[d]
      BY <1>1, <1>2, <2>1, CellsAssumption DEF Holders, StringInv, StringTypes, Live
    <3>4. strings'[c].text = strings[c].text /\ strings'[c].count = strings[c].count - 1
      BY <2>1 DEF StringInv, StringTypes, Live, Record
    <3>5. strings'[c].count = Cardinality(Holders(c)') /\ strings'[c].count > 0
      BY <1>3, <1>5, <2>3, <3>2, <3>4 DEF StringInv, CountsItsReferences
    <3>6. \A d \in Live' : /\ strings'[d].text /\ strings'[d].count = Cardinality(Holders(d)')
                           /\ strings'[d].count > 0
      BY <2>1, <2>3, <3>3, <3>4, <3>5 DEF StringInv, CountsItsReferences
    <3>7. \A u \in Variables : ref'[u] \in Live' \cup {Nil}
      BY <1>2, <2>1, <2>3 DEF StringInv, StringTypes, CountsItsReferences
    <3>. QED BY <1>2, <2>3, <3>6, <3>7 DEF CountsItsReferences, StringInv
  <2>. QED BY <1>2, <2>2, <2>3 DEF StringInv, CountsItsReferences
<1>. QED BY <1>4, <1>5

(* A text that is lost leaves the count alone. *)
LEMMA CatKeeps ==
  ASSUME StringInv, NEW v \in Variables, NEW w \in Variables, Cat(v, w) PROVE StringInv'
<1>1. PICK c \in Live : c = ref[v]
  BY DEF Cat, HasText
<1>2. PICK there \in BOOLEAN :
        strings' = [strings EXCEPT ![c].text = there] /\ starved' = (starved \/ ~there)
  BY <1>1 DEF Cat
<1>3. ref' = ref /\ process' = process /\ Live' = Live
  BY <1>2 DEF Cat, Live
<1>4. StringTypes'
  BY <1>1, <1>2, <1>3 DEF StringInv, StringTypes, Live, Record
<1>5. ASSUME ~starved' PROVE CountsItsReferences'
  <2>1. ~starved /\ there = TRUE
    BY <1>2, <1>5
  <2>2. \A d \in Live : strings'[d].text = strings[d].text /\ strings'[d].count = strings[d].count
    BY <1>1, <1>2, <2>1 DEF StringInv, StringTypes, CountsItsReferences, Live, Record
  <2>3. \A d : Holders(d)' = Holders(d)
    BY <1>3 DEF Holders
  <2>. QED BY <1>3, <2>1, <2>2, <2>3 DEF StringInv, CountsItsReferences
<1>. QED BY <1>4, <1>5 DEF StringInv, CountsItsReferences

(* What only changes how the process fares keeps the invariant, unless it crashes, and it only *)
(* crashes on a string without its text or without a reference.                               *)
LEMMA ProcessKeeps ==
  ASSUME StringInv, UNCHANGED <<strings, ref, starved>>, ~starved => process' # "crashed" PROVE StringInv'
<1>1. Live' = Live /\ \A c : Holders(c)' = Holders(c)
  BY DEF Live, Holders
<1>. QED BY <1>1 DEF StringInv, StringTypes, CountsItsReferences, Record

LEMMA StringStep == StringInv /\ [StringNext]_stringVars => StringInv'
<1> SUFFICES ASSUME StringInv, [StringNext]_stringVars PROVE StringInv'
  OBVIOUS
<1>1. CASE NewStringExits
  BY <1>1, ProcessKeeps DEF NewStringExits
<1>2. ASSUME NEW v \in Variables, UseCrashes(v) PROVE StringInv'
  <2>1. starved
    BY <1>2 DEF UseCrashes, HasText, StringInv, CountsItsReferences
  <2>. QED BY <1>2, <2>1, ProcessKeeps DEF UseCrashes
<1>3. ASSUME NEW v \in Variables, NEW w \in Variables, CatItself(v, w) PROVE StringInv'
  BY <1>3, ProcessKeeps DEF CatItself
<1>4. CASE UNCHANGED stringVars
  <2>1. UNCHANGED <<strings, ref, starved>> /\ process' = process
    BY <1>4 DEF stringVars
  <2>. QED BY <2>1, ProcessKeeps DEF StringInv, CountsItsReferences
<1>5. ASSUME NEW v \in Variables, NEW w \in Variables, Dup(v, w) PROVE StringInv'
  BY <1>5, NewStringKeeps DEF Dup
<1>. QED
  BY <1>1, <1>2, <1>3, <1>4, <1>5, NewStringKeeps, ReleaseKeeps, FreeStringKeeps, AddRefKeeps,
     CatKeeps DEF StringNext

(* dstring.c: while sds finds memory, every count is the number of references, none of which *)
(* points to a freed string.                                                                *)
THEOREM ReferencesAreCounted == StringSpec => []CountsItsReferences
<1>1. StringInv => CountsItsReferences
  BY DEF StringInv
<1>. QED BY <1>1, StringInitially, StringStep, PTL DEF StringSpec

-----------------------------------------------------------------------------
(* The cli: its arguments are a vector and its strings are dstrings          *)

CliTypes ==
  /\ todo \in Seq(Variables) /\ added \in Nat
  /\ argv \in Seq(Items \cup {Empty}) /\ optind \in Nat \ {0}

LEMMA CliTypesInitially == CliInit => CliTypes
BY DEF CliInit, CliTypes

LEMMA CliTypesStep == CliTypes /\ [CliNext]_cliVars => CliTypes'
<1> SUFFICES ASSUME CliTypes, [CliNext]_cliVars PROVE CliTypes'
  OBVIOUS
<1>1. ASSUME UNCHANGED <<added, argv, optind>>,
             todo' = todo \/ todo' = Fields \/ (todo # <<>> /\ todo' = Tail(todo))
      PROVE  CliTypes'
  <2>1. todo # <<>> => Tail(todo) \in Seq(Variables)
    BY HeadTailProperties DEF CliTypes
  <2>2. Fields \in Seq(Variables)
    BY FieldsAssumption
  <2>. QED BY <1>1, <2>1, <2>2 DEF CliTypes
<1>2. CASE UseStrings \/ MakeExits \/ CliMade \/ UseArgs \/ FreeArgs \/ UNCHANGED cliVars
  BY <1>1, <1>2 DEF UseStrings, MakeExits, CliMade, UseArgs, FreeArgs, parsing, cliVars
<1>3. CASE CliNew \/ CliDestroy \/ MakeString \/ FreeField
  BY <1>1, <1>3 DEF CliNew, CliDestroy, MakeString, FreeField, parsing
<1>4. CASE CliAddCommand
  <2>1. Commands \in Seq(Seq(Variables)) /\ added + 1 \in 1..Len(Commands)
    BY <1>4, FieldsAssumption, LenProperties DEF CliAddCommand, CliTypes
  <2>2. Commands[added + 1] \in Seq(Variables)
    BY <2>1, ElementOfSeq
  <2>. QED BY <1>4, <2>2 DEF CliAddCommand, CliTypes, parsing
<1>5. CASE CommandAdded
  BY <1>5 DEF CommandAdded, CliTypes, parsing
<1>6. CASE CliParse
  BY <1>6, FieldsAssumption DEF CliParse, CliTypes
<1>7. CASE ParseElement
  BY <1>7 DEF ParseElement, CliTypes
<1>8. CASE CliParsed
  BY <1>8 DEF CliParsed, CliTypes
<1>. QED BY <1>2, <1>3, <1>4, <1>5, <1>6, <1>7, <1>8 DEF CliNext

LEMMA ArgumentIsAnItem ==
  ASSUME CliTypes, More
  PROVE  argv[optind] \in Items /\ optind \in 1..Len(argv)
<1>1. optind \in 1..Len(argv)
  BY LenProperties DEF CliTypes, More
<1>. QED BY <1>1, ElementOfSeq DEF CliTypes, More

(* Whatever the cli does, it does an operation of the vector or none, *)
LEMMA CliUsesTheVector == CliTypes /\ [CliNext]_cliVars => [Next]_vars
<1> SUFFICES ASSUME CliTypes, [CliNext]_cliVars PROVE [Next]_vars
  OBVIOUS
<1>1. CASE ParseElement
  <2>1. argv[optind] \in Items
    BY <1>1, ArgumentIsAnItem DEF ParseElement
  <2>. QED BY <1>1, <2>1
           DEF ParseElement, Next, Use, VectorAdd, VectorGrow, VectorCannotGrow, VectorAddOverruns
<1>2. CASE UseArgs
  BY <1>2 DEF UseArgs, Next
<1>3. CASE FreeArgs
  BY <1>3 DEF FreeArgs, VectorFree, Next
<1>4. CASE UNCHANGED vars
  BY <1>4
<1>. QED BY <1>1, <1>2, <1>3, <1>4 DEF CliNext, UseStrings, CliNew, MakeString, MakeExits, CliMade,
            CliAddCommand, CommandAdded, CliParse, CliParsed, CliDestroy, FreeField, cliVars

(* and an operation on a dstring or none. *)
LEMMA CliUsesStrings == CliTypes /\ [CliNext]_cliVars => [StringNext]_stringVars
<1> SUFFICES ASSUME CliTypes, [CliNext]_cliVars PROVE [StringNext]_stringVars
  OBVIOUS
<1>1. todo # <<>> => Head(todo) \in Variables
  BY HeadTailProperties DEF CliTypes
<1>2. CASE MakeString \/ FreeField
  BY <1>1, <1>2 DEF MakeString, FreeField, StringNext
<1>3. CASE UseStrings \/ MakeExits
  BY <1>3 DEF UseStrings, MakeExits, StringNext
<1>4. CASE UNCHANGED stringVars
  BY <1>4
<1>. QED BY <1>2, <1>3, <1>4 DEF CliNext, CliNew, CliMade, CliAddCommand, CommandAdded, CliParse,
            ParseElement, CliParsed, UseArgs, CliDestroy, FreeArgs, cliVars

LEMMA CliTypesInvariant == CliSpec => []CliTypes
BY CliTypesInitially, CliTypesStep, PTL DEF CliSpec

(* So cli->args is a vector, with all that was proved of one, *)
THEOREM ArgumentsAreAVector == CliSpec => Spec
<1>1. CliInit => Init
  BY DEF CliInit
<1>. QED BY <1>1, CliUsesTheVector, CliTypesInvariant, PTL DEF CliSpec, Spec

(* and the cli's strings are dstrings. *)
THEOREM StringsAreCounted == CliSpec => StringSpec
<1>1. CliInit => StringInit
  BY DEF CliInit
<1>. QED BY <1>1, CliUsesStrings, CliTypesInvariant, PTL DEF CliSpec, StringSpec

(* The program and cli_parse, neither of which looks at what vector_add answered, stay inside  *)
(* the block of cli->args until vector_init or vector_add was refused memory.                  *)
THEOREM ArgumentsStayWithinBlock == CliSpec => []WithinBlock
BY ArgumentsAreAVector, StaysWithinBlock, PTL

(* What the program reads from cli->args is the sequence of what was added to it. *)
THEOREM ArgumentsAreASequence == CliSpec => HoldsTheSequence
BY ArgumentsAreAVector, VectorImplements, PTL

(* The counts of the program's strings, the cli's and the commands' are their references. *)
THEOREM CliCountsReferences == CliSpec => []CountsItsReferences
BY StringsAreCounted, ReferencesAreCounted, PTL

-----------------------------------------------------------------------------
(* cli_parse                                                               *)

(* A vector that could not grow never grows again: its size stays below its capacity.  So what   *)
(* is parsed into one whose block is as large as its capacity was all added.                     *)
ParseInv ==
  /\ block <= capacity
  /\ stage = "parsing" => before \in Seq(Items) /\ optind <= Len(argv) + 1
  /\ ParseAddsTheLine

LEMMA ParseInitially == CliInit => ParseInv
BY VectorAssumption DEF CliInit, Init, ParseInv, ParseAddsTheLine

LEMMA BlockStep ==
  ASSUME VectorInv, block <= capacity, [Next]_vars
  PROVE  block' <= capacity'
<1>1. capacity \in Nat /\ 2 * capacity \in Nat /\ capacity <= 2 * capacity /\ block \in Nat
  BY DEF VectorInv, TypeOK
<1>2. CASE \E x \in Items : VectorGrow(x)
  BY <1>1, <1>2 DEF VectorGrow
<1>3. CASE VectorCannotGrow
  BY <1>1, <1>3 DEF VectorCannotGrow
<1>4. CASE VectorFree
  BY <1>4 DEF VectorFree
<1>5. CASE UNCHANGED <<capacity, block>>
  BY <1>5
<1>. QED BY <1>2, <1>3, <1>4, <1>5 DEF Next, Use, VectorAdd, VectorAddOverruns, VectorGet,
            VectorDelete, VectorDeleteOutside, VectorSet, vars

(* One element more: cli_parse is where it was, with that one behind what it added. *)
LEMMA ElementStep ==
  ASSUME VectorInv, CliTypes, ParseInv, ParseElement, block' >= capacity'
  PROVE  items' = before' \o SubSeq(argv', 1, optind' - 1)
<1> DEFINE x == argv[optind]
           added1 == SubSeq(argv, 1, optind - 1)
<1>1. x \in Items /\ optind \in 1..Len(argv)
  BY ArgumentIsAnItem DEF ParseElement
<1>2. /\ capacity \in Nat \ {0} /\ size \in 0..capacity /\ block \in Nat /\ size <= block
      /\ block <= capacity /\ phase = "used" /\ items \in Seq(Items)
  <2>1. phase = "used"
    BY DEF ParseElement, VectorAdd, VectorGrow, VectorCannotGrow, VectorAddOverruns
  <2>. QED BY <2>1 DEF VectorInv, TypeOK, ParseInv
<1>3. /\ UNCHANGED <<argv, before>> /\ optind' = optind + 1 /\ optind' - 1 = optind
      /\ argv \in Seq(Items \cup {Empty}) /\ before \in Seq(Items) /\ stage = "parsing"
  BY <1>1 DEF ParseElement, ParseInv, CliTypes
<1>4. ~VectorCannotGrow /\ ~VectorAddOverruns(x)
  BY <1>2 DEF VectorCannotGrow, VectorAddOverruns
<1>5. items' = Append(items, x) /\ block >= capacity
  <2>1. CASE VectorAdd(x)
    BY <2>1 DEF VectorAdd, Store
  <2>2. CASE VectorGrow(x)
    BY <1>2, <2>2 DEF VectorGrow, Store
  <2>. QED BY <1>4, <2>1, <2>2 DEF ParseElement
<1>6. items = before \o added1
  BY <1>3, <1>5 DEF ParseInv, ParseAddsTheLine
<1> DEFINE S == Items \cup {Empty}
<1>7. /\ before \in Seq(S) /\ items \in Seq(S) /\ argv \in Seq(S) /\ x \in S /\ <<x>> \in Seq(S)
      /\ 1 \in 1..Len(argv) /\ optind \in 1..Len(argv) /\ optind - 1 \in Nat
  BY <1>1, <1>2, <1>3
<1>8. added1 \in Seq(S)
  <2>1. \A j \in 1..(optind - 1) : argv[j] \in S
    BY <1>7, LenProperties, ElementOfSeq
  <2>. QED BY <1>7, <2>1, SubSeqProperties
<1>9. SubSeq(argv, 1, optind) = added1 \o <<x>>
  BY <1>7, SubSeqRecursiveSecond
<1> HIDE DEF x, added1, S
<1>10. Append(items, x) = items \o <<x>>
  BY <1>7, AppendIsConcat
<1> DEFINE e == <<x>>
<1>11. before \in Seq(S) /\ e \in Seq(S)
  BY <1>7
<1> HIDE DEF e
<1>12. (before \o added1) \o e = before \o (added1 \o e)
  BY <1>8, <1>11, ConcatAssociative
<1>. QED BY <1>3, <1>5, <1>6, <1>9, <1>10, <1>12 DEF e

LEMMA ParseStep ==
  ASSUME VectorInv, CliTypes, ParseInv, [CliNext]_cliVars
  PROVE  ParseInv'
<1>1. block' <= capacity'
  BY BlockStep, CliUsesTheVector DEF ParseInv
<1>2. VectorInv'
  BY CliUsesTheVector, VectorStep
<1>3. Empty \notin Range(items')
  BY <1>2, FieldsAssumption DEF VectorInv, TypeOK, Range
<1>4. CASE CliParse
  <2>1. items \in Seq(Items) /\ argv' \in Seq(Items \cup {Empty})
    BY <1>4, FieldsAssumption DEF CliParse, VectorInv, TypeOK
  <2>2. SubSeq(argv', 1, 0) = <<>> /\ items \o <<>> = items
    BY <2>1, SubSeqEmpty, ConcatEmptySeq
  <2>3. Len(argv') \in Nat
    BY <2>1, LenProperties
  <2>4. /\ before' = items /\ items' = items /\ optind' = 1 /\ optind' - 1 = 0
    BY <1>4 DEF CliParse, vars
  <2>5. items' = before' \o SubSeq(argv', 1, optind' - 1)
    BY <2>2, <2>4
  <2>6. before' \in Seq(Items) /\ optind' <= Len(argv') + 1
    BY <2>1, <2>3, <2>4
  <2>. QED BY <1>1, <1>3, <2>5, <2>6 DEF ParseInv, ParseAddsTheLine
<1>5. CASE ParseElement
  <2>1. optind \in 1..Len(argv) /\ UNCHANGED <<argv, before>> /\ optind' = optind + 1
    BY <1>5, ArgumentIsAnItem DEF ParseElement
  <2>2. Len(argv) \in Nat
    BY LenProperties DEF CliTypes
  <2>3. before' \in Seq(Items) /\ optind' <= Len(argv') + 1
    BY <1>5, <2>1, <2>2 DEF ParseInv, ParseElement
  <2>4. block' >= capacity' => items' = before' \o SubSeq(argv', 1, optind' - 1)
    BY <1>5, ElementStep
  <2>. QED BY <1>1, <1>3, <2>3, <2>4 DEF ParseInv, ParseAddsTheLine
<1>6. CASE stage' # "parsing"
  BY <1>1, <1>6 DEF ParseInv, ParseAddsTheLine
<1>7. CASE UNCHANGED cliVars
  BY <1>7 DEF cliVars, vars, parsing, ParseInv, ParseAddsTheLine
<1>. QED BY <1>4, <1>5, <1>6, <1>7 DEF CliNext, UseStrings, CliNew, MakeString, MakeExits, CliMade,
            CliAddCommand, CommandAdded, CliParsed, UseArgs, CliDestroy, FreeField, FreeArgs

(* cli_parse adds the elements of the line, in order, up to the first that is empty, as long as  *)
(* vector_add found memory.                                                                      *)
THEOREM ParseAlwaysAddsTheLine == CliSpec => []ParseAddsTheLine
<1>1. CliSpec => []VectorInv
  BY ArgumentsAreAVector, VectorInvariance, PTL
<1>2. ParseInv => ParseAddsTheLine
  BY DEF ParseInv
<1>3. VectorInv /\ CliTypes /\ ParseInv /\ [CliNext]_cliVars => ParseInv'
  BY ParseStep
<1>. QED BY <1>1, <1>2, <1>3, CliTypesInvariant, ParseInitially, PTL DEF CliSpec
=============================================================================
