------------------------------ MODULE Sequence ------------------------------
(***************************************************************************)
(* What libstd's list, stack and vector promise: a sequence of items with   *)
(* the operations each of them Offers and no other, so that one that is to   *)
(* add at one end cannot add at the other.  An addition that finds no memory *)
(* returns no and changes nothing.                                         *)
(***************************************************************************)
EXTENDS Integers, Sequences, SequencesExt

CONSTANTS Items,
          None,    \* nullptr: what an index or an item that is not there gives
          Offers   \* the names of the operations the container has

VARIABLES seq,     \* the items
          asked,   \* the index the last call was about, -1 if it was about none
          result   \* what it returned

vars == <<seq, asked, result>>

Indexes == 0..(Len(seq) - 1)

Init == seq = <<>> /\ asked = -1 /\ result = None

Refuse == asked' = -1 /\ result' = "no" /\ UNCHANGED seq

InsertLast(x) == seq' = Append(seq, x) /\ asked' = -1 /\ result' = "yes"
InsertFirst(x) == seq' = <<x>> \o seq /\ asked' = -1 /\ result' = "yes"

(* A call about an index, or an item, that is not there *)
Missing == asked' \notin Indexes /\ result' \in {None, "no"} /\ UNCHANGED seq

Set(i, x) == seq' = [seq EXCEPT ![i + 1] = x] /\ asked' = i /\ result' = None
Get(i) == result' = seq[i + 1] /\ asked' = i /\ UNCHANGED seq
Delete(i) == seq' = RemoveAt(seq, i + 1) /\ asked' = i /\ result' = "yes"

GetFirst == seq # <<>> /\ Get(0)

TakeFirst ==
  /\ seq # <<>>
  /\ seq' = Tail(seq)
  /\ asked' = 0 /\ result' = seq[1]

Clear == seq' = <<>> /\ asked' = -1 /\ result' = None

Next ==
  \/ Refuse \/ Missing \/ Clear
  \/ "InsertLast" \in Offers /\ \E x \in Items : InsertLast(x)
  \/ "InsertFirst" \in Offers /\ \E x \in Items : InsertFirst(x)
  \/ "Get" \in Offers /\ \E i \in Indexes : Get(i)
  \/ "Set" \in Offers /\ \E i \in Indexes, x \in Items : Set(i, x)
  \/ "Delete" \in Offers /\ \E i \in Indexes : Delete(i)
  \/ "GetFirst" \in Offers /\ GetFirst
  \/ "TakeFirst" \in Offers /\ TakeFirst

Spec == Init /\ [][Next]_vars
=============================================================================
