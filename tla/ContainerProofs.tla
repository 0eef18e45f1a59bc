-------------------------- MODULE ContainerProofs --------------------------
(***************************************************************************)
(* The map, the list and the stack of src/libstd, for every set of keys,     *)
(* hash function, initial capacity, memory and set of items: no node of the  *)
(* map is lost, moved where lookups miss it or doubled, it is the Dictionary *)
(* and its walk is exact; each node a list and a stack get of one malloc has *)
(* one owner, and each of the two is the Sequence.                          *)
(***************************************************************************)
EXTENDS HashMapWalk, SharedHeap, DataProofs

-----------------------------------------------------------------------------
(* The map                                                                 *)

(* The load factor with what is known in the middle of a put. *)
LoadInv ==
  /\ pc \in {"idle", "rehash"} => 4 * (size - 1) < 3 * capacity
  /\ pc = "insert" => 4 * size < 3 * capacity

(* Inductive: TypeOK alone is not, because map_delete's size - 1 is a      *)
(* natural number only if size counts the nodes.                            *)
IInv == TypeOK /\ WellPlaced /\ NothingLost /\ LoadInv

-----------------------------------------------------------------------------
(* Index arithmetic: the bucket index is inside the array. *)
LEMMA BucketInRange ==
  ASSUME NEW k \in Keys, NEW cap \in Nat \ {0}
  PROVE  BucketOf(k, cap) \in 0 .. cap - 1
BY HashAssumption, SMT DEF BucketOf

(* A node is in NodesIn exactly when it sits at some place of some chain. *)
LEMMA InNodes ==
  ASSUME NEW chains, NEW n
  PROVE  n \in NodesIn(chains) <=> \E b \in DOMAIN chains : \E i \in DOMAIN chains[b] : n = chains[b][i]
BY DEF NodesIn

LEMMA PlaceOf ==
  ASSUME NEW chains, NEW n \in NodesIn(chains)
  PROVE  \E b, i : b \in DOMAIN chains /\ i \in DOMAIN chains[b] /\ n = chains[b][i]
BY DEF NodesIn

(* The position the search returns is one that has the key. *)
LEMMA Found ==
  ASSUME NEW chain, NEW k, Holds(chain, k)
  PROVE  PositionOf(chain, k) \in DOMAIN chain /\ chain[PositionOf(chain, k)].key = k
BY DEF Holds, PositionOf

(* The shape of a chain with its i-th node unlinked. *)
LEMMA UnlinkShape ==
  ASSUME NEW chain \in Seq(Node), NEW i \in DOMAIN chain
  PROVE  /\ Unlink(chain, i) \in Seq(Node)
         /\ DOMAIN Unlink(chain, i) = 1 .. Len(chain) - 1
         /\ \A j \in DOMAIN Unlink(chain, i) :
              Unlink(chain, i)[j] = IF j < i THEN chain[j] ELSE chain[j + 1]
BY DEF Unlink

(* Removing the head is unlinking the first node. *)
LEMMA TailUnlinks ==
  ASSUME NEW chain \in Seq(Node), chain # <<>>
  PROVE  /\ Tail(chain) = Unlink(chain, 1)
         /\ 1 \in DOMAIN chain
         /\ Head(chain) = chain[1]
<1>1. /\ Tail(chain) \in Seq(Node)
      /\ Len(Tail(chain)) = Len(chain) - 1
      /\ \A j \in 1 .. Len(Tail(chain)) : Tail(chain)[j] = chain[j + 1]
  BY HeadTailProperties
<1>2. 1 \in DOMAIN chain /\ Head(chain) = chain[1]
  OBVIOUS
<1>3. /\ Unlink(chain, 1) \in Seq(Node)
      /\ Len(Unlink(chain, 1)) = Len(chain) - 1
      /\ \A j \in 1 .. Len(chain) - 1 : Unlink(chain, 1)[j] = chain[j + 1]
  BY <1>2, UnlinkShape DEF Unlink
<1> HIDE DEF Unlink
<1>4. Tail(chain) = Unlink(chain, 1)
  BY <1>1, <1>3, SeqEqual
<1> QED BY <1>2, <1>4

(* The shape of a chain with a node pushed in front. *)
LEMMA PushShape ==
  ASSUME NEW chain \in Seq(Node), NEW node \in Node
  PROVE  /\ PushFront(node, chain) \in Seq(Node)
         /\ DOMAIN PushFront(node, chain) = 1 .. Len(chain) + 1
         /\ \A j \in 1 .. Len(chain) + 1 :
              PushFront(node, chain)[j] = IF j = 1 THEN node ELSE chain[j - 1]
BY DEF PushFront

-----------------------------------------------------------------------------
(* What the three edits do to an array of chains whose nodes are placed and *)
(* distinct: they keep it so, and the set of its nodes changes by exactly   *)
(* the node pushed, unlinked or overwritten.                                *)

LEMMA KeysUnique ==
  ASSUME NEW cap \in Nat, NEW A \in Chains(cap), Placed(A, cap), Distinct(A),
         NEW n \in NodesIn(A), NEW m \in NodesIn(A), n.key = m.key
  PROVE  n = m
<1>1. PICK b, i : b \in DOMAIN A /\ i \in DOMAIN A[b] /\ n = A[b][i]
  BY PlaceOf
<1>2. PICK c, j : c \in DOMAIN A /\ j \in DOMAIN A[c] /\ m = A[c][j]
  BY PlaceOf
<1>3. b = c
  BY <1>1, <1>2 DEF Placed
<1>4. i = j
  BY <1>1, <1>2, <1>3 DEF Distinct
<1> QED BY <1>1, <1>2, <1>3, <1>4

LEMMA SearchIsExact ==
  ASSUME NEW cap \in Nat \ {0}, NEW A \in Chains(cap), Placed(A, cap), NEW k \in Keys
  PROVE  Holds(A[BucketOf(k, cap)], k) <=> \E n \in NodesIn(A) : n.key = k
<1>1. BucketOf(k, cap) \in DOMAIN A
  BY BucketInRange DEF Chains
<1>2. ASSUME Holds(A[BucketOf(k, cap)], k) PROVE \E n \in NodesIn(A) : n.key = k
  BY <1>1, <1>2, InNodes DEF Holds
<1>3. ASSUME NEW n \in NodesIn(A), n.key = k PROVE Holds(A[BucketOf(k, cap)], k)
  <2>1. PICK b, i : b \in DOMAIN A /\ i \in DOMAIN A[b] /\ n = A[b][i]
    BY PlaceOf
  <2>2. b = BucketOf(k, cap)
    BY <1>3, <2>1 DEF Placed
  <2> QED BY <1>3, <2>1, <2>2 DEF Holds
<1> QED BY <1>2, <1>3

LEMMA NodesTyped ==
  ASSUME NEW cap \in Nat, NEW A \in Chains(cap)
  PROVE  /\ NodesIn(A) \subseteq Node
         /\ \A b \in DOMAIN A : A[b] \in Seq(Node)
         /\ \A b \in DOMAIN A : DOMAIN A[b] = 1 .. Len(A[b])
BY InNodes DEF Chains

PushAt(A, cap, node) == [A EXCEPT ![BucketOf(node.key, cap)] = PushFront(node, @)]
UnlinkAt(A, b, i) == [A EXCEPT ![b] = Unlink(@, i)]
UpdateAt(A, b, i, node) == [A EXCEPT ![b] = Update(@, i, node)]

LEMMA Pushed ==
  ASSUME NEW cap \in Nat \ {0}, NEW A \in Chains(cap), Placed(A, cap), Distinct(A),
         NEW node \in Node, \A n \in NodesIn(A) : n.key # node.key
  PROVE  /\ PushAt(A, cap, node) \in Chains(cap)
         /\ Placed(PushAt(A, cap, node), cap) /\ Distinct(PushAt(A, cap, node))
         /\ NodesIn(PushAt(A, cap, node)) = NodesIn(A) \cup {node}
<1> DEFINE B == PushAt(A, cap, node)
           b == BucketOf(node.key, cap)
           c == A[b]
           d == PushFront(node, c)
<1>1. b \in DOMAIN A /\ c \in Seq(Node) /\ DOMAIN c = 1 .. Len(c) /\ Len(c) \in Nat
  <2>1. node.key \in Keys
    BY DEF Node
  <2>2. b \in 0 .. cap - 1
    BY <2>1, BucketInRange
  <2>3. b \in DOMAIN A
    BY <2>2 DEF Chains
  <2> HIDE DEF b
  <2>4. c \in Seq(Node)
    BY <2>3, NodesTyped
  <2> QED BY <2>3, <2>4
<1>2. /\ d \in Seq(Node)
      /\ DOMAIN d = 1 .. Len(c) + 1
      /\ \A j \in 1 .. Len(c) + 1 : d[j] = IF j = 1 THEN node ELSE c[j - 1]
  BY <1>1, PushShape
<1>3. /\ DOMAIN B = DOMAIN A
      /\ B[b] = d
      /\ \A x \in DOMAIN A : x # b => B[x] = A[x]
  BY <1>1 DEF Chains, PushAt
<1>4. B \in Chains(cap)
  BY <1>1, <1>2 DEF Chains, PushAt
<1> HIDE DEF b, c, d
<1>5. \A i \in DOMAIN c : c[i] \in NodesIn(A)
  BY <1>1, InNodes DEF c
<1>6. Placed(B, cap)
  <2> SUFFICES ASSUME NEW x \in DOMAIN B, NEW i \in DOMAIN B[x]
               PROVE  BucketOf(B[x][i].key, cap) = x
    BY DEF Placed
  <2>1. CASE x # b
    BY <2>1, <1>3 DEF Placed
  <2>2. CASE x = b /\ i = 1
    BY <2>2, <1>1, <1>2, <1>3 DEF b
  <2>3. CASE x = b /\ i # 1
    <3>1. i - 1 \in DOMAIN c /\ d[i] = c[i - 1]
      BY <2>3, <1>1, <1>2, <1>3
    <3>2. BucketOf(c[i - 1].key, cap) = b
      BY <3>1, <1>1 DEF Placed, c
    <3> QED BY <3>1, <3>2, <2>3, <1>3
  <2> QED BY <2>1, <2>2, <2>3
<1>7. Distinct(B)
  <2> SUFFICES ASSUME NEW x \in DOMAIN B, NEW i \in DOMAIN B[x], NEW j \in DOMAIN B[x],
                      B[x][i].key = B[x][j].key
               PROVE  i = j
    BY DEF Distinct
  <2>1. CASE x # b
    BY <2>1, <1>3 DEF Distinct
  <2>2. CASE x = b
    <3>1. i \in 1 .. Len(c) + 1 /\ j \in 1 .. Len(c) + 1 /\ d[i].key = d[j].key
      BY <2>2, <1>2, <1>3
    <3>2. CASE i = 1 /\ j = 1
      BY <3>2
    <3>3. CASE i = 1 /\ j # 1
      <4>1. d[i] = node /\ j - 1 \in DOMAIN c /\ d[j] = c[j - 1]
        BY <3>1, <3>3, <1>1, <1>2
      <4>2. c[j - 1].key # node.key
        BY <4>1, <1>5
      <4> QED BY <3>1, <4>1, <4>2
    <3>4. CASE i # 1 /\ j = 1
      <4>1. d[j] = node /\ i - 1 \in DOMAIN c /\ d[i] = c[i - 1]
        BY <3>1, <3>4, <1>1, <1>2
      <4>2. c[i - 1].key # node.key
        BY <4>1, <1>5
      <4> QED BY <3>1, <4>1, <4>2
    <3>5. CASE i # 1 /\ j # 1
      <4>1. i - 1 \in DOMAIN c /\ j - 1 \in DOMAIN c /\ c[i - 1].key = c[j - 1].key
        BY <3>1, <3>5, <1>1, <1>2
      <4>2. i - 1 = j - 1
        BY <4>1, <1>1 DEF Distinct, c
      <4> QED BY <4>2, <3>1, <1>1
    <3> QED BY <3>2, <3>3, <3>4, <3>5
  <2> QED BY <2>1, <2>2
<1>8. ASSUME NEW n \in NodesIn(B) PROVE n \in NodesIn(A) \cup {node}
  <2>0. \E x, i : x \in DOMAIN B /\ i \in DOMAIN B[x] /\ n = B[x][i]
    BY ONLY <1>8, PlaceOf
  <2>1. PICK x, i : x \in DOMAIN B /\ i \in DOMAIN B[x] /\ n = B[x][i]
    BY ONLY <2>0
  <2>2. CASE x # b
    BY <2>1, <2>2, <1>3, InNodes
  <2>3. CASE x = b
    <3>1. i \in 1 .. Len(c) + 1 /\ n = d[i]
      BY <2>1, <2>3, <1>2, <1>3
    <3>2. CASE i = 1
      BY <3>1, <3>2, <1>2
    <3>3. CASE i # 1
      <4>1. i - 1 \in DOMAIN c /\ d[i] = c[i - 1]
        BY <3>1, <3>3, <1>1, <1>2
      <4> QED BY <4>1, <3>1, <1>5
    <3> QED BY <3>2, <3>3
  <2> QED BY <2>2, <2>3
<1>9. ASSUME NEW n \in NodesIn(A) PROVE n \in NodesIn(B)
  <2>1. PICK x, i : x \in DOMAIN A /\ i \in DOMAIN A[x] /\ n = A[x][i]
    BY PlaceOf
  <2>2. CASE x # b
    BY <2>1, <2>2, <1>3, InNodes
  <2>3. CASE x = b
    <3>1. i + 1 \in DOMAIN d /\ d[i + 1] = n
      BY <2>1, <2>3, <1>1, <1>2 DEF c
    <3> QED BY <3>1, <1>1, <1>3, InNodes
  <2> QED BY <2>2, <2>3
<1>10. node \in NodesIn(B)
  <2>1. 1 \in DOMAIN d /\ d[1] = node
    BY <1>1, <1>2
  <2> QED BY <2>1, <1>1, <1>3, InNodes
<1> QED BY <1>4, <1>6, <1>7, <1>8, <1>9, <1>10

LEMMA Unlinked ==
  ASSUME NEW cap \in Nat, NEW A \in Chains(cap), Placed(A, cap), Distinct(A),
         NEW b \in DOMAIN A, NEW i \in DOMAIN A[b]
  PROVE  /\ UnlinkAt(A, b, i) \in Chains(cap) /\ Placed(UnlinkAt(A, b, i), cap) /\ Distinct(UnlinkAt(A, b, i))
         /\ NodesIn(UnlinkAt(A, b, i)) = NodesIn(A) \ {A[b][i]}
<1> DEFINE B == UnlinkAt(A, b, i)
           c == A[b]
           d == Unlink(c, i)
           src(j) == IF j < i THEN j ELSE j + 1
<1>1. c \in Seq(Node) /\ DOMAIN c = 1 .. Len(c) /\ Len(c) \in Nat /\ i \in 1 .. Len(c)
  <2>1. c \in Seq(Node)
    BY NodesTyped
  <2> QED BY <2>1
<1>2. /\ d \in Seq(Node)
      /\ DOMAIN d = 1 .. Len(c) - 1
      /\ \A j \in DOMAIN d : d[j] = IF j < i THEN c[j] ELSE c[j + 1]
  BY <1>1, UnlinkShape
<1>3. \A j \in DOMAIN d : src(j) \in DOMAIN c /\ src(j) # i /\ d[j] = c[src(j)]
  BY <1>1, <1>2
<1>4. /\ DOMAIN B = DOMAIN A
      /\ B[b] = d
      /\ \A x \in DOMAIN A : x # b => B[x] = A[x]
  BY DEF Chains, UnlinkAt
<1>5. B \in Chains(cap)
  BY <1>2 DEF Chains, UnlinkAt
<1> HIDE DEF d
<1>6. Placed(B, cap)
  <2> SUFFICES ASSUME NEW x \in DOMAIN B, NEW j \in DOMAIN B[x]
               PROVE  BucketOf(B[x][j].key, cap) = x
    BY DEF Placed
  <2>1. CASE x # b
    BY <2>1, <1>4 DEF Placed
  <2>2. CASE x = b
    <3>1. src(j) \in DOMAIN c /\ B[x][j] = c[src(j)]
      BY <2>2, <1>3, <1>4
    <3> HIDE DEF src
    <3> QED BY <2>2, <3>1 DEF Placed
  <2> QED BY <2>1, <2>2
<1>7. Distinct(B)
  <2> SUFFICES ASSUME NEW x \in DOMAIN B, NEW j \in DOMAIN B[x], NEW k \in DOMAIN B[x],
                      B[x][j].key = B[x][k].key
               PROVE  j = k
    BY DEF Distinct
  <2>1. CASE x # b
    BY <2>1, <1>4 DEF Distinct
  <2>2. CASE x = b
    <3>1. /\ src(j) \in DOMAIN c /\ src(k) \in DOMAIN c
          /\ c[src(j)].key = c[src(k)].key
          /\ j \in 1 .. Len(c) - 1 /\ k \in 1 .. Len(c) - 1
      BY <2>2, <1>2, <1>3, <1>4
    <3>2. src(j) = src(k)
      <4> HIDE DEF src
      <4> QED BY <3>1 DEF Distinct
    <3> QED BY <3>1, <3>2, <1>1
  <2> QED BY <2>1, <2>2
<1>8. ASSUME NEW n \in NodesIn(B) PROVE n \in NodesIn(A) \ {A[b][i]}
  <2>0. \E x, j : x \in DOMAIN B /\ j \in DOMAIN B[x] /\ n = B[x][j]
    BY ONLY <1>8, PlaceOf
  <2>1. PICK x, j : x \in DOMAIN B /\ j \in DOMAIN B[x] /\ n = B[x][j]
    BY ONLY <2>0
  <2>2. CASE x # b
    <3>1. n \in NodesIn(A)
      BY <2>1, <2>2, <1>4, InNodes
    <3>2. BucketOf(n.key, cap) = x /\ BucketOf(A[b][i].key, cap) = b
      BY <2>1, <2>2, <1>4 DEF Placed
    <3> QED BY <3>1, <3>2, <2>2
  <2>3. CASE x = b
    <3>1. src(j) \in DOMAIN c /\ src(j) # i /\ n = c[src(j)]
      BY <2>1, <2>3, <1>3, <1>4
    <3> HIDE DEF src
    <3>2. n \in NodesIn(A)
      BY <3>1, InNodes
    <3>3. n # A[b][i]
      BY <3>1 DEF Distinct
    <3> QED BY <3>2, <3>3
  <2> QED BY <2>2, <2>3
<1>9. ASSUME NEW n \in NodesIn(A), n # A[b][i] PROVE n \in NodesIn(B)
  <2>0. \E x, j : x \in DOMAIN A /\ j \in DOMAIN A[x] /\ n = A[x][j]
    BY ONLY <1>9, PlaceOf
  <2>1. PICK x, j : x \in DOMAIN A /\ j \in DOMAIN A[x] /\ n = A[x][j]
    BY ONLY <2>0
  <2>2. CASE x # b
    BY <2>1, <2>2, <1>4, InNodes
  <2>3. CASE x = b
    <3> DEFINE m == IF j < i THEN j ELSE j - 1
    <3>1. j \in 1 .. Len(c) /\ j # i /\ n = c[j]
      BY <2>1, <2>3, <1>1, <1>9
    <3>2. m \in DOMAIN d /\ d[m] = c[j]
      <4>1. CASE j < i
        <5>1. m = j /\ j \in DOMAIN d /\ d[j] = c[j]
          BY <4>1, <3>1, <1>1, <1>2
        <5> QED BY <5>1
      <4>2. CASE j > i
        <5>1. m = j - 1 /\ j - 1 \in DOMAIN d /\ ~(j - 1 < i) /\ (j - 1) + 1 = j
          BY <4>2, <3>1, <1>1, <1>2
        <5> HIDE DEF m
        <5> QED BY <5>1, <1>2
      <4> QED BY <4>1, <4>2, <3>1, <1>1
    <3> HIDE DEF m
    <3> QED BY <3>1, <3>2, <1>4, InNodes
  <2> QED BY <2>2, <2>3
<1> QED BY <1>5, <1>6, <1>7, <1>8, <1>9

LEMMA Updated ==
  ASSUME NEW cap \in Nat, NEW A \in Chains(cap), Placed(A, cap), Distinct(A),
         NEW b \in DOMAIN A, NEW i \in DOMAIN A[b],
         NEW node \in Node, node.key = A[b][i].key
  PROVE  /\ UpdateAt(A, b, i, node) \in Chains(cap) /\ Placed(UpdateAt(A, b, i, node), cap) /\ Distinct(UpdateAt(A, b, i, node))
         /\ NodesIn(UpdateAt(A, b, i, node)) = (NodesIn(A) \ {A[b][i]}) \cup {node}
<1> DEFINE B == UpdateAt(A, b, i, node)
           c == A[b]
           d == Update(c, i, node)
<1>1. c \in Seq(Node)
  BY NodesTyped
<1>2. /\ d \in Seq(Node)
      /\ DOMAIN d = DOMAIN c
      /\ d[i] = node
      /\ \A j \in DOMAIN c : j # i => d[j] = c[j]
  BY <1>1 DEF Update
<1>3. /\ DOMAIN B = DOMAIN A
      /\ B[b] = d
      /\ \A x \in DOMAIN A : x # b => B[x] = A[x]
  BY DEF Chains, UpdateAt
<1>4. B \in Chains(cap)
  BY <1>2 DEF Chains, UpdateAt
<1> HIDE DEF d
<1>5. \A x \in DOMAIN A : /\ DOMAIN B[x] = DOMAIN A[x]
                          /\ \A j \in DOMAIN A[x] : B[x][j].key = A[x][j].key
  BY <1>2, <1>3
<1>6. Placed(B, cap) /\ Distinct(B)
  BY <1>3, <1>5 DEF Placed, Distinct
<1>7. ASSUME NEW n \in NodesIn(B) PROVE n \in (NodesIn(A) \ {A[b][i]}) \cup {node}
  <2>0. \E x, j : x \in DOMAIN B /\ j \in DOMAIN B[x] /\ n = B[x][j]
    BY ONLY <1>7, PlaceOf
  <2>1. PICK x, j : x \in DOMAIN B /\ j \in DOMAIN B[x] /\ n = B[x][j]
    BY ONLY <2>0
  <2>2. CASE x = b /\ j = i
    BY <2>1, <2>2, <1>2, <1>3
  <2>3. CASE ~(x = b /\ j = i)
    <3>1. j \in DOMAIN A[x] /\ n = A[x][j] /\ x \in DOMAIN A
      BY <2>1, <2>3, <1>2, <1>3
    <3>2. n \in NodesIn(A)
      BY <3>1, InNodes
    <3>3. n # A[b][i]
      BY <3>1, <2>3 DEF Placed, Distinct
    <3> QED BY <3>2, <3>3
  <2> QED BY <2>2, <2>3
<1>8. ASSUME NEW n \in NodesIn(A), n # A[b][i] PROVE n \in NodesIn(B)
  <2>0. \E x, j : x \in DOMAIN A /\ j \in DOMAIN A[x] /\ n = A[x][j]
    BY ONLY <1>8, PlaceOf
  <2>1. PICK x, j : x \in DOMAIN A /\ j \in DOMAIN A[x] /\ n = A[x][j]
    BY ONLY <2>0
  <2>2. j \in DOMAIN B[x] /\ B[x][j] = n
    BY <2>1, <1>2, <1>3, <1>8
  <2> QED BY <2>1, <2>2, <1>3, InNodes
<1>9. node \in NodesIn(B)
  BY <1>2, <1>3, InNodes
<1> QED BY <1>4, <1>6, <1>7, <1>8, <1>9

LEMMA NoNodes ==
  ASSUME NEW cap \in Nat
  PROVE  /\ EmptyChains(cap) \in Chains(cap)
         /\ \A A \in Chains(0) : NodesIn(A) = {} /\ Distinct(A) /\ \A c : Placed(A, c)
         /\ NodesIn(EmptyChains(cap)) = {}
         /\ Distinct(EmptyChains(cap)) /\ \A c : Placed(EmptyChains(cap), c)
BY DEF EmptyChains, Chains, NodesIn, Distinct, Placed

-----------------------------------------------------------------------------
THEOREM Initially == Init => IInv
<1> SUFFICES ASSUME Init PROVE IInv
  OBVIOUS
<1> USE DEF Init
<1>1. EmptyChains(0) \in Chains(0)
  BY NoNodes
<1>2. TypeOK
  BY <1>1 DEF TypeOK, Call, Calls, Storable
<1>3. WellPlaced
  BY NoNodes DEF WellPlaced
<1>4. NothingLost
  BY NoNodes, FS_EmptySet DEF NothingLost, Nodes
<1> QED BY <1>2, <1>3, <1>4 DEF IInv, LoadInv

(* An action that leaves both arrays, size and index alone disturbs neither *)
(* the placement nor the count of the nodes.                                *)
LEMMA Frame ==
  ASSUME IInv, UNCHANGED <<capacity, buckets, size, newBuckets, index>>
  PROVE  WellPlaced' /\ NothingLost'
BY DEF IInv, WellPlaced, NothingLost, Nodes

LEMMA StepInit == IInv /\ MapInit => IInv'
<1> SUFFICES ASSUME IInv, MapInit PROVE IInv'
  OBVIOUS
<1> USE DEF IInv
<1>1. InitialCapacity \in Nat /\ InitialCapacity > 0
  BY CapacityAssumption
<1>2. newBuckets \in Chains(0) /\ newBuckets' = newBuckets /\ buckets' = EmptyChains(InitialCapacity)
  BY DEF TypeOK, MapInit
<1>3. TypeOK'
  <2>1. EmptyChains(InitialCapacity) \in Chains(InitialCapacity)
    BY <1>1, NoNodes
  <2> QED BY <1>1, <1>2, <2>1 DEF TypeOK, MapInit
<1>4. WellPlaced'
  BY <1>1, <1>2, NoNodes DEF WellPlaced
<1>5. Nodes' = {}
  BY <1>1, <1>2, NoNodes DEF Nodes
<1>6. NothingLost'
  BY <1>1, <1>2, <1>5, NoNodes, FS_EmptySet DEF NothingLost, MapInit, TypeOK
<1> QED BY <1>1, <1>3, <1>4, <1>6 DEF LoadInv, MapInit

LEMMA StepFree == IInv /\ MapFree => IInv'
<1> SUFFICES ASSUME IInv, MapFree PROVE IInv'
  OBVIOUS
<1> USE DEF IInv
<1>1. newBuckets \in Chains(0) /\ newBuckets' = newBuckets /\ buckets' = EmptyChains(0)
  BY DEF TypeOK, MapFree
<1>2. TypeOK'
  BY <1>1, NoNodes DEF TypeOK, MapFree
<1>3. WellPlaced'
  BY <1>1, NoNodes DEF WellPlaced
<1>4. Nodes' = {}
  BY <1>1, NoNodes DEF Nodes
<1>5. NothingLost'
  BY <1>1, <1>4, NoNodes, FS_EmptySet DEF NothingLost, MapFree, TypeOK
<1> QED BY <1>2, <1>3, <1>5 DEF LoadInv, MapFree

LEMMA StepQuiet ==
  ASSUME IInv,
         \/ MapInitFails
         \/ InsertFails
         \/ \E k \in Keys : MapGet(k)
         \/ \E k \in Keys, v \in Storable : MapPutCannotResize(k, v)
  PROVE  IInv'
<1> USE DEF IInv
<1>1. CASE MapInitFails
  BY <1>1, Frame DEF MapInitFails, TypeOK, LoadInv
<1>2. CASE InsertFails
  <2>1. TypeOK'
    BY <1>2 DEF InsertFails, TypeOK
  <2>2. LoadInv'
    BY <1>2 DEF InsertFails, LoadInv, TypeOK
  <2> QED BY <1>2, <2>1, <2>2, Frame DEF InsertFails
<1>3. ASSUME NEW k \in Keys, MapGet(k) PROVE IInv'
  <2> DEFINE chain == buckets[BucketOf(k, capacity)]
  <2>1. capacity \in Nat \ {0} /\ buckets \in Chains(capacity)
    BY <1>3 DEF MapGet, TypeOK
  <2>2. chain \in Seq(Node)
    BY <2>1, BucketInRange DEF Chains
  <2>3. result' \in Storable
    <3> HIDE DEF chain
    <3>1. CASE Holds(chain, k)
      <4>1. chain[PositionOf(chain, k)] \in Node
        BY <2>2, <3>1, Found
      <4> QED BY <1>3, <3>1, <4>1 DEF MapGet, Node, chain
    <3>2. CASE ~Holds(chain, k)
      BY <1>3, <3>2 DEF MapGet, chain, Storable
    <3> QED BY <3>1, <3>2
  <2>4. call' \in Calls
    BY <1>3 DEF MapGet, Call, Calls, Storable
  <2> QED BY <1>3, <2>3, <2>4, Frame DEF MapGet, TypeOK, LoadInv
<1>4. ASSUME NEW k \in Keys, NEW v \in Storable, MapPutCannotResize(k, v) PROVE IInv'
  <2>1. TypeOK'
    BY <1>4 DEF MapPutCannotResize, TypeOK, Call, Calls
  <2> QED BY <1>4, <2>1, Frame DEF MapPutCannotResize, LoadInv
<1> QED BY <1>1, <1>2, <1>3, <1>4

LEMMA StepPut == ASSUME IInv, NEW k \in Keys, NEW v \in Storable, MapPut(k, v) PROVE IInv'
<1> USE DEF IInv
<1>1. capacity \in Nat \ {0} /\ newBuckets \in Chains(0) /\ index = 0 /\ size \in Nat
  BY DEF MapPut, TypeOK
<1>2. CASE pc' = "insert"
  <2>1. UNCHANGED <<capacity, buckets, size, newBuckets, index>> /\ ~Overloaded
    BY <1>2 DEF MapPut
  <2>2. TypeOK'
    BY <1>2, <2>1 DEF MapPut, TypeOK, Call, Calls
  <2>3. LoadInv'
    BY <1>1, <1>2, <2>1 DEF LoadInv, Overloaded
  <2> QED BY <2>1, <2>2, <2>3, Frame
<1>3. CASE pc' = "rehash"
  <2>1. /\ pc = "idle" /\ UNCHANGED <<capacity, buckets, size, index>>
        /\ newBuckets' = EmptyChains(2 * capacity)
        /\ 2 * capacity \in Nat
    BY <1>1, <1>3 DEF MapPut
  <2>2. newBuckets' \in Chains(2 * capacity) /\ NodesIn(newBuckets') = {}
    BY <2>1, NoNodes
  <2>3. TypeOK'
    BY <1>3, <2>1, <2>2 DEF MapPut, TypeOK, Call, Calls
  <2>4. WellPlaced'
    BY <2>1, NoNodes DEF WellPlaced
  <2>5. NodesIn(newBuckets) = {} /\ Nodes' = Nodes
    BY <1>1, <2>1, <2>2, NoNodes DEF Nodes
  <2>6. NothingLost'
    BY <2>1, <2>2, <2>5 DEF NothingLost
  <2>7. LoadInv'
    BY <1>3, <2>1 DEF LoadInv
  <2> QED BY <2>3, <2>4, <2>6, <2>7
<1> QED BY <1>2, <1>3 DEF MapPut

(* The node that moves leaves one array and enters the other: the set of    *)
(* the nodes of the two, which size counts, is the same.                    *)
LEMMA StepRehashNode == IInv /\ RehashNode => IInv' /\ Nodes' = Nodes
<1> SUFFICES ASSUME IInv, RehashNode PROVE IInv' /\ Nodes' = Nodes
  OBVIOUS
<1> USE DEF IInv
<1> DEFINE old == buckets[index]
           node == Head(old)
           b == BucketOf(node.key, 2 * capacity)
<1>1. /\ capacity \in Nat \ {0} /\ 2 * capacity \in Nat \ {0}
      /\ buckets \in Chains(capacity) /\ newBuckets \in Chains(2 * capacity)
      /\ index \in DOMAIN buckets /\ index \in Nat
      /\ old \in Seq(Node) /\ old # <<>>
  BY DEF RehashNode, TypeOK, Chains
<1>2. node = old[1] /\ 1 \in DOMAIN old /\ node \in Node /\ Tail(old) = Unlink(old, 1)
  BY <1>1, TailUnlinks
<1>3. node \in NodesIn(buckets)
  BY <1>1, <1>2, InNodes
<1>4. /\ buckets' = [buckets EXCEPT ![index] = Unlink(@, 1)]
      /\ newBuckets' = [newBuckets EXCEPT ![b] = PushFront(node, @)]
      /\ UNCHANGED <<pc, capacity, size, index, call, result>>
      /\ pc = "rehash"
  BY <1>2 DEF RehashNode
<1>5. \A n \in NodesIn(newBuckets) : n.key # node.key
  BY <1>3 DEF NothingLost
<1> HIDE DEF old, node
<1>6. /\ buckets' \in Chains(capacity) /\ Placed(buckets', capacity) /\ Distinct(buckets')
      /\ NodesIn(buckets') = NodesIn(buckets) \ {node}
  <2>1. Placed(buckets, capacity) /\ Distinct(buckets)
    BY DEF WellPlaced
  <2>2. capacity \in Nat /\ 1 \in DOMAIN buckets[index] /\ node = buckets[index][1]
    BY <1>1, <1>2 DEF old
  <2>3. buckets' = UnlinkAt(buckets, index, 1)
    BY <1>4 DEF UnlinkAt
  <2> QED BY ONLY <1>1, <2>1, <2>2, <2>3, Unlinked
<1>7. /\ newBuckets' \in Chains(2 * capacity)
      /\ Placed(newBuckets', 2 * capacity) /\ Distinct(newBuckets')
      /\ NodesIn(newBuckets') = NodesIn(newBuckets) \cup {node}
  <2>1. Placed(newBuckets, 2 * capacity) /\ Distinct(newBuckets)
    BY DEF WellPlaced
  <2>2. newBuckets' = PushAt(newBuckets, 2 * capacity, node)
    BY <1>4 DEF PushAt
  <2> QED BY ONLY <1>1, <1>2, <1>5, <2>1, <2>2, Pushed
<1>8. TypeOK'
  BY <1>4, <1>6, <1>7 DEF TypeOK
<1>9. WellPlaced'
  BY <1>4, <1>6, <1>7 DEF WellPlaced
<1>10. Nodes' = Nodes
  BY <1>3, <1>6, <1>7 DEF Nodes
<1>11. NothingLost'
  <2>1. \A x \in 0 .. index - 1 : buckets'[x] = buckets[x]
    BY <1>1, <1>4 DEF Chains
  <2>2. \A n \in NodesIn(buckets'), m \in NodesIn(newBuckets') : n.key # m.key
    <3>1. \A n \in NodesIn(buckets') : n \in NodesIn(buckets) /\ n # node
      BY <1>6
    <3>2. \A n \in NodesIn(buckets') : n.key # node.key
      BY <1>1, <1>3, <3>1, KeysUnique DEF WellPlaced
    <3> QED BY <1>7, <3>1, <3>2 DEF NothingLost
  <2>3. \A x \in 0 .. index - 1 : buckets'[x] = <<>>
    BY <2>1 DEF NothingLost
  <2>4. IsFiniteSet(Nodes') /\ size' = Cardinality(Nodes')
    BY <1>4, <1>10 DEF NothingLost
  <2> QED BY <1>4, <2>2, <2>3, <2>4 DEF NothingLost
<1> QED BY <1>4, <1>8, <1>9, <1>10, <1>11 DEF LoadInv

LEMMA StepRehashNextBucket == IInv /\ RehashNextBucket => IInv'
<1> SUFFICES ASSUME IInv, RehashNextBucket PROVE IInv'
  OBVIOUS
<1> USE DEF IInv
<1>1. /\ UNCHANGED <<pc, capacity, buckets, size, newBuckets, call, result>>
      /\ index' = index + 1 /\ index \in Nat /\ buckets[index] = <<>>
      /\ index < capacity /\ capacity \in Nat /\ pc = "rehash"
  BY DEF RehashNextBucket, TypeOK
<1>2. TypeOK'
  BY <1>1 DEF TypeOK
<1>3. \A x \in 0 .. index' - 1 : buckets'[x] = <<>>
  BY <1>1 DEF NothingLost
<1> QED BY <1>1, <1>2, <1>3 DEF WellPlaced, NothingLost, Nodes, LoadInv

(* When the outer loop ends every old chain is drained, so the array that   *)
(* is freed holds no node.                                                  *)
LEMMA StepRehashDone == IInv /\ RehashDone => IInv' /\ Nodes' = Nodes
<1> SUFFICES ASSUME IInv, RehashDone PROVE IInv' /\ Nodes' = Nodes
  OBVIOUS
<1> USE DEF IInv
<1>1. /\ pc = "rehash" /\ index = capacity /\ capacity \in Nat \ {0}
      /\ buckets \in Chains(capacity) /\ newBuckets \in Chains(2 * capacity)
      /\ buckets' = newBuckets /\ newBuckets' = EmptyChains(0)
      /\ capacity' = 2 * capacity /\ index' = 0 /\ pc' = "insert"
      /\ UNCHANGED <<size, call, result>>
  BY DEF RehashDone, TypeOK
<1>2. \A x \in DOMAIN buckets : buckets[x] = <<>>
  BY <1>1 DEF NothingLost, Chains
<1>3. NodesIn(buckets) = {}
  BY <1>2 DEF NodesIn
<1>4. newBuckets' \in Chains(0) /\ NodesIn(newBuckets') = {}
  BY <1>1, NoNodes
<1>5. TypeOK'
  BY <1>1, <1>4 DEF TypeOK
<1>6. WellPlaced'
  BY <1>1, <1>4, NoNodes DEF WellPlaced
<1>7. Nodes' = Nodes
  BY <1>1, <1>3, <1>4 DEF Nodes
<1>8. NothingLost'
  BY <1>1, <1>4, <1>7 DEF NothingLost
<1>9. LoadInv'
  BY <1>1 DEF LoadInv, TypeOK
<1> QED BY <1>5, <1>6, <1>7, <1>8, <1>9

(* Between calls and at the insertion every node is in the live array. *)
LEMMA NodesAtRest ==
  ASSUME IInv, pc # "rehash"
  PROVE  Nodes = NodesIn(buckets) /\ newBuckets \in Chains(0) /\ NodesIn(newBuckets) = {}
<1>1. newBuckets \in Chains(0)
  BY DEF IInv, TypeOK
<1> QED BY <1>1, NoNodes DEF Nodes

(* The node the put that is under way stores. *)
Pending == [key |-> call.key, value |-> call.value]

(* The set of nodes after one for node.key is stored, and after k's is gone. *)
Stored(N, node) == {n \in N : n.key # node.key} \cup {node}
Without(N, k) == {n \in N : n.key # k}

LEMMA StepInsert ==
  IInv /\ Insert => IInv' /\ Nodes' = Stored(Nodes, Pending)
<1> SUFFICES ASSUME IInv, Insert
             PROVE  IInv' /\ Nodes' = Stored(Nodes, Pending)
  OBVIOUS
<1> USE DEF IInv
<1> DEFINE b == BucketOf(Pending.key, capacity)
<1>1. /\ capacity \in Nat \ {0} /\ capacity \in Nat /\ buckets \in Chains(capacity)
      /\ Pending \in Node /\ Pending.key \in Keys
      /\ pc = "insert" /\ pc' = "idle" /\ result' = TRUE /\ size \in Nat
      /\ UNCHANGED <<capacity, newBuckets, index, call>>
  BY DEF Insert, TypeOK, Node, Calls, Pending
<1>2. Placed(buckets, capacity) /\ Distinct(buckets)
  BY DEF WellPlaced
<1>3. b \in DOMAIN buckets
  BY <1>1, BucketInRange DEF Chains
<1>4. /\ Nodes = NodesIn(buckets) /\ newBuckets \in Chains(0) /\ NodesIn(newBuckets) = {}
      /\ Nodes' = NodesIn(buckets')
  BY <1>1, NodesAtRest DEF Nodes
<1>5. Holds(buckets[b], Pending.key) <=> \E n \in Nodes : n.key = Pending.key
  BY <1>1, <1>2, <1>4, SearchIsExact
<1>6. IsFiniteSet(Nodes) /\ size = Cardinality(Nodes)
  BY DEF NothingLost
<1>7. SUFFICES /\ buckets' \in Chains(capacity) /\ size' \in Nat
               /\ Placed(buckets', capacity) /\ Distinct(buckets')
               /\ Nodes' = Stored(Nodes, Pending)
               /\ IsFiniteSet(Nodes') /\ size' = Cardinality(Nodes')
               /\ size' <= size + 1
  <2>1. TypeOK'
    BY <1>1, <1>7 DEF TypeOK
  <2>2. WellPlaced'
    BY <1>1, <1>7 DEF WellPlaced
  <2>3. index = 0
    BY <1>1 DEF TypeOK
  <2>4. NothingLost'
    BY <1>1, <1>4, <1>7, <2>3 DEF NothingLost
  <2>5. LoadInv'
    BY <1>1, <1>7 DEF LoadInv
  <2> QED BY <1>7, <2>1, <2>2, <2>4, <2>5
<1> DEFINE i == PositionOf(buckets[b], Pending.key)
           old == buckets[b][i]
<1>8. CASE Holds(buckets[b], Pending.key)
  <2>1. i \in DOMAIN buckets[b] /\ old.key = Pending.key
    BY <1>8, Found
  <2>2. buckets' = UpdateAt(buckets, b, i, Pending) /\ size' = size
    BY <1>8 DEF Insert, UpdateAt, Pending
  <2> HIDE DEF b, i
  <2>3. /\ buckets' \in Chains(capacity) /\ Placed(buckets', capacity) /\ Distinct(buckets')
        /\ NodesIn(buckets') = (NodesIn(buckets) \ {old}) \cup {Pending}
    BY <1>1, <1>2, <1>3, <2>1, <2>2, Updated
  <2>4. old \in Nodes
    BY <1>3, <1>4, <2>1, InNodes
  <2> HIDE DEF old
  <2>5. \A n \in Nodes : n.key = Pending.key => n = old
    BY <1>1, <1>2, <1>4, <2>1, <2>4, KeysUnique
  <2>6. Nodes' = (Nodes \ {old}) \cup {Pending}
    BY <1>4, <2>3
  <2>7. Nodes' = Stored(Nodes, Pending)
    BY <2>1, <2>5, <2>6 DEF Stored
  <2>8. IsFiniteSet(Nodes \ {old}) /\ Cardinality(Nodes \ {old}) = size - 1
    BY <1>6, <2>4, FS_RemoveElement
  <2>9. Pending \notin Nodes \ {old}
    BY <2>5
  <2>10. IsFiniteSet(Nodes') /\ Cardinality(Nodes') = (size - 1) + 1
    BY <2>6, <2>8, <2>9, FS_AddElement
  <2> QED BY <1>1, <2>2, <2>3, <2>7, <2>10
<1>9. CASE ~Holds(buckets[b], Pending.key)
  <2>1. buckets' = PushAt(buckets, capacity, Pending) /\ size' = size + 1
    BY <1>9 DEF Insert, PushAt, Pending
  <2>2. \A n \in NodesIn(buckets) : n.key # Pending.key
    BY <1>4, <1>5, <1>9
  <2>3. /\ buckets' \in Chains(capacity) /\ Placed(buckets', capacity) /\ Distinct(buckets')
        /\ NodesIn(buckets') = NodesIn(buckets) \cup {Pending}
    BY <1>1, <1>2, <2>1, <2>2, Pushed
  <2>4. Pending \notin Nodes /\ Nodes' = Nodes \cup {Pending}
    BY <1>4, <2>2, <2>3
  <2>5. IsFiniteSet(Nodes') /\ Cardinality(Nodes') = size + 1
    BY <1>6, <2>4, FS_AddElement
  <2>6. Nodes' = Stored(Nodes, Pending)
    BY <1>4, <2>2, <2>4 DEF Stored
  <2> QED BY <1>1, <2>1, <2>3, <2>5, <2>6
<1> QED BY <1>8, <1>9

LEMMA StepDelete ==
  ASSUME IInv, NEW k \in Keys, MapDelete(k)
  PROVE  /\ IInv'
         /\ Nodes' = Without(Nodes, k)
         /\ result' = IF \E n \in Nodes : n.key = k THEN TRUE ELSE FALSE
<1> USE DEF IInv
<1> DEFINE b == BucketOf(k, capacity)
<1>1. /\ capacity \in Nat \ {0} /\ capacity \in Nat /\ buckets \in Chains(capacity)
      /\ pc = "idle" /\ size \in Nat /\ call' \in Calls
      /\ UNCHANGED <<pc, capacity, newBuckets, index>>
  BY DEF MapDelete, TypeOK, Call, Calls, Storable
<1>2. Placed(buckets, capacity) /\ Distinct(buckets)
  BY DEF WellPlaced
<1>3. b \in DOMAIN buckets
  BY <1>1, BucketInRange DEF Chains
<1>4. /\ Nodes = NodesIn(buckets) /\ newBuckets \in Chains(0) /\ NodesIn(newBuckets) = {}
      /\ Nodes' = NodesIn(buckets')
  BY <1>1, NodesAtRest DEF Nodes
<1>5. Holds(buckets[b], k) <=> \E n \in Nodes : n.key = k
  BY <1>1, <1>2, <1>4, SearchIsExact
<1>6. IsFiniteSet(Nodes) /\ size = Cardinality(Nodes)
  BY DEF NothingLost
<1> DEFINE i == PositionOf(buckets[b], k)
           old == buckets[b][i]
<1>7. CASE Holds(buckets[b], k)
  <2>1. i \in DOMAIN buckets[b] /\ old.key = k
    BY <1>7, Found
  <2>2. buckets' = UnlinkAt(buckets, b, i) /\ size' = size - 1 /\ result' = TRUE
    BY <1>7 DEF MapDelete, UnlinkAt
  <2> HIDE DEF b, i
  <2>3. /\ buckets' \in Chains(capacity) /\ Placed(buckets', capacity) /\ Distinct(buckets')
        /\ NodesIn(buckets') = NodesIn(buckets) \ {old}
    BY <1>1, <1>2, <1>3, <2>1, <2>2, Unlinked
  <2>4. old \in Nodes
    BY <1>3, <1>4, <2>1, InNodes
  <2> HIDE DEF old
  <2>5. \A n \in Nodes : n.key = k => n = old
    BY <1>1, <1>2, <1>4, <2>1, <2>4, KeysUnique
  <2>6. Nodes' = Nodes \ {old} /\ Nodes' = Without(Nodes, k)
    BY <1>4, <2>1, <2>3, <2>5 DEF Without
  <2>7. IsFiniteSet(Nodes') /\ Cardinality(Nodes') = size - 1
    BY <1>6, <2>4, <2>6, FS_RemoveElement
  <2>8. size' \in Nat
    BY <2>2, <2>7, FS_CardinalityType
  <2>9. TypeOK'
    BY <1>1, <2>2, <2>3, <2>8 DEF TypeOK
  <2>10. WellPlaced'
    BY <1>1, <2>3 DEF WellPlaced
  <2>11. NothingLost'
    <3>1. index = 0
      BY <1>1 DEF TypeOK
    <3> QED BY <1>1, <1>4, <2>2, <2>7, <3>1 DEF NothingLost
  <2>12. LoadInv'
    BY <1>1, <2>2 DEF LoadInv
  <2> QED BY <1>5, <1>7, <2>2, <2>6, <2>9, <2>10, <2>11, <2>12
<1>8. CASE ~Holds(buckets[b], k)
  <2>1. UNCHANGED <<buckets, size>> /\ result' = FALSE
    BY <1>8 DEF MapDelete
  <2>2. TypeOK'
    BY <1>1, <2>1 DEF TypeOK
  <2>3. Nodes' = Nodes /\ Nodes' = Without(Nodes, k)
    BY <1>4, <1>5, <1>8, <2>1 DEF Without
  <2>4. WellPlaced' /\ NothingLost'
    BY <1>1, <2>1, Frame
  <2> QED BY <1>1, <1>5, <1>8, <2>1, <2>2, <2>3, <2>4 DEF LoadInv
<1> QED BY <1>7, <1>8

THEOREM Step == IInv /\ [Next]_vars => IInv'
<1> SUFFICES ASSUME IInv, [Next]_vars PROVE IInv'
  OBVIOUS
<1>1. CASE MapInit
  BY <1>1, StepInit
<1>2. CASE MapInitFails
  BY <1>2, StepQuiet
<1>3. CASE MapFree
  BY <1>3, StepFree
<1>4. ASSUME NEW k \in Keys, NEW v \in Storable, MapPut(k, v) PROVE IInv'
  BY <1>4, StepPut
<1>5. ASSUME NEW k \in Keys, NEW v \in Storable, MapPutCannotResize(k, v) PROVE IInv'
  BY <1>5, StepQuiet
<1>6. ASSUME NEW k \in Keys, MapGet(k) PROVE IInv'
  BY <1>6, StepQuiet
<1>7. ASSUME NEW k \in Keys, MapDelete(k) PROVE IInv'
  BY <1>7, StepDelete
<1>8. CASE RehashNode
  BY <1>8, StepRehashNode
<1>9. CASE RehashNextBucket
  BY <1>9, StepRehashNextBucket
<1>10. CASE RehashDone
  BY <1>10, StepRehashDone
<1>11. CASE Insert
  BY <1>11, StepInsert
<1>12. CASE InsertFails
  BY <1>12, StepQuiet
<1>13. CASE UNCHANGED vars
  <2>1. TypeOK' /\ LoadInv'
    BY <1>13 DEF IInv, TypeOK, LoadInv, vars
  <2> QED BY <1>13, <2>1, Frame DEF vars, IInv
<1> QED
  BY <1>1, <1>2, <1>3, <1>4, <1>5, <1>6, <1>7, <1>8, <1>9, <1>10, <1>11, <1>12, <1>13
  DEF Next, PutStep

(* The strengthened invariant holds in every reachable state: the facts of  *)
(* the map that the theorems below read off.                                *)
THEOREM Invariance == Spec => []IInv
BY Initially, Step, PTL DEF Spec

-----------------------------------------------------------------------------
(* The pieces of the invariant, each for every reachable state. *)

(* Every variable keeps its type: in particular size never goes below zero  *)
(* (map_delete decrements an unsigned) and an index never leaves its array. *)
THEOREM TypeCorrect == Spec => []TypeOK
<1>1. IInv => TypeOK
  BY DEF IInv
<1> QED BY <1>1, Invariance, PTL

(* Nodes are where a search looks for them, once per key, in both arrays    *)
(* and at every step of map_resize.                                         *)
THEOREM NodesWellPlaced == Spec => []WellPlaced
<1>1. IInv => WellPlaced
  BY DEF IInv
<1> QED BY <1>1, Invariance, PTL

(* No step of map_put, map_resize or map_delete loses or duplicates a node, *)
(* and size counts them.                                                    *)
THEOREM NoNodeLost == Spec => []NothingLost
<1>1. IInv => NothingLost
  BY DEF IInv
<1> QED BY <1>1, Invariance, PTL

(* The load of the map between calls stays within one node of the threshold *)
(* map_put checks, also after resizes and puts that failed.                 *)
THEOREM LoadStaysBounded == Spec => []LoadBounded
<1>1. IInv => LoadBounded
  BY DEF IInv, LoadInv, LoadBounded
<1> QED BY <1>1, Invariance, PTL

-----------------------------------------------------------------------------
(* The dictionary a set of nodes stands for, when no two share a key. *)
FunOf(N) == [k \in {n.key : n \in N} |-> (CHOOSE n \in N : n.key = k).value]
Functional(N) == \A n, m \in N : n.key = m.key => n = m

LEMMA FunOfValue ==
  ASSUME NEW N, Functional(N), NEW n \in N
  PROVE  n.key \in DOMAIN FunOf(N) /\ FunOf(N)[n.key] = n.value
<1>1. (CHOOSE m \in N : m.key = n.key) = n
  BY DEF Functional
<1> QED BY <1>1 DEF FunOf

LEMMA FunOfExtensional ==
  ASSUME NEW N PROVE FunOf(N) = [k \in DOMAIN FunOf(N) |-> FunOf(N)[k]]
BY DEF FunOf

PutIn(f, node) == [j \in DOMAIN f \cup {node.key} |-> IF j = node.key THEN node.value ELSE f[j]]

LEMMA FunOfPut ==
  ASSUME NEW N, Functional(N), NEW node
  PROVE  FunOf(Stored(N, node)) = PutIn(FunOf(N), node)
<1> DEFINE M == Stored(N, node)
<1>1. Functional(M)
  BY DEF Functional, Stored
<1>2. DOMAIN FunOf(M) = DOMAIN FunOf(N) \cup {node.key}
  BY DEF FunOf, Stored
<1>3. ASSUME NEW j \in DOMAIN FunOf(M)
      PROVE  FunOf(M)[j] = IF j = node.key THEN node.value ELSE FunOf(N)[j]
  <2>1. PICK n \in M : n.key = j
    BY <1>3 DEF FunOf
  <2>2. FunOf(M)[j] = n.value
    BY <1>1, <2>1, FunOfValue
  <2>3. CASE j = node.key
    BY <2>1, <2>2, <2>3 DEF Stored
  <2>4. CASE j # node.key
    <3>1. n \in N
      BY <2>1, <2>4 DEF Stored
    <3>2. FunOf(N)[j] = n.value
      BY <2>1, <3>1, FunOfValue
    <3> QED BY <2>2, <2>4, <3>2
  <2> QED BY <2>3, <2>4
<1> HIDE DEF M
<1> QED BY <1>2, <1>3, FunOfExtensional DEF M, PutIn

LEMMA FunOfDelete ==
  ASSUME NEW N, Functional(N), NEW k
  PROVE  FunOf(Without(N, k)) = [j \in DOMAIN FunOf(N) \ {k} |-> FunOf(N)[j]]
<1> DEFINE M == Without(N, k)
<1>1. Functional(M)
  BY DEF Functional, Without
<1>2. DOMAIN FunOf(M) = DOMAIN FunOf(N) \ {k}
  BY DEF FunOf, Without
<1>3. ASSUME NEW j \in DOMAIN FunOf(M) PROVE FunOf(M)[j] = FunOf(N)[j]
  <2>1. PICK n \in M : n.key = j
    BY <1>3 DEF FunOf
  <2>2. FunOf(M)[j] = n.value
    BY <1>1, <2>1, FunOfValue
  <2>3. n \in N
    BY <2>1 DEF Without
  <2>4. FunOf(N)[j] = n.value
    BY <2>1, <2>3, FunOfValue
  <2> QED BY <2>2, <2>4
<1> HIDE DEF M
<1> QED BY <1>2, <1>3, FunOfExtensional DEF M

LEMMA ContentsIsFunOf == Contents = FunOf(Nodes) /\ Contents' = FunOf(Nodes')
BY DEF Contents, FunOf

LEMMA NodesFunctional == IInv => Functional(Nodes) /\ Nodes \subseteq Node
<1> SUFFICES ASSUME IInv PROVE Functional(Nodes) /\ Nodes \subseteq Node
  OBVIOUS
<1> USE DEF IInv
<1>1. CASE pc = "rehash"
  <2>1. /\ capacity \in Nat /\ 2 * capacity \in Nat
        /\ buckets \in Chains(capacity) /\ newBuckets \in Chains(2 * capacity)
    BY <1>1 DEF TypeOK
  <2>2. \A n, m \in NodesIn(buckets) : n.key = m.key => n = m
    BY <2>1, KeysUnique DEF WellPlaced
  <2>3. \A n, m \in NodesIn(newBuckets) : n.key = m.key => n = m
    BY <2>1, KeysUnique DEF WellPlaced
  <2>4. \A n \in NodesIn(buckets), m \in NodesIn(newBuckets) : n.key # m.key
    BY DEF NothingLost
  <2>5. NodesIn(buckets) \subseteq Node /\ NodesIn(newBuckets) \subseteq Node
    BY <2>1, NodesTyped
  <2> QED BY <2>2, <2>3, <2>4, <2>5 DEF Functional, Nodes
<1>2. CASE pc # "rehash"
  <2>1. capacity \in Nat /\ buckets \in Chains(capacity) /\ Nodes = NodesIn(buckets)
    BY <1>2, NodesAtRest DEF TypeOK
  <2> QED BY <2>1, KeysUnique, NodesTyped DEF WellPlaced, Functional
<1> QED BY <1>1, <1>2

LEMMA AbstractInitially == Init => Abstract!Init
<1> SUFFICES ASSUME Init PROVE Abstract!Init
  OBVIOUS
<1>1. Nodes = {}
  BY NoNodes DEF Init, Nodes
<1>2. Contents = Abstract!Empty
  BY <1>1, ContentsIsFunOf DEF FunOf, Abstract!Empty
<1>3. Putting = FALSE
  BY DEF Init, Putting
<1> QED BY <1>2, <1>3 DEF Init, Call, Storable, Abstract!Init, Abstract!Call, Abstract!Storable

(* A step between calls, or in the middle of a put, that the caller cannot see. *)
LEMMA Stutters ==
  ASSUME Nodes' = Nodes, Putting' = Putting, UNCHANGED <<call, result>>
  PROVE  UNCHANGED Abstract!vars
BY ContentsIsFunOf DEF Abstract!vars

LEMMA AbstractStep == IInv /\ [Next]_vars => [Abstract!Next]_(Abstract!vars)
<1> SUFFICES ASSUME IInv, [Next]_vars PROVE [Abstract!Next]_(Abstract!vars)
  OBVIOUS
<1>0. Functional(Nodes) /\ Contents = FunOf(Nodes) /\ Contents' = FunOf(Nodes')
  BY NodesFunctional, ContentsIsFunOf
<1>1. ASSUME Nodes' = {}, ~Putting, ~Putting', UNCHANGED <<call, result>> PROVE Abstract!Clear
  <2>1. Contents' = Abstract!Empty
    BY <1>0, <1>1 DEF FunOf, Abstract!Empty
  <2>2. Putting' = Putting
    BY <1>1 DEF Putting
  <2> QED BY <1>1, <2>1, <2>2 DEF Abstract!Clear
<1>2. CASE MapInit
  <2>1. newBuckets \in Chains(0) /\ InitialCapacity \in Nat
    BY <1>2, CapacityAssumption DEF IInv, TypeOK, MapInit
  <2>2. Nodes' = {}
    BY <1>2, <2>1, NoNodes DEF MapInit, Nodes
  <2>3. ~Putting /\ ~Putting' /\ UNCHANGED <<call, result>>
    BY <1>2 DEF MapInit, Putting
  <2> QED BY <1>1, <2>2, <2>3 DEF Abstract!Next
<1>3. CASE MapFree
  <2>1. newBuckets \in Chains(0)
    BY <1>3 DEF IInv, TypeOK, MapFree
  <2>2. Nodes' = {}
    BY <1>3, <2>1, NoNodes DEF MapFree, Nodes
  <2>3. ~Putting /\ ~Putting' /\ UNCHANGED <<call, result>>
    BY <1>3 DEF MapFree, Putting
  <2> QED BY <1>1, <2>2, <2>3 DEF Abstract!Next
<1>4. CASE MapInitFails
  <2>1. Putting' = Putting
    BY <1>4 DEF MapInitFails, Putting
  <2> QED BY <1>4, <2>1, Stutters DEF MapInitFails, Nodes
<1>5. ASSUME NEW k \in Keys, NEW v \in Storable, MapPut(k, v) PROVE Abstract!Next
  <2>1. newBuckets \in Chains(0) /\ 2 * capacity \in Nat
    BY <1>5 DEF IInv, TypeOK, MapPut
  <2>2. NodesIn(newBuckets') = NodesIn(newBuckets)
    BY <1>5, <2>1, NoNodes DEF MapPut
  <2>3. Nodes' = Nodes
    BY <1>5, <2>2 DEF MapPut, Nodes
  <2>4. ~Putting /\ Putting' = TRUE
    BY <1>5 DEF MapPut, Putting
  <2>5. Abstract!BeginPut(k, v)
    BY <1>0, <1>5, <2>3, <2>4 DEF MapPut, Call, Abstract!BeginPut, Abstract!Call
  <2> QED BY <2>5 DEF Abstract!Next, Abstract!Storable, Storable
<1>6. ASSUME NEW k \in Keys, NEW v \in Storable, MapPutCannotResize(k, v) PROVE Abstract!Next
  <2>1. ~Putting /\ Putting' = FALSE /\ Nodes' = Nodes
    BY <1>6 DEF MapPutCannotResize, Putting, Nodes
  <2>2. Abstract!RefusePut
    BY <1>0, <1>6, <2>1
    DEF MapPutCannotResize, Call, Storable, Abstract!RefusePut, Abstract!Call, Abstract!Storable
  <2> QED BY <2>2 DEF Abstract!Next
<1>7. CASE InsertFails
  <2>1. Putting /\ Putting' = FALSE /\ Nodes' = Nodes
    BY <1>7 DEF InsertFails, Putting, Nodes
  <2>2. Abstract!RefusePut
    BY <1>0, <1>7, <2>1 DEF InsertFails, Abstract!RefusePut
  <2> QED BY <2>2 DEF Abstract!Next
<1>8. CASE RehashNode
  <2>1. Nodes' = Nodes /\ Putting' = Putting
    BY <1>8, StepRehashNode DEF RehashNode, Putting
  <2> QED BY <1>8, <2>1, Stutters DEF RehashNode
<1>9. CASE RehashNextBucket
  <2>1. Nodes' = Nodes /\ Putting' = Putting
    BY <1>9 DEF RehashNextBucket, Putting, Nodes
  <2> QED BY <1>9, <2>1, Stutters DEF RehashNextBucket
<1>10. CASE RehashDone
  <2>1. Nodes' = Nodes
    BY <1>10, StepRehashDone
  <2>2. Putting' = Putting
    BY <1>10 DEF RehashDone, Putting
  <2> QED BY <1>10, <2>1, <2>2, Stutters DEF RehashDone
<1>11. CASE Insert
  <2>1. Nodes' = Stored(Nodes, Pending)
    BY <1>11, StepInsert
  <2>2. FunOf(Stored(Nodes, Pending)) = PutIn(FunOf(Nodes), Pending)
    BY ONLY <1>0, FunOfPut
  <2>3. Contents' = PutIn(Contents, Pending)
    BY <1>0, <2>1, <2>2
  <2>4. Putting /\ Putting' = FALSE /\ result' = TRUE /\ call' = call
    BY <1>11 DEF Insert, Putting
  <2>5. Abstract!EndPut
    BY <2>3, <2>4 DEF PutIn, Pending, Abstract!EndPut
  <2> QED BY <2>5 DEF Abstract!Next
<1>12. ASSUME NEW k \in Keys, MapDelete(k) PROVE Abstract!Next
  <2>1. Nodes' = Without(Nodes, k) /\ result' = IF \E n \in Nodes : n.key = k THEN TRUE ELSE FALSE
    BY <1>12, StepDelete
  <2>2. FunOf(Without(Nodes, k)) = [j \in DOMAIN FunOf(Nodes) \ {k} |-> FunOf(Nodes)[j]]
    BY ONLY <1>0, FunOfDelete
  <2>3. Contents' = [j \in DOMAIN Contents \ {k} |-> Contents[j]]
    BY <1>0, <2>1, <2>2
  <2>4. (k \in DOMAIN Contents) <=> \E n \in Nodes : n.key = k
    BY <1>0 DEF FunOf
  <2>5. result' = (k \in DOMAIN Contents)
    <3>1. CASE k \in DOMAIN Contents
      <4>1. result' = TRUE
        BY <2>1, <2>4, <3>1
      <4>2. (k \in DOMAIN Contents) = TRUE
        BY ONLY <3>1
      <4> QED BY ONLY <4>1, <4>2
    <3>2. CASE k \notin DOMAIN Contents
      <4>1. result' = FALSE
        BY <2>1, <2>4, <3>2
      <4>2. (k \in DOMAIN Contents) = FALSE
        BY ONLY <3>2
      <4> QED BY ONLY <4>1, <4>2
    <3> QED BY ONLY <3>1, <3>2
  <2>6. ~Putting /\ Putting' = Putting /\ call' = Call("delete", k, Nil)
    BY <1>12 DEF MapDelete, Putting
  <2>7. Abstract!Delete(k)
    BY <2>3, <2>5, <2>6 DEF Call, Abstract!Delete, Abstract!Call
  <2> QED BY <2>7 DEF Abstract!Next
<1>13. ASSUME NEW k \in Keys, MapGet(k) PROVE Abstract!Next
  <2> DEFINE b == BucketOf(k, capacity)
  <2>1. /\ capacity \in Nat \ {0} /\ buckets \in Chains(capacity) /\ Placed(buckets, capacity)
        /\ Nodes = NodesIn(buckets) /\ pc = "idle"
    BY <1>13, NodesAtRest DEF MapGet, IInv, TypeOK, WellPlaced
  <2>2. b \in DOMAIN buckets
    BY <2>1, BucketInRange DEF Chains
  <2>3. Holds(buckets[b], k) <=> k \in DOMAIN Contents
    <3>1. Holds(buckets[b], k) <=> \E n \in Nodes : n.key = k
      BY <2>1, SearchIsExact
    <3> QED BY <1>0, <3>1 DEF FunOf
  <2>4. result' = IF k \in DOMAIN Contents THEN Contents[k] ELSE Nil
    <3>1. CASE Holds(buckets[b], k)
      <4> DEFINE n == buckets[b][PositionOf(buckets[b], k)]
      <4>1. n \in Nodes /\ n.key = k
        BY <2>1, <2>2, <3>1, Found, InNodes
      <4>2. result' = n.value
        BY <1>13, <3>1 DEF MapGet
      <4> HIDE DEF n
      <4>3. result' = Contents[k]
        BY <1>0, <4>1, <4>2, FunOfValue
      <4> QED BY <2>3, <3>1, <4>3
    <3>2. CASE ~Holds(buckets[b], k)
      BY <1>13, <2>3, <3>2 DEF MapGet
    <3> QED BY <3>1, <3>2
  <2>5. ~Putting /\ Putting' = Putting /\ Nodes' = Nodes /\ call' = Call("get", k, Nil)
    BY <1>13 DEF MapGet, Putting, Nodes
  <2>6. Contents' = Contents
    BY <1>0, <2>5
  <2>7. Abstract!Get(k)
    BY <2>4, <2>5, <2>6 DEF Call, Abstract!Get, Abstract!Call
  <2> QED BY <2>7 DEF Abstract!Next
<1>14. CASE UNCHANGED vars
  <2>1. Putting' = Putting
    BY <1>14 DEF vars, Putting
  <2> QED BY <1>14, <2>1, Stutters DEF vars, Nodes
<1> QED
  BY <1>2, <1>3, <1>4, <1>5, <1>6, <1>7, <1>8, <1>9, <1>10, <1>11, <1>12, <1>13, <1>14
  DEF Next, PutStep

(* The hash map implements the dictionary, for every hash function: callers *)
(* of src/libstd's map may forget buckets, collisions and resizes.          *)
THEOREM Implements == Spec => DictionarySpec
BY AbstractInitially, AbstractStep, Invariance, PTL DEF Spec, DictionarySpec, Abstract!Spec

-----------------------------------------------------------------------------
(* The walk                                                                *)

(* FlattenSeq, up to each of the sequences *)
Flattening(seqs) ==
  LET flatten[i \in 1..Len(seqs)] ==
        IF i = 1 THEN seqs[i] ELSE flatten[i - 1] \o seqs[i]
  IN flatten

LEMMA FlatteningIs ==
  ASSUME NEW T, NEW n \in Nat \ {0}, NEW seqs \in [1..n -> Seq(T)]
  PROVE  /\ FlattenSeq(seqs) = Flattening(seqs)[n]
         /\ Flattening(seqs)[1] = seqs[1]
         /\ \A i \in 1..(n - 1) : Flattening(seqs)[i + 1] = Flattening(seqs)[i] \o seqs[i + 1]
<1> DEFINE X == Seq(T)
           step == [i \in 1..n |-> [x \in X |-> x \o seqs[i]]]
<1>1. seqs \in Seq(X) /\ Len(seqs) = n
  <2>1. seqs \in Seq(X)
    BY SeqDef
  <2>. QED BY <2>1, LenProperties
<1>2. <<>> \in X
  BY EmptySeq
<1>3. step \in StepsOver(n, X)
  <2>1. \A i \in 1..n : \A x \in X : x \o seqs[i] \in X
    BY ConcatProperties
  <2> HIDE DEF X
  <2>. QED BY <2>1 DEF StepsOver
<1>4. PICK g : Iterates(g, <<>>, step, n, X)
  <2> HIDE DEF X, step
  <2>. QED BY <1>2, <1>3, Recursion
<1>5. /\ \A i \in 0..n : g[i] \in X
      /\ g[0] = <<>> /\ \A i \in 1..n : g[i] = step[i][g[i - 1]]
  <2> HIDE DEF X, step
  <2>. QED BY <1>4 DEF Iterates
<1>6. \A i \in 1..n : g[i] = g[i - 1] \o seqs[i]
  <2>1. \A i \in 1..n : g[i - 1] \in X
    BY <1>5
  <2> HIDE DEF X
  <2>. QED BY <1>5, <2>1
<1>7. g[1] = seqs[1]
  <2>1. 1 \in 1..n /\ 1 - 1 = 0 /\ seqs[1] \in Seq(T)
    OBVIOUS
  <2>2. g[1] = <<>> \o seqs[1]
    BY <1>5, <1>6, <2>1
  <2>. QED BY <2>1, <2>2, ConcatEmptySeq
<1> DEFINE f == [i \in 1..n |-> g[i]]
<1>8. f = [i \in 1..n |-> IF i = 1 THEN seqs[i] ELSE f[i - 1] \o seqs[i]]
  <2>1. \A i \in 1..n : i # 1 => i - 1 \in 1..n
    OBVIOUS
  <2>2. \A i \in 1..n : g[i] = IF i = 1 THEN seqs[i] ELSE f[i - 1] \o seqs[i]
    BY <1>6, <1>7, <2>1
  <2>. QED BY <2>2
<1> DEFINE flat == Flattening(seqs)
<1> HIDE DEF f
<1>9. flat = [i \in 1..n |-> IF i = 1 THEN seqs[i] ELSE flat[i - 1] \o seqs[i]]
  BY <1>1, <1>8 DEF Flattening
<1>10. FlattenSeq(seqs) = flat[n]
  BY <1>1 DEF FlattenSeq, Flattening
<1> HIDE DEF flat
<1>11. ASSUME NEW i \in 1..n
       PROVE  flat[i] = IF i = 1 THEN seqs[i] ELSE flat[i - 1] \o seqs[i]
  BY <1>9, Zenon
<1>12. 1 \in 1..n /\ \A i \in 1..(n - 1) : i + 1 \in 1..n /\ i + 1 # 1 /\ (i + 1) - 1 = i
  OBVIOUS
<1>13. \A i \in 1..(n - 1) : flat[i + 1] = flat[i] \o seqs[i + 1]
  BY <1>11, <1>12, Zenon
<1>. QED BY <1>10, <1>11, <1>12, <1>13 DEF flat

(* Sequences that repeat nothing and share nothing, put together *)
LEMMA Flattened ==
  ASSUME NEW T, NEW n \in Nat \ {0}, NEW seqs \in [1..n -> Seq(T)],
         \A i \in 1..n : IsInjective(seqs[i]),
         \A i, j \in 1..n : i # j => Range(seqs[i]) \cap Range(seqs[j]) = {}
  PROVE  /\ FlattenSeq(seqs) \in Seq(T) /\ IsInjective(FlattenSeq(seqs))
         /\ Range(FlattenSeq(seqs)) = UNION {Range(seqs[i]) : i \in 1..n}
<1> DEFINE flat == Flattening(seqs)
           upTo(i) == UNION {Range(seqs[j]) : j \in 1..i}
           Good(i) == flat[i] \in Seq(T) /\ IsInjective(flat[i]) /\ Range(flat[i]) = upTo(i)
           S == {i \in 0..(n - 1) : Good(i + 1)}
<1>1. /\ FlattenSeq(seqs) = flat[n] /\ flat[1] = seqs[1]
      /\ \A i \in 1..(n - 1) : flat[i + 1] = flat[i] \o seqs[i + 1]
  BY FlatteningIs
<1> HIDE DEF flat
<1>2. 0 \in S
  <2>1. 0 \in 0..(n - 1) /\ 0 + 1 = 1 /\ 1 \in 1..n /\ 1..1 = {1}
    OBVIOUS
  <2>2. upTo(1) = Range(seqs[1])
    BY <2>1
  <2>3. Good(1)
    BY <1>1, <2>1, <2>2
  <2> HIDE DEF Good
  <2>. QED BY <2>1, <2>3
<1>3. ASSUME NEW m \in 0..((n - 1) - 1), m \in S PROVE m + 1 \in S
  <2> DEFINE i == m + 1
  <2>1. i \in 1..(n - 1) /\ i + 1 \in 1..n /\ i \in 0..(n - 1) /\ 1..(i + 1) = (1..i) \cup {i + 1}
    OBVIOUS
  <2>2. Good(i)
    BY <1>3
  <2> HIDE DEF i
  <2>3. flat[i + 1] = flat[i] \o seqs[i + 1] /\ seqs[i + 1] \in Seq(T)
    BY <1>1, <2>1
  <2>4. upTo(i + 1) = upTo(i) \cup Range(seqs[i + 1])
    BY <2>1
  <2>5. upTo(i) \cap Range(seqs[i + 1]) = {}
    <3>1. \A j \in 1..i : j \in 1..n /\ j # i + 1
      BY <2>1
    <3>. QED BY <2>1, <3>1
  <2>6. IsInjective(seqs[i + 1])
    BY <2>1
  <2> DEFINE s == flat[i]
             t == seqs[i + 1]
  <2>7. s \in Seq(T) /\ IsInjective(s) /\ Range(s) = upTo(i)
    BY <2>2
  <2> HIDE DEF upTo
  <2>8. t \in Seq(T) /\ IsInjective(t) /\ Range(s) \cap Range(t) = {}
    BY <2>3, <2>5, <2>6, <2>7
  <2>9. flat[i + 1] = s \o t /\ upTo(i + 1) = Range(s) \cup Range(t)
    BY <2>3, <2>4, <2>7
  <2> HIDE DEF s, t
  <2>10. s \o t \in Seq(T) /\ IsInjective(s \o t) /\ Range(s \o t) = Range(s) \cup Range(t)
    BY <2>7, <2>8, Concatenation
  <2>11. Good(i + 1)
    BY <2>9, <2>10
  <2> HIDE DEF Good
  <2>. QED BY <2>1, <2>11 DEF i
<1>4. 0..(n - 1) \subseteq S
  <2> HIDE DEF S
  <2>1. n - 1 \in Nat
    OBVIOUS
  <2>. QED BY <1>2, <1>3, <2>1, Counting
<1>5. n - 1 \in 0..(n - 1) /\ (n - 1) + 1 = n
  OBVIOUS
<1>6. Good(n)
  <2> HIDE DEF Good
  <2>. QED BY <1>4, <1>5
<1>. QED BY <1>1, <1>6

(* A sequence that repeats nothing is as long as the set of its items is large. *)
LEMMA LengthIsNumber ==
  ASSUME NEW T, NEW s \in Seq(T), IsInjective(s)
  PROVE  IsFiniteSet(Range(s)) /\ Cardinality(Range(s)) = Len(s)
<1>1. Len(s) \in Nat /\ DOMAIN s = 1..Len(s) /\ s \in [1..Len(s) -> T]
  BY LenProperties
<1>2. IsFiniteSet(1..Len(s)) /\ Cardinality(1..Len(s)) = Len(s)
  BY <1>1, FS_Interval
<1>3. s \in Bijection(1..Len(s), Range(s))
  BY <1>1 DEF Bijection, Injection, Surjection, IsInjective, Range
<1>. QED BY <1>2, <1>3, FS_Bijection DEF ExistsBijection

(* The walk meets every node of a map at rest once. *)
LEMMA WalkMeetsNodes ==
  ASSUME IInv, pc = "idle"
  PROVE  /\ Walk \in Seq(Node) /\ IsInjective(Walk) /\ Range(Walk) = Nodes
<1> DEFINE chains == [b \in 1..capacity |-> buckets[b - 1]]
<1>1. /\ capacity \in Nat \ {0} /\ buckets \in Chains(capacity)
      /\ Placed(buckets, capacity) /\ Distinct(buckets) /\ Nodes = NodesIn(buckets)
  BY NodesAtRest DEF IInv, TypeOK, WellPlaced
<1>2. /\ DOMAIN buckets = 0..(capacity - 1)
      /\ \A b \in 1..capacity : b - 1 \in DOMAIN buckets
      /\ \A b \in DOMAIN buckets : b + 1 \in 1..capacity /\ (b + 1) - 1 = b
  BY <1>1 DEF Chains
<1>3. chains \in [1..capacity -> Seq(Node)]
  BY <1>1, <1>2, NodesTyped
<1>4. \A b \in 1..capacity : chains[b] = buckets[b - 1]
  OBVIOUS
<1>5. Walk = FlattenSeq(chains)
  BY DEF Walk
<1> HIDE DEF chains
<1>6. ASSUME NEW b \in 1..capacity PROVE IsInjective(chains[b])
  <2>1. b - 1 \in DOMAIN buckets /\ chains[b] = buckets[b - 1]
    BY <1>2, <1>4
  <2>2. \A i, j \in DOMAIN buckets[b - 1] :
          buckets[b - 1][i].key = buckets[b - 1][j].key => i = j
    BY <1>1, <2>1, Zenon DEF Distinct
  <2>. QED BY <2>1, <2>2 DEF IsInjective
<1>7. ASSUME NEW b \in 1..capacity, NEW c \in 1..capacity, b # c
      PROVE  Range(chains[b]) \cap Range(chains[c]) = {}
  <2>1. SUFFICES ASSUME NEW n \in Range(chains[b]), n \in Range(chains[c]) PROVE FALSE
    OBVIOUS
  <2>2. \A d \in 1..capacity : n \in Range(chains[d]) => BucketOf(n.key, capacity) = d - 1
    <3> SUFFICES ASSUME NEW d \in 1..capacity, n \in Range(chains[d])
                 PROVE  BucketOf(n.key, capacity) = d - 1
      OBVIOUS
    <3>1. d - 1 \in DOMAIN buckets /\ chains[d] = buckets[d - 1]
      BY <1>2, <1>4
    <3>2. PICK i \in DOMAIN buckets[d - 1] : n = buckets[d - 1][i]
      BY <3>1 DEF Range
    <3>. QED BY <1>1, <3>1, <3>2, Zenon DEF Placed
  <2>3. b - 1 = c - 1
    BY <2>1, <2>2
  <2>. QED BY <1>1, <1>7, <2>3
<1>8. UNION {Range(chains[b]) : b \in 1..capacity} = NodesIn(buckets)
  <2>1. ASSUME NEW b \in 1..capacity PROVE Range(chains[b]) \subseteq NodesIn(buckets)
    BY <1>2, <1>4 DEF Range, NodesIn
  <2>2. ASSUME NEW n \in NodesIn(buckets) PROVE \E b \in 1..capacity : n \in Range(chains[b])
    <3>1. PICK b, i : b \in DOMAIN buckets /\ i \in DOMAIN buckets[b] /\ n = buckets[b][i]
      BY PlaceOf
    <3>2. chains[b + 1] = buckets[b] /\ b + 1 \in 1..capacity
      BY <1>2, <1>4, <3>1
    <3>. QED BY <3>1, <3>2 DEF Range
  <2>. QED BY <2>1, <2>2
<1>. QED BY <1>1, <1>3, <1>5, <1>6, <1>7, <1>8, Flattened

(* The arrays map_keys, map_values and map_items fill have size elements: each key once, with     *)
(* the value map_get answers, for any hash function and after any resizes.                         *)
THEOREM WalkIsAlwaysExact == Spec => []WalkIsExact
<1>1. ASSUME IInv, pc = "idle"
      PROVE  /\ Len(Walk) = size
             /\ IsInjective(MapKeys)
             /\ ToSet(MapItems) = {<<k, Contents[k]>> : k \in DOMAIN Contents}
             /\ \A i \in DOMAIN Walk : MapValues[i] = Contents[MapKeys[i]]
  <2>1. Walk \in Seq(Node) /\ IsInjective(Walk) /\ Range(Walk) = Nodes
    BY <1>1, WalkMeetsNodes
  <2>2. size = Cardinality(Nodes) /\ Functional(Nodes)
    BY <1>1, NodesFunctional DEF IInv, NothingLost
  <2>3. \A i \in DOMAIN Walk : Walk[i] \in Nodes
    BY <2>1 DEF Range
  <2>4. ASSUME NEW i \in DOMAIN Walk
        PROVE  Walk[i].key \in DOMAIN Contents /\ Contents[Walk[i].key] = Walk[i].value
    BY <2>2, <2>3, FunOfValue, ContentsIsFunOf
  <2>5. \A k \in DOMAIN Contents : \E i \in DOMAIN Walk : Walk[i].key = k
    BY <2>1 DEF Contents, Range
  <2>6. Len(Walk) = size
    BY <2>1, <2>2, LengthIsNumber
  <2>7. IsInjective(MapKeys)
    BY <2>1, <2>2, <2>3 DEF IsInjective, MapKeys, Functional
  <2>8. \A i \in DOMAIN Walk : MapValues[i] = Contents[MapKeys[i]]
    BY <2>4 DEF MapValues, MapKeys
  <2>9. ToSet(MapItems) = {<<k, Contents[k]>> : k \in DOMAIN Contents}
    <3>1. DOMAIN MapItems = DOMAIN Walk
          /\ \A i \in DOMAIN Walk : MapItems[i] = <<Walk[i].key, Contents[Walk[i].key]>>
      BY <2>4 DEF MapItems
    <3>2. ASSUME NEW p \in ToSet(MapItems) PROVE p \in {<<k, Contents[k]>> : k \in DOMAIN Contents}
      BY <2>4, <3>1 DEF ToSet
    <3>3. ASSUME NEW k \in DOMAIN Contents PROVE <<k, Contents[k]>> \in ToSet(MapItems)
      BY <2>5, <3>1 DEF ToSet
    <3>. QED BY <3>2, <3>3
  <2>. QED BY <2>6, <2>7, <2>8, <2>9
<1>2. IInv => WalkIsExact
  BY <1>1 DEF WalkIsExact
<1>. QED BY <1>2, Invariance, PTL

-----------------------------------------------------------------------------
(* Chains of nodes                                                         *)

Pointers == Addresses \cup {Null, Wild}

(* What stands i-th in a chain of the nodes s that ends with last *)
Stop(s, last, i) == IF i <= Len(s) THEN s[i] ELSE last

(* From first on, next leads through the nodes s, none of them met twice, to last, which may *)
(* be a node as well: the one the last of s still leads to.                                   *)
Chain(s, first, nx, last) ==
  /\ s \in Seq(Addresses) /\ IsInjective(s)
  /\ last \in Pointers
  /\ first = Stop(s, last, 1)
  /\ \A i \in 1..Len(s) : nx[s[i]] = Stop(s, last, i + 1)

LEMMA AddressesAreNodes ==
  /\ Null \notin Addresses /\ Wild \notin Addresses
  /\ Cardinality(Addresses) \in Nat
BY AddressesAssumption, FS_CardinalityType

(* There are no more nodes in a chain than there are addresses. *)
LEMMA ChainFits ==
  ASSUME NEW s \in Seq(Addresses), IsInjective(s)
  PROVE  /\ Len(s) \in 0..Cardinality(Addresses)
         /\ DOMAIN s = 1..Len(s) /\ \A i \in 1..Len(s) : s[i] \in Addresses
<1> DEFINE n == Len(s)
<1>1. n \in Nat /\ DOMAIN s = 1..n /\ \A i \in 1..n : s[i] \in Addresses
  BY LenProperties, ElementOfSeq
<1>2. s \in Injection(1..n, Addresses)
  <2>1. s \in [1..n -> Addresses]
    BY SeqDef, <1>1
  <2>. QED BY <2>1, <1>1 DEF Injection, IsInjective
<1>3. Cardinality(1..n) = n
  <2> HIDE DEF n
  <2>. QED BY <1>1, FS_Interval
<1>4. n <= Cardinality(Addresses)
  <2> HIDE DEF n
  <2>. QED BY <1>2, <1>3, AddressesAssumption, FS_Injection
<1>. QED BY <1>1, <1>4, AddressesAreNodes

(* The walk of NodesFrom, step by step *)
LEMMA HopsAre ==
  ASSUME NEW first \in Pointers, NEW nx \in [Addresses -> Pointers]
  PROVE  /\ Hops(first, nx)[0] = first
         /\ \A i \in 0..(Cardinality(Addresses) - 1) :
              /\ i \in 0..Cardinality(Addresses) /\ i + 1 \in 0..Cardinality(Addresses)
              /\ Hops(first, nx)[i + 1] = IF Hops(first, nx)[i] \in Addresses
                                          THEN nx[Hops(first, nx)[i]] ELSE Hops(first, nx)[i]
<1> DEFINE N == Cardinality(Addresses)
           X == Pointers
           after(x) == IF x \in Addresses THEN nx[x] ELSE x
           step == [i \in 1..N |-> [x \in X |-> after(x)]]
<1>1. N \in Nat
  BY AddressesAreNodes
<1>2. \A x \in X : after(x) \in X
  OBVIOUS
<1>3. step \in StepsOver(N, X)
  <2> HIDE DEF after, N, X
  <2>. QED BY <1>2 DEF StepsOver
<1>4. PICK f : Iterates(f, first, step, N, X)
  <2> HIDE DEF N, step
  <2>. QED BY <1>1, <1>3, Recursion
<1>5. \A i \in 1..N : step[i][f[i - 1]] = after(f[i - 1])
  <2>1. \A i \in 1..N : f[i - 1] \in X
    <3> HIDE DEF X, N, step
    <3>. QED BY <1>1, <1>4 DEF Iterates
  <2> HIDE DEF after, X
  <2>. QED BY <2>1
<1>6. f = [i \in 0..N |-> IF i = 0 THEN first
                          ELSE IF f[i - 1] \in Addresses THEN nx[f[i - 1]] ELSE f[i - 1]]
  <2> HIDE DEF step, X, N
  <2>1. \A i \in 0..N : i # 0 => i \in 1..N
    BY <1>1
  <2>2. \A i \in 0..N : f[i] = IF i = 0 THEN first
                               ELSE IF f[i - 1] \in Addresses THEN nx[f[i - 1]] ELSE f[i - 1]
    BY <1>4, <1>5, <2>1 DEF Iterates
  <2>. QED BY <1>4, <2>2 DEF Iterates
<1> DEFINE hop == Hops(first, nx)
<1>7. hop = [i \in 0..N |-> IF i = 0 THEN first
                            ELSE IF hop[i - 1] \in Addresses THEN nx[hop[i - 1]] ELSE hop[i - 1]]
  BY <1>6 DEF Hops
<1> HIDE DEF hop, N
<1>8. ASSUME NEW i \in 0..N
      PROVE  hop[i] = IF i = 0 THEN first
                      ELSE IF hop[i - 1] \in Addresses THEN nx[hop[i - 1]] ELSE hop[i - 1]
  BY <1>7
<1>9. 0 \in 0..N /\ \A i \in 0..(N - 1) : i \in 0..N /\ i + 1 \in 0..N /\ i + 1 # 0 /\ (i + 1) - 1 = i
  BY <1>1
<1>. QED BY <1>8, <1>9 DEF hop, N

(* The walk along a chain stands on its nodes, one after the other, and then where it ends. *)
LEMMA HopsOfChain ==
  ASSUME NEW s, NEW first \in Pointers, NEW nx \in [Addresses -> Pointers], NEW last,
         Chain(s, first, nx, last), NEW i \in 0..Cardinality(Addresses),
         last \notin Addresses \/ i <= Len(s)
  PROVE  Hops(first, nx)[i] = Stop(s, last, i + 1)
<1> DEFINE N == Cardinality(Addresses)
           hop == Hops(first, nx)
           n == Len(s)
           S == {k \in 0..N : last \notin Addresses \/ k <= n => hop[k] = Stop(s, last, k + 1)}
<1>1. N \in Nat /\ n \in 0..N /\ \A k \in 1..n : s[k] \in Addresses
  BY AddressesAreNodes, ChainFits DEF Chain
<1>2. 0 \in S
  BY <1>1, HopsAre DEF Chain
<1>3. ASSUME NEW k \in 0..(N - 1), k \in S PROVE k + 1 \in S
  <2> SUFFICES ASSUME last \notin Addresses \/ k + 1 <= n PROVE hop[k + 1] = Stop(s, last, k + 1 + 1)
    BY <1>1
  <2>1. hop[k + 1] = IF hop[k] \in Addresses THEN nx[hop[k]] ELSE hop[k]
    BY HopsAre
  <2> HIDE DEF hop
  <2>2. k + 1 \in 0..N /\ hop[k] = Stop(s, last, k + 1)
    BY <1>1, <1>3
  <2> HIDE DEF N
  <2>3. CASE k + 1 <= n
    <3>1. k + 1 \in 1..n /\ hop[k] = s[k + 1] /\ s[k + 1] \in Addresses
      BY <1>1, <2>2, <2>3 DEF Stop, n
    <3>. QED BY <2>1, <2>2, <3>1 DEF Chain, n
  <2>4. CASE ~(k + 1 <= n)
    <3>1. ~(k + 1 + 1 <= n) /\ k + 1 \in Int
      BY <1>1, <2>4
    <3>2. Stop(s, last, k + 1) = last /\ Stop(s, last, k + 1 + 1) = last
      BY <2>4, <3>1 DEF Stop, n
    <3>3. last \notin Addresses
      BY <2>4
    <3>. QED BY <2>1, <2>2, <3>2, <3>3
  <2>. QED BY <2>3, <2>4
<1>4. 0..N \subseteq S
  <2> HIDE DEF N, S
  <2>. QED BY <1>1, <1>2, <1>3, Counting
<1>. QED BY <1>4

(* So the first nodes of the walk are the chain, *)
LEMMA WalkBeginsWithChain ==
  ASSUME NEW s, NEW first \in Pointers, NEW nx \in [Addresses -> Pointers], NEW last,
         Chain(s, first, nx, last)
  PROVE  [i \in 1..Len(s) |-> Hops(first, nx)[i - 1]] = s
<1> DEFINE N == Cardinality(Addresses)
           n == Len(s)
<1>1. N \in Nat /\ n \in 0..N /\ s \in Seq(Addresses)
  BY AddressesAreNodes, ChainFits DEF Chain
<1>2. ASSUME NEW i \in 1..n PROVE Hops(first, nx)[i - 1] = s[i]
  <2>1. i - 1 \in 0..N /\ (i - 1) + 1 = i /\ i <= n /\ i - 1 <= n
    BY <1>1
  <2>2. Hops(first, nx)[i - 1] = Stop(s, last, (i - 1) + 1)
    BY <2>1, HopsOfChain
  <2>. QED BY <2>1, <2>2 DEF Stop
<1> HIDE DEF n
<1>3. s = [i \in 1..n |-> s[i]]
  BY <1>1, SeqDef DEF n
<1>. QED BY <1>2, <1>3 DEF n

(* and what NodesFrom and EndOf return of one that leaves the nodes is its nodes and its end. *)
LEMMA NodesOfChain ==
  ASSUME NEW s, NEW first \in Pointers, NEW nx \in [Addresses -> Pointers], NEW last,
         Chain(s, first, nx, last), last \notin Addresses
  PROVE  NodesFrom(first, nx) = s /\ EndOf(first, nx) = last
<1> DEFINE N == Cardinality(Addresses)
           hop == Hops(first, nx)
           n == Len(s)
           met == {i \in 1..N : hop[i - 1] \in Addresses}
<1>1. N \in Nat /\ n \in 0..N /\ DOMAIN s = 1..n /\ \A k \in 1..n : s[k] \in Addresses
  BY AddressesAreNodes, ChainFits DEF Chain
<1>3. \A i \in 1..N : hop[i - 1] = Stop(s, last, i)
  <2>1. \A i \in 1..N : i - 1 \in 0..N /\ (i - 1) + 1 = i
    BY <1>1
  <2>. QED BY <2>1, HopsOfChain
<1> HIDE DEF N, hop, n
<1>4. met = 1..n
  BY <1>1, <1>3 DEF Stop, n
<1>5. Cardinality(met) = n
  <2>1. n \in Nat
    BY <1>1
  <2>2. Cardinality(1..n) = n
    BY <2>1, FS_Interval
  <2>. QED BY <1>4, <2>2
<1>6. NodesFrom(first, nx) = [i \in 1..Cardinality(met) |-> hop[i - 1]]
  BY DEF NodesFrom, hop, N
<1>7. [i \in 1..n |-> hop[i - 1]] = s
  <2>1. \A i \in 1..n : hop[i - 1] = s[i]
    BY <1>1, <1>3 DEF Stop, n
  <2>2. s = [i \in 1..n |-> s[i]]
    BY <1>1, SeqDef DEF Chain
  <2>. QED BY <2>1, <2>2
<1>8. NodesFrom(first, nx) = s
  BY <1>5, <1>6, <1>7
<1>9. EndOf(first, nx) = IF s = <<>> THEN first ELSE nx[Last(s)]
  BY <1>8 DEF EndOf
<1>10. CASE s = <<>>
  BY <1>8, <1>9, <1>10, EmptySeq DEF Chain, Stop
<1>11. CASE s # <<>>
  <2>1. n \in 1..n /\ Last(s) = s[n]
    BY <1>1, <1>11, EmptySeq DEF Last, n, Chain
  <2>2. nx[s[n]] = Stop(s, last, n + 1)
    BY <2>1 DEF Chain, n
  <2>3. Stop(s, last, n + 1) = last
    BY <1>1 DEF Stop, n
  <2>. QED BY <1>8, <1>9, <1>11, <2>1, <2>2, <2>3
<1>. QED BY <1>8, <1>10, <1>11

-----------------------------------------------------------------------------
(* What the calls do to a chain                                            *)

LEMMA ChainFacts ==
  ASSUME NEW s, NEW first, NEW nx, NEW last, Chain(s, first, nx, last)
  PROVE  /\ Len(s) \in Nat /\ Len(s) <= Cardinality(Addresses)
         /\ DOMAIN s = 1..Len(s) /\ \A i \in 1..Len(s) : s[i] \in Addresses
         /\ NodesOf(s) \subseteq Addresses
         /\ s = <<>> <=> Len(s) = 0
         /\ s = <<>> => first = last
         /\ s # <<>> => first = s[1] /\ first \in Addresses
<1>1. s \in Seq(Addresses) /\ IsInjective(s)
  BY DEF Chain
<1>2. Len(s) \in 0..Cardinality(Addresses) /\ DOMAIN s = 1..Len(s) /\ \A i \in 1..Len(s) : s[i] \in Addresses
  BY <1>1, ChainFits
<1>3. s = <<>> <=> Len(s) = 0
  BY <1>1, EmptySeq
<1>4. Cardinality(Addresses) \in Nat
  BY AddressesAreNodes
<1> DEFINE n == Len(s)
<1>5. n \in Nat /\ n <= Cardinality(Addresses)
  <2> HIDE DEF n
  <2>. QED BY <1>2, <1>4 DEF n
<1>6. first = Stop(s, last, 1)
  BY DEF Chain
<1>7. s = <<>> => first = last
  BY <1>3, <1>6 DEF Stop
<1>8. ASSUME s # <<>> PROVE first = s[1] /\ first \in Addresses
  <2>1. 1 \in 1..n /\ 1 <= n
    <3>1. n # 0
      BY <1>3, <1>8
    <3> HIDE DEF n
    <3>. QED BY <1>5, <3>1
  <2>. QED BY <1>2, <1>6, <2>1 DEF Stop
<1>. QED BY <1>2, <1>3, <1>5, <1>7, <1>8 DEF NodesOf

(* A chain is not disturbed by what is done to other nodes. *)
LEMMA ChainKept ==
  ASSUME NEW s, NEW first, NEW nx, NEW ny, NEW last, Chain(s, first, nx, last),
         \A a \in NodesOf(s) : ny[a] = nx[a]
  PROVE  Chain(s, first, ny, last)
<1>1. \A i \in 1..Len(s) : s[i] \in NodesOf(s)
  BY ChainFacts DEF NodesOf
<1>. QED BY <1>1 DEF Chain

LEMMA EmptyChain ==
  ASSUME NEW nx
  PROVE  Chain(<<>>, Null, nx, Null) /\ NodesOf(<<>>) = {}
<1>1. <<>> \in Seq(Addresses) /\ Len(<<>>) = 0 /\ DOMAIN <<>> = {}
  BY EmptySeq
<1>. QED BY <1>1 DEF Chain, IsInjective, Stop, NodesOf, Pointers

(* list_add: the new node goes where the chain ended, and what it holds in next ends it. *)
LEMMA ChainGrows ==
  ASSUME NEW s, NEW first, NEW nx \in [Addresses -> Pointers], Chain(s, first, nx, Null),
         NEW n \in Addresses, n \notin NodesOf(s), NEW leftover \in Pointers,
         NEW ny, ny[n] = leftover, s # <<>> => ny[Last(s)] = n,
         \A a \in NodesOf(s) : a # Last(s) => ny[a] = nx[a]
  PROVE  /\ NodesOf(Append(s, n)) = NodesOf(s) \cup {n}
         /\ s = <<>> => Chain(Append(s, n), n, ny, leftover)
         /\ s # <<>> => Chain(Append(s, n), first, ny, leftover)
<1> DEFINE t == Append(s, n)
           l == Len(s)
<1>1. s \in Seq(Addresses) /\ IsInjective(s) /\ l \in Nat
      /\ DOMAIN s = 1..l /\ \A i \in 1..l : s[i] \in Addresses /\ s[i] # n
  BY ChainFacts DEF Chain, NodesOf
<1>2. /\ t \in Seq(Addresses) /\ Len(t) = l + 1 /\ DOMAIN t = 1..(l + 1)
      /\ \A i \in 1..l : t[i] = s[i]
      /\ t[l + 1] = n
  BY <1>1, AppendProperties, LenProperties
<1>3. first = Stop(s, Null, 1) /\ \A i \in 1..l : nx[s[i]] = Stop(s, Null, i + 1)
  BY DEF Chain
<1>0. s = <<>> <=> l = 0
  BY ChainFacts
<1> HIDE DEF t, l
<1>4. \A i \in 1..(l + 1) : i \in 1..l \/ i = l + 1
  BY <1>1
<1>5. IsInjective(t)
  <2> SUFFICES ASSUME NEW i \in 1..(l + 1), NEW j \in 1..(l + 1), t[i] = t[j] PROVE i = j
    BY <1>2 DEF IsInjective
  <2>. QED BY <1>1, <1>2, <1>4 DEF IsInjective
<1>6. NodesOf(t) = NodesOf(s) \cup {n}
  <2>1. 1..l \subseteq 1..(l + 1) /\ l + 1 \in 1..(l + 1)
    BY <1>1
  <2>2. NodesOf(t) = {t[i] : i \in 1..(l + 1)} /\ NodesOf(s) = {s[i] : i \in 1..l}
    BY <1>1, <1>2 DEF NodesOf
  <2>3. NodesOf(t) \subseteq NodesOf(s) \cup {n}
    BY <1>2, <1>4, <2>2
  <2>4. \A i \in 1..l : s[i] = t[i] /\ i \in 1..(l + 1)
    BY <1>2, <2>1
  <2>5. NodesOf(s) \subseteq NodesOf(t) /\ n \in NodesOf(t)
    BY <1>2, <2>1, <2>2, <2>4
  <2>. QED BY <2>3, <2>5
<1>7. ASSUME l = 0 PROVE Chain(t, n, ny, leftover)
  <2>1. \A i \in 1..Len(t) : i = 1 /\ Stop(t, leftover, i + 1) = leftover
    BY <1>2, <1>7 DEF Stop
  <2>2. l + 1 = 1 /\ t[1] = n /\ Len(t) = 1
    BY <1>2, <1>7
  <2>3. n = Stop(t, leftover, 1)
    BY <2>2 DEF Stop
  <2>. QED BY <1>2, <1>5, <2>1, <2>2, <2>3 DEF Chain
<1>8. ASSUME l # 0 PROVE Chain(t, first, ny, leftover)
  <2>1. l \in 1..l /\ Last(s) = s[l]
    BY <1>1, <1>8 DEF Last, l
  <2>2. Last(s) \in NodesOf(s) /\ Last(s) \in Addresses /\ Last(s) # n
    BY <1>1, <2>1 DEF NodesOf
  <2>3. \A a \in NodesOf(s) \cup {n} : ny[a] = IF a = n THEN leftover ELSE IF a = Last(s) THEN n ELSE nx[a]
    BY <1>0, <1>8, <2>2
  <2>4. first = Stop(t, leftover, 1)
    BY <1>1, <1>2, <1>3, <1>8 DEF Stop, l
  <2>5. ASSUME NEW i \in 1..(l + 1) PROVE ny[t[i]] = Stop(t, leftover, i + 1)
    <3>1. CASE i = l + 1
      <4>1. ny[t[i]] = leftover
        BY <1>2, <2>3, <3>1
      <4>2. ~(i + 1 <= Len(t))
        BY <1>1, <1>2, <3>1
      <4>. QED BY <4>1, <4>2 DEF Stop
    <3>2. CASE i = l
      <4>1. t[i] = Last(s) /\ ny[t[i]] = n
        BY <1>1, <1>2, <2>1, <2>2, <2>3, <3>2
      <4>. QED BY <1>1, <1>2, <3>2, <4>1 DEF Stop
    <3>3. CASE i \in 1..(l - 1)
      <4>1. i \in 1..l /\ i + 1 \in 1..l /\ i # l /\ i + 1 <= l /\ i + 1 <= l + 1
        BY <1>1, <3>3
      <4>2. t[i] = s[i] /\ s[i] # Last(s) /\ t[i + 1] = s[i + 1]
        BY <1>1, <1>2, <2>1, <4>1 DEF IsInjective
      <4>3. ny[t[i]] = nx[s[i]]
        <5>1. s[i] \in NodesOf(s) /\ s[i] # n
          BY <1>1, <4>1 DEF NodesOf
        <5>. QED BY <2>3, <4>2, <5>1
      <4>4. nx[s[i]] = s[i + 1]
        BY <1>3, <4>1 DEF Stop, l
      <4>. QED BY <1>2, <4>1, <4>2, <4>3, <4>4 DEF Stop
    <3>. QED BY <1>1, <3>1, <3>2, <3>3
  <2>6. Chain(t, first, ny, leftover)
    BY <1>2, <1>5, <2>4, <2>5 DEF Chain
  <2>. QED BY <2>6
<1>. QED BY <1>0, <1>6, <1>7, <1>8 DEF t

(* stack_push: the new node leads to what was the first. *)
LEMMA ChainPushed ==
  ASSUME NEW s, NEW first, NEW nx \in [Addresses -> Pointers], NEW last, Chain(s, first, nx, last),
         NEW n \in Addresses, n \notin NodesOf(s),
         NEW ny, ny[n] = first, \A a \in NodesOf(s) : ny[a] = nx[a]
  PROVE  /\ NodesOf(<<n>> \o s) = NodesOf(s) \cup {n}
         /\ Len(<<n>> \o s) = Len(s) + 1
         /\ Chain(<<n>> \o s, n, ny, last)
<1> DEFINE t == <<n>> \o s
           l == Len(s)
<1>1. s \in Seq(Addresses) /\ IsInjective(s) /\ l \in Nat
      /\ DOMAIN s = 1..l /\ \A i \in 1..l : s[i] \in Addresses /\ s[i] # n
  BY ChainFacts DEF Chain, NodesOf
<1>2. <<n>> \in Seq(Addresses) /\ Len(<<n>>) = 1 /\ <<n>>[1] = n
  OBVIOUS
<1>3. t \in Seq(Addresses) /\ Len(t) = 1 + l
      /\ \A i \in 1..(1 + l) : t[i] = IF i <= 1 THEN <<n>>[i] ELSE s[i - 1]
  BY <1>1, <1>2, ConcatProperties
<1>4. DOMAIN t = 1..(1 + l)
  BY <1>3, LenProperties
<1>5. first = Stop(s, last, 1) /\ \A i \in 1..l : nx[s[i]] = Stop(s, last, i + 1)
  BY DEF Chain
<1>6. \A i \in 1..l : ny[s[i]] = nx[s[i]]
  BY <1>1 DEF NodesOf
<1> HIDE DEF t, l
<1>7. t[1] = n /\ \A i \in 1..l : i + 1 \in 1..(1 + l) /\ t[i + 1] = s[i]
  <2>1. 1 \in 1..(1 + l) /\ \A i \in 1..l : i + 1 \in 1..(1 + l) /\ ~(i + 1 <= 1) /\ (i + 1) - 1 = i
    BY <1>1
  <2>. QED BY <1>2, <1>3, <2>1
<1>8. \A i \in 1..(1 + l) : i = 1 \/ \E j \in 1..l : i = j + 1
  <2> TAKE i \in 1..(1 + l)
  <2>1. i = 1 \/ (i - 1 \in 1..l /\ i = (i - 1) + 1)
    BY <1>1
  <2>. QED BY <2>1
<1>9. IsInjective(t)
  <2> SUFFICES ASSUME NEW i \in 1..(1 + l), NEW j \in 1..(1 + l), t[i] = t[j] PROVE i = j
    BY <1>4 DEF IsInjective
  <2>3. ASSUME NEW k \in 1..l PROVE t[k + 1] # t[1]
    BY <1>1, <1>7
  <2>1. CASE i = 1 \/ j = 1
    BY <1>8, <2>1, <2>3
  <2>2. ASSUME NEW k \in 1..l, NEW m \in 1..l, i = k + 1, j = m + 1 PROVE i = j
    <3>1. s[k] = s[m]
      BY <1>7, <2>2
    <3>. QED BY <1>1, <2>2, <3>1 DEF IsInjective
  <2>. QED BY <1>8, <2>1, <2>2
<1>10. NodesOf(t) = NodesOf(s) \cup {n}
  <2>1. 1 \in 1..(1 + l)
    BY <1>1
  <2>2. NodesOf(t) = {t[i] : i \in 1..(1 + l)} /\ NodesOf(s) = {s[i] : i \in 1..l}
    BY <1>1, <1>4 DEF NodesOf
  <2>3. NodesOf(t) \subseteq NodesOf(s) \cup {n}
    BY <1>7, <1>8, <2>2
  <2>4. NodesOf(s) \subseteq NodesOf(t)
    BY <1>7, <2>2
  <2>. QED BY <1>7, <2>1, <2>2, <2>3, <2>4
<1>11. \A i \in 1..(l + 1) : Stop(t, last, i + 1) = Stop(s, last, i)
  <2> TAKE i \in 1..(l + 1)
  <2>1. CASE i \in 1..l
    <3>1. i <= l /\ i + 1 <= 1 + l
      BY <1>1, <2>1
    <3>. QED BY <1>3, <1>7, <2>1, <3>1 DEF Stop, l
  <2>2. CASE i = l + 1
    <3>1. ~(i <= l) /\ ~(i + 1 <= 1 + l)
      BY <1>1, <2>2
    <3>. QED BY <1>3, <3>1 DEF Stop, l
  <2>. QED BY <1>1, <2>1, <2>2
<1>12. n = Stop(t, last, 1)
  BY <1>1, <1>3, <1>7 DEF Stop
<1>13. ASSUME NEW i \in 1..Len(t) PROVE ny[t[i]] = Stop(t, last, i + 1)
  <2>1. CASE i = 1
    <3>1. 1 \in 1..(l + 1)
      BY <1>1
    <3>. QED BY <1>5, <1>6, <1>7, <1>11, <2>1, <3>1
  <2>2. ASSUME NEW j \in 1..l, i = j + 1 PROVE ny[t[i]] = Stop(t, last, i + 1)
    <3>1. ny[t[i]] = nx[s[j]] /\ j + 1 \in 1..(l + 1)
      BY <1>1, <1>6, <1>7, <2>2
    <3>. QED BY <1>5, <1>11, <2>2, <3>1
  <2>. QED BY <1>3, <1>8, <2>1, <2>2
<1>14. Chain(t, n, ny, last)
  BY <1>3, <1>9, <1>12, <1>13 DEF Chain
<1>. QED BY <1>1, <1>3, <1>10, <1>14 DEF t, l

(* A sequence without the element behind the first k *)
Skipping(s, k) == SubSeq(s, 1, k) \o SubSeq(s, k + 2, Len(s))

LEMMA WithoutIs ==
  ASSUME NEW T, NEW s \in Seq(T), NEW k \in 0..(Len(s) - 1)
  PROVE  /\ Skipping(s, k) \in Seq(T)
         /\ Len(Skipping(s, k)) = Len(s) - 1
         /\ DOMAIN Skipping(s, k) = 1..(Len(s) - 1)
         /\ \A i \in 1..(Len(s) - 1) : Skipping(s, k)[i] = IF i <= k THEN s[i] ELSE s[i + 1]
<1> DEFINE l == Len(s)
           front == SubSeq(s, 1, k)
           back == SubSeq(s, k + 2, l)
<1>1. l \in Nat /\ k \in Nat /\ k + 1 <= l
  BY LenProperties
<1>2. /\ front \in Seq(T) /\ Len(front) = k
      /\ \A i \in 1..k : front[i] = s[i]
  <2>1. \A j \in 1..k : s[j] \in T
    BY <1>1, ElementOfSeq
  <2>2. front \in Seq(T) /\ Len(front) = k
    BY <1>1, <2>1, SubSeqProperties
  <2>3. \A i \in 1..k : front[i] = s[1 + i - 1] /\ 1 + i - 1 = i
    BY <1>1, <2>1, SubSeqProperties
  <2>. QED BY <2>2, <2>3
<1>3. /\ back \in Seq(T) /\ Len(back) = l - k - 1
      /\ \A i \in 1..(l - k - 1) : back[i] = s[k + 1 + i]
  <2>1. \A j \in (k + 2)..l : s[j] \in T
    BY <1>1, ElementOfSeq
  <2>2. back \in Seq(T) /\ Len(back) = l - k - 1
    BY <1>1, <2>1, SubSeqProperties
  <2>3. \A i \in 1..(l - (k + 2) + 1) : back[i] = s[k + 2 + i - 1]
    BY <1>1, <2>1, SubSeqProperties
  <2>4. l - (k + 2) + 1 = l - k - 1 /\ \A i \in 1..(l - k - 1) : k + 2 + i - 1 = k + 1 + i
    <3> HIDE DEF l
    <3>. QED BY <1>1
  <2> HIDE DEF l, back
  <2>. QED BY <2>2, <2>3, <2>4
<1> HIDE DEF front, back, l
<1>4. /\ front \o back \in Seq(T)
      /\ Len(front \o back) = Len(front) + Len(back)
      /\ \A i \in 1..(Len(front) + Len(back)) :
           (front \o back)[i] = IF i <= Len(front) THEN front[i] ELSE back[i - Len(front)]
  BY <1>2, <1>3, ConcatProperties
<1>5. Len(front) + Len(back) = l - 1 /\ Skipping(s, k) = front \o back
  <2>1. Len(front) + Len(back) = l - 1
    BY <1>1, <1>2, <1>3
  <2>2. Skipping(s, k) = front \o back
    BY DEF Skipping, front, back, l
  <2>. QED BY <2>1, <2>2
<1> DEFINE t == Skipping(s, k)
<1> HIDE DEF t
<1>6. /\ t \in Seq(T) /\ Len(t) = l - 1
      /\ \A i \in 1..(l - 1) : t[i] = IF i <= k THEN front[i] ELSE back[i - k]
  BY <1>2, <1>4, <1>5 DEF t
<1>7. \A i \in 1..(l - 1) : t[i] = IF i <= k THEN s[i] ELSE s[i + 1]
  <2> TAKE i \in 1..(l - 1)
  <2>1. CASE i <= k
    <3>1. i \in 1..k
      BY <1>1, <2>1
    <3>. QED BY <1>2, <1>6, <2>1, <3>1
  <2>2. CASE ~(i <= k)
    <3>1. i - k \in 1..(l - k - 1) /\ k + 1 + (i - k) = i + 1
      BY <1>1, <2>2
    <3>2. back[i - k] = s[i + 1]
      BY <1>3, <3>1
    <3>. QED BY <1>6, <2>2, <3>2
  <2>. QED BY <2>1, <2>2
<1>8. DOMAIN t = 1..(l - 1)
  BY <1>6, LenProperties
<1>. QED BY <1>6, <1>7, <1>8 DEF t, l

LEMMA WithoutFirst ==
  ASSUME NEW T, NEW s \in Seq(T), s # <<>>
  PROVE  Skipping(s, 0) = Tail(s)
<1> DEFINE l == Len(s)
           t == Skipping(s, 0)
<1>1. l \in Nat \ {0}
  BY EmptySeq, LenProperties
<1>2. /\ Tail(s) \in Seq(T) /\ Len(Tail(s)) = l - 1
      /\ \A i \in 1..(l - 1) : Tail(s)[i] = s[i + 1]
  BY HeadTailProperties
<1>3. 0 \in 0..(l - 1)
  <2> HIDE DEF l
  <2>. QED BY <1>1
<1>4. /\ t \in Seq(T) /\ Len(t) = l - 1
      /\ \A i \in 1..(l - 1) : t[i] = IF i <= 0 THEN s[i] ELSE s[i + 1]
  BY <1>3, WithoutIs
<1> HIDE DEF t, l
<1>5. \A i \in 1..(l - 1) : t[i] = Tail(s)[i]
  BY <1>1, <1>2, <1>4
<1>. QED BY <1>2, <1>4, <1>5, SeqEqual DEF t

(* The nodes that are left in a chain when the one behind the first k leaves it *)
LEMMA NodesLeft ==
  ASSUME NEW s, NEW first, NEW nx, NEW last, Chain(s, first, nx, last), NEW k \in 0..(Len(s) - 1)
  PROVE  /\ Skipping(s, k) \in Seq(Addresses) /\ IsInjective(Skipping(s, k))
         /\ NodesOf(Skipping(s, k)) = NodesOf(s) \ {s[k + 1]}
         /\ \A i \in 1..(Len(s) - 1) :
              Stop(Skipping(s, k), last, i) = IF i <= k THEN s[i] ELSE Stop(s, last, i + 1)
         /\ Stop(Skipping(s, k), last, Len(s)) = last
<1> DEFINE t == Skipping(s, k)
           l == Len(s)
<1>1. s \in Seq(Addresses) /\ IsInjective(s) /\ l \in Nat /\ DOMAIN s = 1..l
  BY ChainFacts DEF Chain
<1>2. /\ t \in Seq(Addresses) /\ Len(t) = l - 1 /\ DOMAIN t = 1..(l - 1)
      /\ \A i \in 1..(l - 1) : t[i] = IF i <= k THEN s[i] ELSE s[i + 1]
  BY <1>1, WithoutIs
<1> HIDE DEF t, l
<1>0. k \in Nat /\ k + 1 \in 1..l
  BY <1>1 DEF l
<1>3. \A i \in 1..(l - 1) : i \in 1..l /\ i + 1 \in 1..l
  BY <1>1
<1>4. IsInjective(t)
  <2> SUFFICES ASSUME NEW i \in 1..(l - 1), NEW j \in 1..(l - 1), t[i] = t[j] PROVE i = j
    BY <1>2 DEF IsInjective
  <2> DEFINE I == IF i <= k THEN i ELSE i + 1
             J == IF j <= k THEN j ELSE j + 1
  <2>1. I \in 1..l /\ J \in 1..l /\ s[I] = s[J]
    BY <1>2, <1>3
  <2>2. I = J
    <3> HIDE DEF I, J
    <3>. QED BY <1>1, <2>1 DEF IsInjective
  <2>. QED BY <1>0, <2>2
<1>5. NodesOf(t) = NodesOf(s) \ {s[k + 1]}
  <2>1. NodesOf(t) = {t[i] : i \in 1..(l - 1)} /\ NodesOf(s) = {s[i] : i \in 1..l}
    BY <1>1, <1>2 DEF NodesOf
  <2>2. ASSUME NEW i \in 1..(l - 1) PROVE t[i] \in NodesOf(s) \ {s[k + 1]}
    <3>1. CASE i <= k
      <4>1. i # k + 1 /\ t[i] = s[i] /\ i \in 1..l
        BY <1>0, <1>2, <1>3, <3>1
      <4>. QED BY <1>0, <1>1, <2>1, <4>1 DEF IsInjective
    <3>2. CASE ~(i <= k)
      <4>1. i + 1 # k + 1 /\ t[i] = s[i + 1] /\ i + 1 \in 1..l
        BY <1>0, <1>2, <1>3, <3>2
      <4>. QED BY <1>0, <1>1, <2>1, <4>1 DEF IsInjective
    <3>. QED BY <3>1, <3>2
  <2>3. ASSUME NEW i \in 1..l, i # k + 1 PROVE s[i] \in NodesOf(t)
    <3>1. CASE i <= k
      <4>1. i \in 1..(l - 1)
        BY <1>0, <1>1, <3>1
      <4>. QED BY <1>2, <2>1, <3>1, <4>1
    <3>2. CASE ~(i <= k)
      <4>1. i - 1 \in 1..(l - 1) /\ ~(i - 1 <= k) /\ (i - 1) + 1 = i
        BY <1>0, <1>1, <2>3, <3>2
      <4>2. t[i - 1] = s[i]
        BY <1>2, <4>1
      <4>. QED BY <2>1, <4>1, <4>2
    <3>. QED BY <3>1, <3>2
  <2>4. NodesOf(t) \subseteq NodesOf(s) \ {s[k + 1]}
    BY <2>1, <2>2
  <2>5. NodesOf(s) \ {s[k + 1]} \subseteq NodesOf(t)
    BY <2>1, <2>3
  <2>. QED BY <2>4, <2>5
<1>6. ASSUME NEW i \in 1..(l - 1) PROVE Stop(t, last, i) = IF i <= k THEN s[i] ELSE Stop(s, last, i + 1)
  <2>1. i <= Len(t) /\ i + 1 <= l
    BY <1>1, <1>2
  <2>. QED BY <1>2, <2>1 DEF Stop, l
<1>7. Stop(t, last, l) = last
  <2>1. ~(l <= l - 1)
    BY <1>1
  <2>. QED BY <1>2, <2>1 DEF Stop
<1>. QED BY <1>2, <1>4, <1>5, <1>6, <1>7 DEF t, l

(* list_delete of the head, stack_pop *)
LEMMA HeadUnlinked ==
  ASSUME NEW s, NEW first, NEW nx, NEW last, Chain(s, first, nx, last), s # <<>>
  PROVE  first = s[1] /\ Chain(Skipping(s, 0), nx[first], nx, last)
<1> DEFINE t == Skipping(s, 0)
           l == Len(s)
<1>1. s \in Seq(Addresses) /\ l \in Nat \ {0} /\ last \in Pointers
  BY ChainFacts DEF Chain
<1>0. first = Stop(s, last, 1) /\ \A i \in 1..l : nx[s[i]] = Stop(s, last, i + 1)
  BY DEF Chain
<1>2. 0 \in 0..(l - 1)
  <2> HIDE DEF l
  <2>. QED BY <1>1
<1>3. /\ t \in Seq(Addresses) /\ IsInjective(t) /\ Len(t) = l - 1
      /\ \A i \in 1..(l - 1) : Stop(t, last, i) = IF i <= 0 THEN s[i] ELSE Stop(s, last, i + 1)
      /\ Stop(t, last, l) = last
      /\ \A i \in 1..(l - 1) : t[i] = IF i <= 0 THEN s[i] ELSE s[i + 1]
  BY <1>1, <1>2, NodesLeft, WithoutIs
<1> HIDE DEF t, l
<1>4. \A i \in 1..(l - 1) : Stop(t, last, i) = Stop(s, last, i + 1) /\ t[i] = s[i + 1]
  BY <1>3
<1>5. Stop(s, last, l + 1) = last
  BY <1>1 DEF Stop, l
<1>6. \A i \in 1..l : Stop(t, last, i) = Stop(s, last, i + 1)
  <2>1. \A i \in 1..l : i = l \/ i \in 1..(l - 1)
    BY <1>1
  <2>. QED BY <1>3, <1>4, <1>5, <2>1
<1>7. 1 \in 1..l /\ 1 <= l
  BY <1>1
<1>8. first = s[1]
  BY <1>0, <1>7 DEF Stop, l
<1>9. nx[first] = Stop(t, last, 1)
  BY <1>0, <1>6, <1>7, <1>8
<1>10. ASSUME NEW i \in 1..(l - 1) PROVE nx[t[i]] = Stop(t, last, i + 1)
  <2>1. i + 1 \in 1..l
    BY <1>1
  <2>. QED BY <1>0, <1>4, <1>6, <2>1
<1>. QED BY <1>1, <1>3, <1>8, <1>9, <1>10 DEF Chain, t

(* list_delete of a later node: the one before it takes over its next. *)
LEMMA LaterUnlinked ==
  ASSUME NEW s, NEW first, NEW nx \in [Addresses -> Pointers], NEW last, Chain(s, first, nx, last),
         NEW k \in 1..(Len(s) - 1)
  PROVE  /\ s[k] \in NodesOf(s) /\ s[k + 1] \in NodesOf(s)
         /\ Chain(Skipping(s, k), first, [nx EXCEPT ![s[k]] = nx[s[k + 1]]], last)
<1> DEFINE t == Skipping(s, k)
           l == Len(s)
           ny == [nx EXCEPT ![s[k]] = nx[s[k + 1]]]
<1>1. /\ s \in Seq(Addresses) /\ IsInjective(s) /\ last \in Pointers
      /\ l \in Nat /\ DOMAIN s = 1..l /\ \A i \in 1..l : s[i] \in Addresses
  BY ChainFacts DEF Chain
<1>2. first = Stop(s, last, 1) /\ \A i \in 1..l : nx[s[i]] = Stop(s, last, i + 1)
  BY DEF Chain
<1>3. k \in 0..(Len(s) - 1)
  BY <1>1
<1>4. /\ t \in Seq(Addresses) /\ IsInjective(t) /\ Len(t) = l - 1
      /\ \A i \in 1..(l - 1) : Stop(t, last, i) = IF i <= k THEN s[i] ELSE Stop(s, last, i + 1)
      /\ Stop(t, last, l) = last
      /\ \A i \in 1..(l - 1) : t[i] = IF i <= k THEN s[i] ELSE s[i + 1]
  <2>1. /\ Len(t) = l - 1
        /\ \A i \in 1..(l - 1) : t[i] = IF i <= k THEN s[i] ELSE s[i + 1]
    BY <1>1, <1>3, WithoutIs
  <2>2. /\ t \in Seq(Addresses) /\ IsInjective(t)
        /\ \A i \in 1..(l - 1) : Stop(t, last, i) = IF i <= k THEN s[i] ELSE Stop(s, last, i + 1)
        /\ Stop(t, last, l) = last
    BY <1>3, NodesLeft
  <2>. QED BY <2>1, <2>2
<1>5. k \in 1..(l - 1)
  OBVIOUS
<1> HIDE DEF t, l
<1>6. k \in 1..l /\ k + 1 \in 1..l /\ s[k] \in Addresses
  BY <1>1, <1>5
<1>7. \A a \in Addresses : ny[a] = IF a = s[k] THEN nx[s[k + 1]] ELSE nx[a]
  BY <1>6
<1> HIDE DEF ny
<1>8. Stop(s, last, l + 1) = last
  BY <1>1 DEF Stop, l
<1>9. \A i \in (k + 1)..l : Stop(t, last, i) = Stop(s, last, i + 1)
  <2> TAKE i \in (k + 1)..l
  <2>1. CASE i = l
    BY <1>4, <1>8, <2>1
  <2>2. CASE i # l
    <3>1. i \in 1..(l - 1) /\ ~(i <= k)
      BY <1>1, <1>5, <2>2
    <3>. QED BY <1>4, <3>1
  <2>. QED BY <2>1, <2>2
<1>10. \A i \in 1..k : Stop(t, last, i) = s[i] /\ t[i] = s[i]
  <2>1. \A i \in 1..k : i \in 1..(l - 1) /\ i <= k
    BY <1>1, <1>5
  <2>. QED BY <1>4, <2>1
<1>11. first = Stop(t, last, 1)
  <2>1. 1 \in 1..k /\ 1 <= l
    BY <1>1, <1>5
  <2>. QED BY <1>2, <1>10, <2>1 DEF Stop, l
<1>12. ASSUME NEW i \in 1..(l - 1) PROVE ny[t[i]] = Stop(t, last, i + 1)
  <2>1. CASE i = k
    <3>1. k + 1 \in (k + 1)..l /\ k \in 1..k
      BY <1>1, <1>5
    <3>2. t[i] = s[k] /\ Stop(t, last, k + 1) = Stop(s, last, k + 1 + 1)
      BY <1>9, <1>10, <2>1, <3>1
    <3>. QED BY <1>2, <1>6, <1>7, <2>1, <3>2
  <2>2. CASE i < k
    <3>1. i \in 1..k /\ i + 1 \in 1..k /\ i \in 1..l /\ i # k /\ i + 1 <= l
      BY <1>1, <1>5, <2>2
    <3>2. t[i] = s[i] /\ Stop(t, last, i + 1) = s[i + 1]
      BY <1>10, <3>1
    <3>3. s[i] # s[k] /\ s[i] \in Addresses
      BY <1>1, <1>6, <3>1 DEF IsInjective
    <3>4. ny[t[i]] = Stop(s, last, i + 1)
      BY <1>2, <1>7, <3>1, <3>2, <3>3
    <3>. QED BY <3>1, <3>2, <3>4 DEF Stop, l
  <2>3. CASE i > k
    <3>1. i + 1 \in 1..l /\ i + 1 # k /\ i + 1 \in (k + 1)..l /\ ~(i <= k)
      BY <1>1, <1>5, <2>3
    <3>2. t[i] = s[i + 1] /\ Stop(t, last, i + 1) = Stop(s, last, i + 1 + 1)
      BY <1>4, <1>9, <3>1
    <3>3. s[i + 1] # s[k] /\ s[i + 1] \in Addresses
      BY <1>1, <1>6, <3>1 DEF IsInjective
    <3>. QED BY <1>2, <1>7, <3>1, <3>2, <3>3
  <2>. QED BY <1>1, <1>5, <2>1, <2>2, <2>3
<1>13. Chain(t, first, ny, last)
  BY <1>1, <1>4, <1>11, <1>12 DEF Chain
<1>14. s[k] \in NodesOf(s) /\ s[k + 1] \in NodesOf(s)
  BY <1>1, <1>6 DEF NodesOf
<1>. QED BY <1>13, <1>14 DEF t, ny

-----------------------------------------------------------------------------
(* The items in a chain                                                    *)

Data == Items \cup {None}

ItemsOf(s, d) == [i \in DOMAIN s |-> d[s[i]]]

LEMMA ItemsAre ==
  ASSUME NEW s \in Seq(Addresses), NEW d \in [Addresses -> Data]
  PROVE  /\ ItemsOf(s, d) \in Seq(Data) /\ Len(ItemsOf(s, d)) = Len(s) /\ DOMAIN s = 1..Len(s)
         /\ \A i \in 1..Len(s) : ItemsOf(s, d)[i] = d[s[i]] /\ s[i] \in NodesOf(s) /\ s[i] \in Addresses
<1> DEFINE v == ItemsOf(s, d)
           l == Len(s)
<1>1. l \in Nat /\ DOMAIN s = 1..l /\ \A i \in 1..l : s[i] \in Addresses
  BY LenProperties, ElementOfSeq
<1>2. v \in [1..l -> Data] /\ \A i \in 1..l : v[i] = d[s[i]]
  BY <1>1 DEF ItemsOf
<1> HIDE DEF v, l
<1>3. v \in Seq(Data)
  BY <1>1, <1>2, SeqDef
<1>4. DOMAIN v = 1..l /\ Len(v) = l
  BY <1>1, <1>2, <1>3, LenProperties
<1>. QED BY <1>1, <1>2, <1>3, <1>4 DEF v, l, NodesOf

(* Two sequences of one length with the same items are one. *)
LEMMA SameItems ==
  ASSUME NEW s \in Seq(Addresses), NEW d \in [Addresses -> Data], NEW w \in Seq(Data),
         Len(w) = Len(s), \A i \in 1..Len(s) : w[i] = d[s[i]]
  PROVE  ItemsOf(s, d) = w
<1>1. /\ ItemsOf(s, d) \in Seq(Data) /\ Len(ItemsOf(s, d)) = Len(s)
      /\ \A i \in 1..Len(s) : ItemsOf(s, d)[i] = d[s[i]]
  BY ItemsAre
<1>2. \A i \in 1..Len(ItemsOf(s, d)) : ItemsOf(s, d)[i] = w[i]
  BY <1>1
<1>. QED BY <1>1, <1>2, SeqEqual

LEMMA ItemsKept ==
  ASSUME NEW s \in Seq(Addresses), NEW d \in [Addresses -> Data], NEW e \in [Addresses -> Data],
         \A a \in NodesOf(s) : e[a] = d[a]
  PROVE  ItemsOf(s, e) = ItemsOf(s, d)
<1>1. \A i \in 1..Len(s) : s[i] \in NodesOf(s)
  BY ItemsAre
<1>. QED BY <1>1, ItemsAre DEF ItemsOf

(* A new node with the item x, at the end or in front *)
LEMMA ItemsGrow ==
  ASSUME NEW s \in Seq(Addresses), NEW d \in [Addresses -> Data],
         NEW n \in Addresses, NEW x \in Data,
         NEW e \in [Addresses -> Data], e[n] = x, \A a \in NodesOf(s) : e[a] = d[a]
  PROVE  ItemsOf(Append(s, n), e) = Append(ItemsOf(s, d), x)
<1> DEFINE v == ItemsOf(s, d)
           l == Len(s)
<1>1. l \in Nat
  BY LenProperties
<1>2. /\ v \in Seq(Data) /\ Len(v) = l
      /\ \A i \in 1..l : v[i] = d[s[i]] /\ s[i] \in NodesOf(s) /\ s[i] \in Addresses
  BY ItemsAre
<1> HIDE DEF v, l
<1>3. ItemsOf(Append(s, n), e) = Append(v, x)
  <2>1. Append(s, n) \in Seq(Addresses) /\ Len(Append(s, n)) = l + 1
    BY AppendProperties DEF l
  <2>2. Append(v, x) \in Seq(Data) /\ Len(Append(v, x)) = l + 1
    BY <1>2, AppendProperties
  <2>3. \A i \in 1..(l + 1) : Append(v, x)[i] = e[Append(s, n)[i]]
    <3> TAKE i \in 1..(l + 1)
    <3>1. CASE i = l + 1
      <4>1. Append(v, x)[i] = x /\ Append(s, n)[i] = n
        BY <1>2, <3>1, AppendProperties DEF l
      <4>. QED BY <1>1, <4>1
    <3>2. CASE i # l + 1
      <4>1. i \in 1..l
        BY <1>1, <3>2
      <4>2. Append(v, x)[i] = v[i] /\ Append(s, n)[i] = s[i]
        BY <1>2, <4>1, AppendProperties DEF l
      <4>. QED BY <1>1, <1>2, <4>1, <4>2
    <3>. QED BY <3>1, <3>2
  <2> DEFINE t == Append(s, n)
             w == Append(v, x)
  <2>4. t \in Seq(Addresses) /\ w \in Seq(Data) /\ Len(w) = Len(t) /\ \A i \in 1..Len(t) : w[i] = e[t[i]]
    BY <2>1, <2>2, <2>3
  <2> HIDE DEF t, w
  <2>5. ItemsOf(t, e) = w
    BY <2>4, SameItems
  <2>. QED BY <2>5 DEF t, w
<1>. QED BY <1>3 DEF v

LEMMA AnyItemsGrow ==
  \A w \in Seq(Addresses), m \in Addresses, d, e \in [Addresses -> Data], y \in Data :
    e[m] = y /\ (\A a \in NodesOf(w) : e[a] = d[a])
      => ItemsOf(Append(w, m), e) = Append(ItemsOf(w, d), y)
BY ItemsGrow

OnTop(x, s) == <<x>> \o s

LEMMA ItemsPushed ==
  ASSUME NEW s \in Seq(Addresses), NEW d \in [Addresses -> Data],
         NEW n \in Addresses, NEW x \in Data,
         NEW e \in [Addresses -> Data], e[n] = x, \A a \in NodesOf(s) : e[a] = d[a]
  PROVE  ItemsOf(OnTop(n, s), e) = OnTop(x, ItemsOf(s, d))
<1> DEFINE v == ItemsOf(s, d)
           l == Len(s)
<1>1. l \in Nat
  BY LenProperties
<1>2. /\ v \in Seq(Data) /\ Len(v) = l
      /\ \A i \in 1..l : v[i] = d[s[i]] /\ s[i] \in NodesOf(s) /\ s[i] \in Addresses
  BY ItemsAre
<1> HIDE DEF v, l
<1>3. ItemsOf(<<n>> \o s, e) = <<x>> \o v
  <2>1. <<n>> \in Seq(Addresses) /\ Len(<<n>>) = 1 /\ <<n>>[1] = n /\ <<x>> \in Seq(Data) /\ Len(<<x>>) = 1 /\ <<x>>[1] = x
    OBVIOUS
  <2>2. /\ <<n>> \o s \in Seq(Addresses) /\ Len(<<n>> \o s) = 1 + l
        /\ \A i \in 1..(1 + l) : (<<n>> \o s)[i] = IF i <= 1 THEN <<n>>[i] ELSE s[i - 1]
    BY <2>1, ConcatProperties DEF l
  <2>3. /\ <<x>> \o v \in Seq(Data) /\ Len(<<x>> \o v) = 1 + l
        /\ \A i \in 1..(1 + l) : (<<x>> \o v)[i] = IF i <= 1 THEN <<x>>[i] ELSE v[i - 1]
    BY <1>2, <2>1, ConcatProperties
  <2>4. \A i \in 1..(1 + l) : (<<x>> \o v)[i] = e[(<<n>> \o s)[i]]
    <3> TAKE i \in 1..(1 + l)
    <3>1. CASE i = 1
      <4>1. i <= 1
        BY <3>1
      <4>2. (<<x>> \o v)[i] = x /\ (<<n>> \o s)[i] = n
        BY <2>1, <2>2, <2>3, <3>1, <4>1
      <4>. QED BY <1>1, <4>2
    <3>2. CASE i # 1
      <4>1. i - 1 \in 1..l /\ ~(i <= 1)
        BY <1>1, <3>2
      <4>2. (<<x>> \o v)[i] = v[i - 1] /\ (<<n>> \o s)[i] = s[i - 1]
        BY <2>2, <2>3, <4>1
      <4>. QED BY <1>1, <1>2, <4>1, <4>2
    <3>. QED BY <3>1, <3>2
  <2> DEFINE t == <<n>> \o s
             w == <<x>> \o v
  <2>5. t \in Seq(Addresses) /\ w \in Seq(Data) /\ Len(w) = Len(t) /\ \A i \in 1..Len(t) : w[i] = e[t[i]]
    BY <2>2, <2>3, <2>4
  <2> HIDE DEF t, w
  <2>6. ItemsOf(t, e) = w
    BY <1>1, <2>5, SameItems
  <2>. QED BY <2>6 DEF t, w
<1>. QED BY <1>3 DEF v, OnTop

LEMMA ItemsLeft ==
  ASSUME NEW s \in Seq(Addresses), NEW d \in [Addresses -> Data], NEW k \in 0..(Len(s) - 1)
  PROVE  ItemsOf(Skipping(s, k), d) = Skipping(ItemsOf(s, d), k)
<1> DEFINE v == ItemsOf(s, d)
           l == Len(s)
<1>1. l \in Nat
  BY LenProperties
<1>2. /\ v \in Seq(Data) /\ Len(v) = l
      /\ \A i \in 1..l : v[i] = d[s[i]]
  BY ItemsAre
<1>3. /\ Skipping(s, k) \in Seq(Addresses) /\ Len(Skipping(s, k)) = l - 1
      /\ \A i \in 1..(l - 1) : Skipping(s, k)[i] = IF i <= k THEN s[i] ELSE s[i + 1]
  BY WithoutIs
<1>4. k \in 0..(Len(v) - 1)
  BY <1>2
<1> HIDE DEF v, l
<1>5. /\ Skipping(v, k) \in Seq(Data) /\ Len(Skipping(v, k)) = l - 1
      /\ \A i \in 1..(l - 1) : Skipping(v, k)[i] = IF i <= k THEN v[i] ELSE v[i + 1]
  BY <1>2, <1>4, WithoutIs
<1>6. \A i \in 1..(l - 1) : i \in 1..l /\ i + 1 \in 1..l
  BY <1>1
<1>7. \A i \in 1..(l - 1) : Skipping(v, k)[i] = d[Skipping(s, k)[i]]
  BY <1>2, <1>3, <1>5, <1>6
<1>. QED BY <1>3, <1>5, <1>7, SameItems DEF v

-----------------------------------------------------------------------------
(* Two chains, and memory                                                  *)

(* The list's chain s ends in a field nobody wrote, which may hold anything, the address of one *)
(* of the stack's nodes or its own included; the stack's chain t never does.                    *)
TwoChains(s, t, last) ==
  /\ Chain(s, listHead, next, last) /\ listSize = Len(s)
  /\ Chain(t, stackHead, next, Null) /\ stackSize = Len(t)
  /\ NodesOf(s) \cap NodesOf(t) = {} /\ live = NodesOf(s) \cup NodesOf(t)

Memory == data \in [Addresses -> Data] /\ next \in [Addresses -> Pointers]
Sound == Memory /\ \E s, t, last : TwoChains(s, t, last)

(* The inductive invariant: as long as no walk went past the list, there are two chains. *)
HeapInv == walk = "sound" => Sound

ListView == [i \in DOMAIN List!Nodes |-> data[List!Nodes[i]]]
StackView == [i \in DOMAIN Errors!Nodes |-> data[Errors!Nodes[i]]]

LEMMA Reads ==
  ASSUME NEW s, NEW first, NEW nx \in [Addresses -> Pointers], NEW last, Chain(s, first, nx, last)
  PROVE  /\ [i \in 1..Len(s) |-> List!Hops(first, nx)[i - 1]] = s
         /\ last \notin Addresses => Errors!NodesFrom(first, nx) = s
         /\ first \in Pointers /\ s \in Seq(Addresses)
<1>1. last \in Pointers /\ s \in Seq(Addresses)
  BY DEF Chain
<1>2. first \in Pointers
  BY <1>1, ChainFacts DEF Pointers
<1>3. /\ [i \in 1..Len(s) |-> Hops(first, nx)[i - 1]] = s
      /\ last \notin Addresses => NodesFrom(first, nx) = s
  BY <1>2, NodesOfChain, WalkBeginsWithChain
<1>4. \A S : List!Cardinality(S) = Cardinality(S) /\ Errors!Cardinality(S) = Cardinality(S)
  BY DEF Cardinality, List!Cardinality, Errors!Cardinality
<1>5. List!Hops(first, nx) = Hops(first, nx) /\ Errors!Hops(first, nx) = Hops(first, nx)
  <2> DEFINE HopsTo(K) == LET hop[i \in 0..K] ==
                                IF i = 0 THEN first
                                ELSE IF hop[i - 1] \in Addresses THEN nx[hop[i - 1]] ELSE hop[i - 1]
                          IN hop
             N == Cardinality(Addresses)
             L == List!Cardinality(Addresses)
             E == Errors!Cardinality(Addresses)
  <2>1. /\ Hops(first, nx) = HopsTo(N)
        /\ List!Hops(first, nx) = HopsTo(L)
        /\ Errors!Hops(first, nx) = HopsTo(E)
    BY Zenon DEF Hops, List!Hops, Errors!Hops
  <2>2. L = N /\ E = N
    BY <1>4
  <2> HIDE DEF HopsTo, N, L, E
  <2>. QED BY <2>1, <2>2
<1>6. Errors!NodesFrom(first, nx) = NodesFrom(first, nx)
  BY <1>4, <1>5 DEF NodesFrom, Errors!NodesFrom
<1>. QED BY <1>1, <1>2, <1>3, <1>5, <1>6

(* What the walks read of it now, and after a step that left two chains *)
LEMMA Views ==
  ASSUME Memory, NEW s, NEW t, NEW last, TwoChains(s, t, last)
  PROVE  /\ List!Nodes = s /\ Errors!Nodes = t
         /\ ListView = ItemsOf(s, data) /\ StackView = ItemsOf(t, data)
         /\ s \in Seq(Addresses) /\ t \in Seq(Addresses)
<1>0. /\ Chain(s, listHead, next, last) /\ Chain(t, stackHead, next, Null) /\ listSize = Len(s)
      /\ next \in [Addresses -> Pointers] /\ Null \notin Addresses
  BY AddressesAreNodes DEF Memory, TwoChains
<1>2. [i \in 1..Len(s) |-> List!Hops(listHead, next)[i - 1]] = s
  BY <1>0, Reads
<1>3. Errors!NodesFrom(stackHead, next) = t
  BY <1>0, Reads
<1>1. List!Nodes = s /\ Errors!Nodes = t
  BY <1>0, <1>2, <1>3 DEF List!Nodes, Errors!Nodes
<1>. QED BY <1>1, Reads DEF Memory, TwoChains, ListView, StackView, ItemsOf

LEMMA ViewsNext ==
  ASSUME Memory', NEW s, NEW t, NEW last, TwoChains(s, t, last)'
  PROVE  /\ Sound'
         /\ List!Nodes' = s /\ Errors!Nodes' = t
         /\ ListView' = ItemsOf(s, data') /\ StackView' = ItemsOf(t, data')
<1>1. Chain(s, listHead', next', last) /\ Chain(t, stackHead', next', Null) /\ next' \in [Addresses -> Pointers]
  BY DEF Memory, TwoChains
<1>2. [i \in 1..Len(s) |-> List!Hops(listHead', next')[i - 1]] = s
      /\ Errors!NodesFrom(stackHead', next') = t /\ listSize' = Len(s)
  <2>1. [i \in 1..Len(s) |-> List!Hops(listHead', next')[i - 1]] = s
    BY <1>1, Reads
  <2>2. Errors!NodesFrom(stackHead', next') = t
    BY <1>1, Reads, AddressesAreNodes
  <2>. QED BY <2>1, <2>2 DEF TwoChains
<1>3. List!Nodes' = s /\ Errors!Nodes' = t
  BY <1>2 DEF List!Nodes, Errors!Nodes, List!Hops, Errors!NodesFrom, Errors!Hops
<1>4. Sound'
  BY DEF Sound
<1>. QED BY <1>3, <1>4 DEF ListView, StackView, ItemsOf

LEMMA HeapInitially == HeapInit => Sound /\ ListView = <<>> /\ StackView = <<>>
<1> SUFFICES ASSUME HeapInit PROVE Sound /\ ListView = <<>> /\ StackView = <<>>
  OBVIOUS
<1>1. Memory
  BY DEF HeapInit, List!Init, Memory, Data, Pointers
<1>2. TwoChains(<<>>, <<>>, Null)
  BY EmptyChain, EmptySeq DEF HeapInit, List!Init, Errors!Init, TwoChains
<1>3. ItemsOf(<<>>, data) = <<>>
  BY EmptySeq DEF ItemsOf
<1>. QED BY <1>1, <1>2, <1>3, Views DEF Sound

(* A step that writes no memory *)
LEMMA NothingWritten ==
  ASSUME Sound, UNCHANGED <<listHead, listSize, stackHead, stackSize, data, next, live>>
  PROVE  Sound' /\ ListView' = ListView /\ StackView' = StackView
<1>1. PICK s, t, last : TwoChains(s, t, last)
  BY DEF Sound
<1>2. Memory /\ Memory' /\ TwoChains(s, t, last)'
  BY <1>1 DEF Sound, Memory, TwoChains
<1>. QED BY <1>1, <1>2, Views, ViewsNext

-----------------------------------------------------------------------------
(* The list's calls                                                        *)

ListHeld == [List!Held!Next]_<<ListView, listAsked, listResult>>
StackHeld == [Errors!Held!Next]_<<StackView, stackAsked, stackResult>>

(* A list_add that meets the list and nothing else gives the new node to its end, and to nobody *)
(* else: what the last node's next held was Null.                                               *)
LEMMA ListAddHolds ==
  ASSUME Sound, UNCHANGED stack, NEW x \in Items, List!ListAdd(x), walk' = "sound"
  PROVE  Sound' /\ StackView' = StackView /\ List!Held!InsertLast(x)
<1>1. PICK s, t, last : TwoChains(s, t, last)
  BY DEF Sound
<1>2. /\ Memory /\ List!Nodes = s
      /\ ListView = ItemsOf(s, data) /\ StackView = ItemsOf(t, data)
      /\ s \in Seq(Addresses) /\ t \in Seq(Addresses)
  BY <1>1, Views DEF Sound
<1>3. PICK n \in Addresses \ live : \E memory \in List!Fresh(n) :
        /\ List!EndOf(listHead, memory) = Null
        /\ live' = live \cup {n}
        /\ data' = [data EXCEPT ![n] = x]
        /\ \/ listHead = Null /\ listHead' = n /\ next' = memory
           \/ listHead # Null /\ next' = [memory EXCEPT ![List!Last(List!NodesFrom(listHead, memory))] = n]
              /\ UNCHANGED listHead
        /\ List!Walked(List!NodesFrom(listHead, memory))
  BY Zenon DEF List!ListAdd
<1>4. PICK leftover \in {Null, Wild, next[n]} :
        LET memory == [next EXCEPT ![n] = leftover]
        IN /\ List!EndOf(listHead, memory) = Null
           /\ live' = live \cup {n}
           /\ data' = [data EXCEPT ![n] = x]
           /\ \/ listHead = Null /\ listHead' = n /\ next' = memory
              \/ listHead # Null /\ next' = [memory EXCEPT ![List!Last(List!NodesFrom(listHead, memory))] = n]
                 /\ UNCHANGED listHead
           /\ List!Walked(List!NodesFrom(listHead, memory))
  BY <1>3, Zenon DEF List!Fresh
<1> DEFINE memory == [next EXCEPT ![n] = leftover]
<1>5. /\ List!EndOf(listHead, memory) = Null
      /\ live' = live \cup {n}
      /\ data' = [data EXCEPT ![n] = x]
      /\ \/ listHead = Null /\ listHead' = n /\ next' = memory
         \/ listHead # Null /\ next' = [memory EXCEPT ![List!Last(List!NodesFrom(listHead, memory))] = n]
            /\ UNCHANGED listHead
      /\ List!NodesFrom(listHead, memory) = s
  BY <1>2, <1>4 DEF List!Walked
<1>6. n \in Addresses /\ n \notin NodesOf(s) /\ n \notin NodesOf(t)
  BY <1>1, <1>3 DEF TwoChains
<1>0. next \in [Addresses -> Pointers] /\ data \in [Addresses -> Data] /\ x \in Data
      /\ n \in Pointers /\ leftover \in Pointers
  BY <1>2, <1>4, <1>6 DEF Memory, Data, Pointers
<1> DEFINE s2 == Append(s, n)
<1>21. /\ Chain(s, listHead, next, last) /\ listSize = Len(s)
       /\ s = <<>> <=> Len(s) = 0
       /\ s = <<>> => listHead = last
       /\ s # <<>> => listHead \in Addresses
       /\ Len(s) \in Nat /\ DOMAIN s = 1..Len(s)
  BY <1>1, ChainFacts DEF TwoChains
<1>7. /\ s = <<>> <=> listHead = Null
      /\ s # <<>> => Last(s) \in NodesOf(s) /\ next[Last(s)] = last
      /\ last = Null
  <2>1. List!EndOf(listHead, memory) = IF s = <<>> THEN listHead ELSE memory[List!Last(s)]
    BY <1>5 DEF List!EndOf
  <2>2. CASE s = <<>>
    BY <1>5, <1>21, <2>1, <2>2
  <2>3. CASE s # <<>>
    <3> DEFINE l == Len(s)
    <3>1. l \in 1..l /\ ~(l + 1 <= l)
      <4> HIDE DEF l
      <4>1. l \in Nat /\ l # 0
        BY <1>21, <2>3 DEF l
      <4>. QED BY <4>1
    <3>2. Last(s) = s[l] /\ List!Last(s) = s[l] /\ s[l] \in NodesOf(s)
      BY <1>21, <3>1 DEF Last, List!Last, NodesOf
    <3>3. next[s[l]] = last
      BY <1>21, <3>1 DEF Chain, Stop
    <3>4. s[l] \in Addresses /\ s[l] # n
      BY <1>6, <1>21, <3>2, ChainFacts
    <3>5. memory[s[l]] = last
      BY <1>0, <3>3, <3>4
    <3>6. last = Null
      BY <1>5, <2>1, <2>3, <3>2, <3>5
    <3>. QED BY <1>21, <2>3, <3>2, <3>3, <3>6, AddressesAreNodes
  <2>. QED BY <2>2, <2>3
<1>8. List!Last(List!NodesFrom(listHead, memory)) = Last(s)
  BY <1>5 DEF List!Last, Last
<1>9. /\ NodesOf(t) \subseteq Addresses /\ NodesOf(t) \cap NodesOf(s) = {}
      /\ NodesOf(s) \subseteq Addresses
  BY <1>1, ChainFacts DEF TwoChains
<1>10. /\ next' \in [Addresses -> Pointers] /\ next'[n] = leftover
       /\ s # <<>> => next'[Last(s)] = n
       /\ \A a \in NodesOf(s) : a # Last(s) => next'[a] = next[a]
       /\ \A a \in NodesOf(t) : next'[a] = next[a]
  <2>2. CASE s = <<>>
    <3>1. next' = [next EXCEPT ![n] = leftover]
      BY <1>5, <1>7, <2>2
    <3>. QED BY <1>0, <1>6, <1>9, <2>2, <3>1
  <2>3. CASE s # <<>>
    <3> DEFINE a == Last(s)
               m == memory
    <3>1. next' = [m EXCEPT ![a] = n] /\ a \in NodesOf(s)
      BY <1>5, <1>7, <1>8, <2>3
    <3>2. m \in [Addresses -> Pointers] /\ m[n] = leftover /\ \A b \in Addresses : b # n => m[b] = next[b]
      BY <1>0, <1>6
    <3> HIDE DEF a, m
    <3>3. next' \in [Addresses -> Pointers] /\ next'[a] = n
          /\ \A b \in Addresses : b # a => next'[b] = m[b]
      BY <1>0, <1>9, <3>1, <3>2
    <3>. QED BY <1>6, <1>9, <3>1, <3>2, <3>3 DEF a
  <2>. QED BY <2>2, <2>3
<1>11. /\ NodesOf(s2) = NodesOf(s) \cup {n}
       /\ Chain(s2, listHead', next', leftover)
  <2>1. /\ NodesOf(s2) = NodesOf(s) \cup {n}
        /\ s = <<>> => Chain(s2, n, next', leftover)
        /\ s # <<>> => Chain(s2, listHead, next', leftover)
    BY <1>0, <1>6, <1>7, <1>10, <1>21, ChainGrows
  <2>. QED BY <1>5, <1>7, <2>1
<1>12. x \in Data /\ data' \in [Addresses -> Data]
  BY <1>2, <1>5 DEF Memory, Data
<1>13. Chain(t, stackHead, next', Null)
  BY <1>1, <1>10, ChainKept DEF TwoChains
<1>14. Len(s2) = Len(s) + 1
  BY <1>2, <1>6, AppendProperties
<1> HIDE DEF s2
<1>15. TwoChains(s2, t, leftover)'
  <2>1. listSize' = Len(s2) /\ UNCHANGED <<stackHead, stackSize>>
    BY <1>14, <1>21 DEF List!ListAdd, stack
  <2>2. NodesOf(s2) \cap NodesOf(t) = {} /\ live' = NodesOf(s2) \cup NodesOf(t)
    BY <1>1, <1>5, <1>6, <1>11 DEF TwoChains
  <2>. QED BY <1>1, <1>11, <1>13, <2>1, <2>2 DEF TwoChains
<1>16. Sound' /\ ListView' = ItemsOf(s2, data') /\ StackView' = ItemsOf(t, data')
  BY <1>10, <1>12, <1>15, ViewsNext DEF Memory
<1>17. data'[n] = x /\ \A a \in NodesOf(s) \cup NodesOf(t) : data'[a] = data[a]
  BY <1>0, <1>5, <1>6, <1>9
<1>18. ItemsOf(s2, data') = Append(ItemsOf(s, data), x) /\ ItemsOf(t, data') = ItemsOf(t, data)
  <2>1. \A a \in NodesOf(s) : data'[a] = data[a]
    BY <1>17
  <2>2. ItemsOf(Append(s, n), data') = Append(ItemsOf(s, data), x)
    <3>1. s \in Seq(Addresses) /\ n \in Addresses /\ data'[n] = x
      BY <1>2, <1>6, <1>17
    <3>2. ItemsOf(Append(s, n), data') = Append(ItemsOf(s, data), x)
      BY <1>0, <1>12, <2>1, <3>1, AnyItemsGrow
    <3>. QED BY <3>2
  <2>3. \A a \in NodesOf(t) : data'[a] = data[a]
    BY <1>17
  <2>4. ItemsOf(t, data') = ItemsOf(t, data)
    BY <1>0, <1>2, <1>12, <2>3, ItemsKept
  <2>. QED BY <2>2, <2>4 DEF s2
<1>19. ListView' = Append(ListView, x)
  BY <1>2, <1>16, <1>18
<1>20. List!Held!InsertLast(x)
  BY <1>19 DEF ListView, List!ListAdd, List!Held!InsertLast
<1>. QED BY <1>2, <1>16, <1>18, <1>20

(* list_delete frees the node it unlinks, and the nodes before and behind it are the list. *)
LEMMA ListDeleteHolds ==
  ASSUME Sound, UNCHANGED stack, NEW k \in Nat, List!ListDelete(k)
  PROVE  Sound' /\ StackView' = StackView /\ \E i \in List!Held!Indexes : List!Held!Delete(i)
<1>1. PICK s, t, last : TwoChains(s, t, last)
  BY DEF Sound
<1>2. /\ Memory /\ List!Nodes = s
      /\ ListView = ItemsOf(s, data) /\ StackView = ItemsOf(t, data)
      /\ s \in Seq(Addresses) /\ t \in Seq(Addresses)
  BY <1>1, Views DEF Sound
<1>3. Chain(s, listHead, next, last) /\ listSize = Len(s) /\ Len(s) \in Nat
  BY <1>1, <1>2, LenProperties DEF TwoChains
<1>4. /\ k < Len(s) /\ List!Unlink(k)
      /\ live' = live \ {s[k + 1]} /\ listSize' = Len(s) - 1
      /\ listAsked' = k /\ listResult' = "yes" /\ UNCHANGED data
  BY <1>2, <1>3 DEF List!ListDelete
<1>5. k \in 0..(Len(s) - 1)
  BY <1>3, <1>4
<1> DEFINE s2 == Skipping(s, k)
<1>6. NodesOf(s2) = NodesOf(s) \ {s[k + 1]} /\ Len(s2) = Len(s) - 1
  BY <1>2, <1>3, <1>5, NodesLeft, WithoutIs
<1>7. /\ NodesOf(s) \subseteq Addresses /\ NodesOf(t) \subseteq Addresses
      /\ NodesOf(s) \cap NodesOf(t) = {} /\ live = NodesOf(s) \cup NodesOf(t)
      /\ s = <<>> <=> Len(s) = 0
      /\ DOMAIN s = 1..Len(s)
  BY <1>1, ChainFacts DEF TwoChains
<1>8. s[k + 1] \in NodesOf(s)
  <2>1. k + 1 \in 1..Len(s)
    BY <1>3, <1>5
  <2>. QED BY <1>7, <2>1 DEF NodesOf
<1>9. /\ Chain(s2, listHead', next', last)
      /\ next' \in [Addresses -> Pointers] /\ \A a \in NodesOf(t) : next'[a] = next[a]
  <2>1. CASE k = 0
    <3>1. listHead' = next[listHead] /\ UNCHANGED next
      BY <1>4, <2>1 DEF List!Unlink
    <3>2. s # <<>>
      BY <1>3, <1>4, <1>7, <2>1
    <3>3. Chain(s2, next[listHead], next, last)
      BY <1>3, <2>1, <3>2, HeadUnlinked
    <3>. QED BY <1>2, <3>1, <3>3 DEF Memory
  <2>2. CASE k # 0
    <3>1. /\ next' = [next EXCEPT ![s[k]] = next[s[k + 1]]]
          /\ UNCHANGED listHead
      BY <1>2, <1>4, <2>2 DEF List!Unlink
    <3>2. k \in 1..(Len(s) - 1)
      BY <1>3, <1>5, <2>2
    <3>3. /\ s[k] \in NodesOf(s)
          /\ Chain(s2, listHead, [next EXCEPT ![s[k]] = next[s[k + 1]]], last)
      BY <1>2, <1>3, <3>2, LaterUnlinked DEF Memory
    <3> DEFINE a == s[k]
               b == s[k + 1]
    <3>4. a \in Addresses /\ a \notin NodesOf(t) /\ b \in Addresses
      BY <1>7, <1>8, <3>3
    <3>5. Chain(s2, listHead', next', last)
      BY <3>1, <3>3
    <3> HIDE DEF a, b, s2
    <3>6. next' = [next EXCEPT ![a] = next[b]]
      BY <3>1 DEF a, b
    <3>. QED BY <1>2, <1>7, <3>4, <3>5, <3>6 DEF Memory
  <2>. QED BY <2>1, <2>2
<1>10. Chain(t, stackHead, next', Null)
  BY <1>1, <1>9, ChainKept DEF TwoChains
<1> HIDE DEF s2
<1>11. TwoChains(s2, t, last)'
  <2>1. listSize' = Len(s2) /\ UNCHANGED <<stackHead, stackSize>>
    BY <1>4, <1>6 DEF stack
  <2>2. NodesOf(s2) \cap NodesOf(t) = {} /\ live' = NodesOf(s2) \cup NodesOf(t)
    BY <1>4, <1>6, <1>7, <1>8
  <2>. QED BY <1>1, <1>9, <1>10, <2>1, <2>2 DEF TwoChains
<1>12. Memory'
  BY <1>2, <1>4, <1>9 DEF Memory
<1>13. Sound' /\ ListView' = ItemsOf(s2, data') /\ StackView' = ItemsOf(t, data')
  BY <1>11, <1>12, ViewsNext
<1>14. ItemsOf(s2, data) = Skipping(ItemsOf(s, data), k) /\ Len(ItemsOf(s, data)) = Len(s)
  BY <1>2, <1>5, ItemsLeft, ItemsAre DEF Memory, s2
<1>15. ListView' = Skipping(ListView, k) /\ Len(ListView) = Len(s)
  BY <1>2, <1>4, <1>13, <1>14
<1>16. k \in List!Held!Indexes
  BY <1>5, <1>15 DEF List!Held!Indexes, ListView
<1>17. Skipping(ListView, k) = List!Held!RemoveAt(ListView, k + 1)
  <2> DEFINE i == k + 1
  <2>1. i - 1 = k /\ i + 1 = k + 2
    OBVIOUS
  <2> HIDE DEF i
  <2>2. List!Held!RemoveAt(ListView, i) = SubSeq(ListView, 1, i - 1) \o SubSeq(ListView, i + 1, Len(ListView))
    BY Zenon DEF List!Held!RemoveAt
  <2>3. List!Held!RemoveAt(ListView, i) = Skipping(ListView, k)
    BY ONLY <2>1, <2>2, Zenon DEF Skipping
  <2>. QED BY <2>3 DEF i
<1>18. List!Held!Delete(k)
  BY <1>4, <1>15, <1>17, Zenon DEF List!Held!Delete, ListView
<1>. QED BY <1>2, <1>4, <1>13, <1>16, <1>18

(* A list_free that meets the list and nothing else gives back its nodes and no other. *)
LEMMA ListFreeHolds ==
  ASSUME Sound, UNCHANGED stack, List!ListFree, walk' = "sound"
  PROVE  Sound' /\ StackView' = StackView /\ List!Held!Clear
<1>1. PICK s, t, last : TwoChains(s, t, last)
  BY DEF Sound
<1>2. /\ Memory /\ List!Nodes = s /\ StackView = ItemsOf(t, data)
  BY <1>1, Views DEF Sound
<1>3. /\ listHead' = Null /\ listSize' = 0 /\ UNCHANGED <<data, next, stackHead, stackSize>>
      /\ live' = live \ NodesOf(s) /\ listAsked' = -1 /\ listResult' = None
  BY <1>2 DEF List!ListFree, List!Walked, List!NodesOf, stack, NodesOf
<1>4. TwoChains(<<>>, t, Null)'
  <2>1. Chain(<<>>, Null, next', Null) /\ NodesOf(<<>>) = {} /\ Len(<<>>) = 0
    BY EmptyChain, EmptySeq
  <2>2. Chain(t, stackHead', next', Null) /\ stackSize' = Len(t)
    BY <1>1, <1>3 DEF TwoChains
  <2>3. live' = NodesOf(t)
    BY <1>1, <1>3 DEF TwoChains
  <2>. QED BY <1>3, <2>1, <2>2, <2>3 DEF TwoChains
<1>5. Memory'
  BY <1>2, <1>3 DEF Memory
<1>6. Sound' /\ ListView' = ItemsOf(<<>>, data') /\ StackView' = ItemsOf(t, data')
  BY <1>4, <1>5, ViewsNext
<1>7. ListView' = <<>>
  BY <1>6, EmptySeq DEF ItemsOf
<1>. QED BY <1>2, <1>3, <1>6, <1>7 DEF List!Held!Clear, ListView

LEMMA ListGetHolds ==
  ASSUME Sound, UNCHANGED stack, NEW k \in Nat, List!ListGet(k)
  PROVE  Sound' /\ StackView' = StackView /\ List!Held!Next
<1>1. PICK s, t, last : TwoChains(s, t, last)
  BY DEF Sound
<1>2. /\ Memory /\ List!Nodes = s /\ ListView = ItemsOf(s, data) /\ s \in Seq(Addresses)
  BY <1>1, Views DEF Sound
<1>3. listSize = Len(s) /\ Len(s) \in Nat
  BY <1>1, <1>2, LenProperties DEF TwoChains
<1>4. Sound' /\ ListView' = ListView /\ StackView' = StackView
  BY NothingWritten DEF List!ListGet, stack
<1>5. /\ Len(ListView) = Len(s)
      /\ \A i \in 1..Len(s) : ListView[i] = data[s[i]]
  BY <1>2, ItemsAre DEF Memory
<1>6. List!Held!Indexes = 0..(Len(s) - 1)
  BY <1>5 DEF List!Held!Indexes, ListView
<1>7. CASE k < Len(s)
  <2>1. k + 1 \in 1..Len(s) /\ k \in List!Held!Indexes
    BY <1>3, <1>6, <1>7
  <2>2. listResult' = data[s[k + 1]] /\ listAsked' = k
    BY <1>2, <1>3, <1>7 DEF List!ListGet
  <2>3. listResult' = ListView[k + 1]
    BY <1>5, <2>1, <2>2
  <2>4. List!Held!Get(k)
    BY <1>4, <2>2, <2>3, Zenon DEF List!Held!Get, ListView
  <2>. QED BY <1>4, <2>1, <2>4 DEF List!Held!Next
<1>8. CASE ~(k < Len(s))
  <2>1. k >= listSize
    BY <1>3, <1>8
  <2>2. listAsked' = k /\ listResult' = None /\ k \notin List!Held!Indexes
    BY <1>3, <1>6, <1>8, <2>1 DEF List!ListGet
  <2>3. List!Held!Missing
    BY <1>4, <2>2, Zenon DEF List!Held!Missing, ListView
  <2>. QED BY <1>4, <2>3 DEF List!Held!Next
<1>. QED BY <1>7, <1>8

(* Whatever the list does, as long as it walks its own nodes, the two keep theirs, and the list *)
(* is its sequence.                                                                             *)
LEMMA ListStep ==
  ASSUME Sound, List!Next, UNCHANGED stack, walk' # "strayed"
  PROVE  (walk' = "sound" => Sound') /\ ListHeld /\ StackView' = StackView
<1>0. ASSUME NEW met, List!Walked(met) PROVE walk' = "sound"
  BY <1>0 DEF List!Walked, List!Next
<1>1. ASSUME NEW x \in Items, List!ListAdd(x) PROVE Sound' /\ ListHeld /\ StackView' = StackView
  <2>1. walk' = "sound"
    BY <1>0, <1>1, Zenon DEF List!ListAdd
  <2>. QED BY <1>1, <2>1, ListAddHolds DEF ListHeld, List!Held!Next
<1>2. CASE List!ListAddFails
  <2>1. Sound' /\ ListView' = ListView /\ StackView' = StackView
    BY <1>2, NothingWritten DEF List!ListAddFails, stack
  <2>2. List!Held!Refuse
    BY <1>2, <2>1 DEF List!ListAddFails, List!Held!Refuse, ListView
  <2>. QED BY <2>1, <2>2 DEF ListHeld, List!Held!Next
<1>3. CASE List!ListAddCrashes \/ List!ListFreeCrashes
  <2>1. Sound' /\ ListView' = ListView /\ StackView' = StackView
    BY <1>3, NothingWritten DEF List!ListAddCrashes, List!ListFreeCrashes, stack
  <2>. QED BY <1>3, <2>1 DEF List!ListAddCrashes, List!ListFreeCrashes, ListHeld
<1>4. ASSUME NEW k \in Nat, List!ListGet(k)
      PROVE  Sound' /\ ListHeld /\ StackView' = StackView
  BY <1>4, ListGetHolds DEF ListHeld
<1>5. ASSUME NEW k \in Nat, List!ListDelete(k)
      PROVE  Sound' /\ ListHeld /\ StackView' = StackView
  BY <1>5, ListDeleteHolds DEF ListHeld, List!Held!Next
<1>6. ASSUME NEW k \in Nat, List!ListDeleteOutside(k)
      PROVE  Sound' /\ ListHeld /\ StackView' = StackView
  <2>1. Sound' /\ ListView' = ListView /\ StackView' = StackView
    BY <1>6, NothingWritten DEF List!ListDeleteOutside, stack
  <2>2. PICK s, t, last : TwoChains(s, t, last)
    BY DEF Sound
  <2>3. Len(ListView) = listSize /\ listSize \in Nat
    <3>1. Memory /\ ListView = ItemsOf(s, data) /\ s \in Seq(Addresses)
      BY <2>2, Views DEF Sound
    <3>. QED BY <2>2, <3>1, ItemsAre, LenProperties DEF Memory, TwoChains
  <2>4. k \notin List!Held!Indexes
    <3>1. List!Held!Indexes = 0..(listSize - 1)
      BY <2>3 DEF List!Held!Indexes, ListView
    <3>. QED BY <1>6, <2>3, <3>1 DEF List!ListDeleteOutside
  <2>5. List!Held!Missing
    BY <1>6, <2>1, <2>4, Zenon DEF List!ListDeleteOutside, List!Held!Missing, ListView
  <2>. QED BY <2>1, <2>5 DEF ListHeld, List!Held!Next
<1>7. CASE List!ListFree
  <2>1. walk' = "sound"
    BY <1>0, <1>7, Zenon DEF List!ListFree
  <2>. QED BY <1>7, <2>1, ListFreeHolds DEF ListHeld, List!Held!Next
<1>8. \A k \in 0..List!Cardinality(Addresses) : k \in Nat
  <2>1. List!Cardinality(Addresses) = Cardinality(Addresses)
    BY DEF Cardinality, List!Cardinality
  <2>. QED BY <2>1, AddressesAreNodes
<1>. QED BY <1>1, <1>2, <1>3, <1>4, <1>5, <1>6, <1>7, <1>8 DEF List!Next

-----------------------------------------------------------------------------
(* The stack's calls                                                       *)

(* stack_push gives the new node to the top of the stack and to nobody else. *)
LEMMA StackPushHolds ==
  ASSUME Sound, UNCHANGED list, NEW x \in Items, Errors!StackPush(x)
  PROVE  Sound' /\ ListView' = ListView /\ Errors!Held!InsertFirst(x)
<1>1. PICK s, t, last : TwoChains(s, t, last)
  BY DEF Sound
<1>2. /\ Memory /\ Errors!Nodes = t
      /\ ListView = ItemsOf(s, data) /\ StackView = ItemsOf(t, data)
      /\ s \in Seq(Addresses) /\ t \in Seq(Addresses)
  BY <1>1, Views DEF Sound
<1>3. PICK n \in Addresses \ live :
        /\ live' = live \cup {n}
        /\ data' = [data EXCEPT ![n] = x]
        /\ next' = [next EXCEPT ![n] = stackHead]
        /\ stackHead' = n
  BY DEF Errors!StackPush
<1>4. /\ NodesOf(t) \subseteq Addresses /\ NodesOf(t) \cap NodesOf(s) = {}
      /\ NodesOf(s) \subseteq Addresses /\ live = NodesOf(s) \cup NodesOf(t)
      /\ Chain(t, stackHead, next, Null)
  BY <1>1, ChainFacts DEF TwoChains
<1>5. n \in Addresses /\ n \notin NodesOf(s) /\ n \notin NodesOf(t)
  BY <1>3, <1>4
<1>6. next \in [Addresses -> Pointers] /\ data \in [Addresses -> Data] /\ x \in Data
  BY <1>2 DEF Memory, Data
<1>7. stackHead \in Pointers
  BY <1>4, <1>6, Reads
<1>8. /\ next' \in [Addresses -> Pointers] /\ next'[n] = stackHead
      /\ \A a \in NodesOf(s) \cup NodesOf(t) : next'[a] = next[a]
  BY <1>3, <1>4, <1>5, <1>6, <1>7
<1>9. /\ data' \in [Addresses -> Data] /\ data'[n] = x
      /\ \A a \in NodesOf(s) \cup NodesOf(t) : data'[a] = data[a]
  BY <1>3, <1>4, <1>5, <1>6
<1> DEFINE t2 == OnTop(n, t)
<1>10. /\ NodesOf(t2) = NodesOf(t) \cup {n} /\ Len(t2) = Len(t) + 1
       /\ Chain(t2, n, next', Null)
  <2>1. \A a \in NodesOf(t) : next'[a] = next[a]
    BY <1>8
  <2>. QED BY <1>4, <1>5, <1>6, <1>8, <2>1, ChainPushed DEF OnTop
<1>11. Chain(s, listHead, next', last)
  <2>1. \A a \in NodesOf(s) : next'[a] = next[a]
    BY <1>8
  <2>. QED BY <1>1, <2>1, ChainKept DEF TwoChains
<1>12. ItemsOf(t2, data') = OnTop(x, ItemsOf(t, data))
  <2>1. \A w \in Seq(Addresses), m \in Addresses, d, e \in [Addresses -> Data], y \in Data :
          e[m] = y /\ (\A a \in NodesOf(w) : e[a] = d[a])
            => ItemsOf(OnTop(m, w), e) = OnTop(y, ItemsOf(w, d))
    BY ItemsPushed
  <2>2. \A a \in NodesOf(t) : data'[a] = data[a]
    BY <1>9
  <2>3. n \in Addresses /\ t \in Seq(Addresses) /\ data'[n] = x
    BY <1>2, <1>5, <1>9
  <2>. QED BY <1>6, <1>9, <2>1, <2>2, <2>3
<1>13. ItemsOf(s, data') = ItemsOf(s, data)
  <2>1. \A a \in NodesOf(s) : data'[a] = data[a]
    BY <1>9
  <2>. QED BY <1>2, <1>6, <1>9, <2>1, ItemsKept
<1> HIDE DEF t2
<1>14. TwoChains(s, t2, last)'
  <2>1. stackSize' = Len(t2) /\ UNCHANGED <<listHead, listSize>> /\ stackHead' = n
    BY <1>1, <1>3, <1>10 DEF Errors!StackPush, list, TwoChains
  <2>2. NodesOf(s) \cap NodesOf(t2) = {} /\ live' = NodesOf(s) \cup NodesOf(t2)
    BY <1>3, <1>4, <1>5, <1>10
  <2>. QED BY <1>1, <1>10, <1>11, <2>1, <2>2 DEF TwoChains
<1>15. Sound' /\ ListView' = ItemsOf(s, data') /\ StackView' = ItemsOf(t2, data')
  BY <1>8, <1>9, <1>14, ViewsNext DEF Memory
<1>16. StackView' = <<x>> \o StackView /\ ListView' = ListView
  BY <1>2, <1>12, <1>13, <1>15 DEF OnTop
<1>17. Errors!Held!InsertFirst(x)
  BY <1>16 DEF StackView, Errors!StackPush, Errors!Held!InsertFirst
<1>. QED BY <1>15, <1>16, <1>17

(* stack_pop frees the node on top, and the ones below are the stack. *)
LEMMA StackPopHolds ==
  ASSUME Sound, UNCHANGED list, Errors!StackPop
  PROVE  Sound' /\ ListView' = ListView /\ Errors!Held!TakeFirst
<1>1. PICK s, t, last : TwoChains(s, t, last)
  BY DEF Sound
<1>2. /\ Memory /\ Errors!Nodes = t
      /\ ListView = ItemsOf(s, data) /\ StackView = ItemsOf(t, data)
      /\ s \in Seq(Addresses) /\ t \in Seq(Addresses)
  BY <1>1, Views DEF Sound
<1>3. /\ stackHead # Null /\ stackHead' = next[stackHead]
      /\ stackAsked' = 0 /\ stackResult' = data[stackHead]
      /\ live' = live \ {stackHead} /\ stackSize' = stackSize - 1
      /\ UNCHANGED <<data, next, listHead, listSize>>
  BY DEF Errors!StackPop, list
<1>4. /\ Chain(t, stackHead, next, Null) /\ stackSize = Len(t)
      /\ NodesOf(s) \cap NodesOf(t) = {} /\ live = NodesOf(s) \cup NodesOf(t)
  BY <1>1 DEF TwoChains
<1>5. /\ t = <<>> <=> Len(t) = 0
      /\ t = <<>> => stackHead = Null
      /\ DOMAIN t = 1..Len(t) /\ Len(t) \in Nat
  BY <1>4, ChainFacts
<1>6. t # <<>>
  BY <1>3, <1>5
<1> DEFINE t2 == Skipping(t, 0)
<1>7. stackHead = t[1] /\ Chain(t2, next[stackHead], next, Null)
  BY <1>4, <1>6, HeadUnlinked
<1>8. 1 \in 1..Len(t) /\ 0 \in 0..(Len(t) - 1)
  <2> DEFINE l == Len(t)
  <2> HIDE DEF l
  <2>1. l \in Nat /\ l # 0
    BY <1>5, <1>6 DEF l
  <2>2. 1 \in 1..l /\ 0 \in 0..(l - 1)
    BY <2>1
  <2>. QED BY <2>2 DEF l
<1>9. NodesOf(t2) = NodesOf(t) \ {t[0 + 1]} /\ Len(t2) = Len(t) - 1
  BY <1>2, <1>4, <1>8, NodesLeft, WithoutIs
<1>10. stackHead \in NodesOf(t)
  BY <1>5, <1>7, <1>8 DEF NodesOf
<1> HIDE DEF t2
<1>11. TwoChains(s, t2, last)'
  <2>1. NodesOf(s) \cap NodesOf(t2) = {} /\ live' = NodesOf(s) \cup NodesOf(t2)
    BY <1>3, <1>4, <1>7, <1>9, <1>10
  <2>. QED BY <1>1, <1>3, <1>4, <1>7, <1>9, <2>1 DEF TwoChains
<1>12. Sound' /\ ListView' = ItemsOf(s, data') /\ StackView' = ItemsOf(t2, data')
  BY <1>2, <1>3, <1>11, ViewsNext DEF Memory
<1>13. ItemsOf(t2, data) = Skipping(ItemsOf(t, data), 0)
  BY <1>2, <1>8, ItemsLeft DEF Memory, t2
<1>14. /\ ItemsOf(t, data) \in Seq(Data) /\ Len(ItemsOf(t, data)) = Len(t)
       /\ ItemsOf(t, data)[1] = data[t[1]]
  BY <1>2, <1>8, ItemsAre DEF Memory
<1>15. ItemsOf(t, data) # <<>>
  BY <1>5, <1>6, <1>14, EmptySeq
<1>16. Skipping(ItemsOf(t, data), 0) = Tail(ItemsOf(t, data))
  BY <1>14, <1>15, WithoutFirst
<1>17. /\ StackView # <<>> /\ StackView' = Tail(StackView)
       /\ stackResult' = StackView[1] /\ stackAsked' = 0
       /\ ListView' = ListView
  BY <1>2, <1>3, <1>7, <1>12, <1>13, <1>14, <1>15, <1>16
<1>18. Errors!Held!TakeFirst
  BY <1>17, Zenon DEF StackView, Errors!Held!TakeFirst
<1>. QED BY <1>12, <1>17, <1>18

(* command_print_errors leaves nothing behind: stack_free gives back the stack's nodes and no other. *)
LEMMA StackFreeHolds ==
  ASSUME Sound, UNCHANGED list, Errors!StackFree
  PROVE  Sound' /\ ListView' = ListView /\ Errors!Held!Clear
<1>1. PICK s, t, last : TwoChains(s, t, last)
  BY DEF Sound
<1>2. Memory /\ Errors!Nodes = t /\ ListView = ItemsOf(s, data)
  BY <1>1, Views DEF Sound
<1>3. /\ stackHead' = Null /\ stackSize' = 0 /\ UNCHANGED <<data, next, listHead, listSize>>
      /\ live' = live \ NodesOf(t) /\ stackAsked' = -1 /\ stackResult' = None
  BY <1>2 DEF Errors!StackFree, Errors!NodesOf, list, NodesOf
<1>4. TwoChains(s, <<>>, last)'
  <2>1. Chain(<<>>, Null, next', Null) /\ NodesOf(<<>>) = {} /\ Len(<<>>) = 0
    BY EmptyChain, EmptySeq
  <2>2. live' = NodesOf(s)
    BY <1>1, <1>3 DEF TwoChains
  <2>3. Chain(s, listHead', next', last) /\ listSize' = Len(s)
    BY <1>1, <1>3 DEF TwoChains
  <2>. QED BY <1>3, <2>1, <2>2, <2>3 DEF TwoChains
<1>5. Memory'
  BY <1>2, <1>3 DEF Memory
<1>6. Sound' /\ ListView' = ItemsOf(s, data') /\ StackView' = ItemsOf(<<>>, data')
  BY <1>4, <1>5, ViewsNext
<1>7. StackView' = <<>>
  BY <1>6, EmptySeq DEF ItemsOf
<1>. QED BY <1>2, <1>3, <1>6, <1>7 DEF Errors!Held!Clear, StackView

(* Whatever the stack does, the two keep their own nodes, and the stack is its sequence. *)
LEMMA StackStep ==
  ASSUME Sound, Errors!Next, UNCHANGED list
  PROVE  Sound' /\ StackHeld /\ ListView' = ListView
<1>1. ASSUME NEW x \in Items, Errors!StackPush(x) PROVE Sound' /\ StackHeld /\ ListView' = ListView
  BY <1>1, StackPushHolds DEF StackHeld, Errors!Held!Next
<1>2. CASE Errors!StackPushFails
  <2>1. Sound' /\ ListView' = ListView /\ StackView' = StackView
    BY <1>2, NothingWritten DEF Errors!StackPushFails, list
  <2>2. Errors!Held!Refuse
    BY <1>2, <2>1 DEF Errors!StackPushFails, Errors!Held!Refuse, StackView
  <2>. QED BY <2>1, <2>2 DEF StackHeld, Errors!Held!Next
<1>3. CASE Errors!StackPop
  BY <1>3, StackPopHolds DEF StackHeld, Errors!Held!Next
<1>4. PICK s, t, last : TwoChains(s, t, last)
  BY DEF Sound
<1>5. /\ StackView \in Seq(Data) /\ Len(StackView) = Len(t)
      /\ \A i \in 1..Len(t) : StackView[i] = data[t[i]]
      /\ Errors!Held!Indexes = 0..(Len(t) - 1)
  <2>1. Memory /\ StackView = ItemsOf(t, data) /\ t \in Seq(Addresses)
    BY <1>4, Views DEF Sound
  <2>2. /\ StackView \in Seq(Data) /\ Len(StackView) = Len(t)
        /\ \A i \in 1..Len(t) : StackView[i] = data[t[i]]
    BY <2>1, ItemsAre DEF Memory
  <2>. QED BY <2>2 DEF Errors!Held!Indexes, StackView
<1>6. /\ Len(t) \in Nat
      /\ stackHead = Null <=> Len(t) = 0
      /\ Len(t) # 0 => stackHead = t[1]
  <2>1. Chain(t, stackHead, next, Null)
    BY <1>4 DEF TwoChains
  <2>2. /\ Len(t) \in Nat /\ (t = <<>> <=> Len(t) = 0)
        /\ (t = <<>> => stackHead = Null)
        /\ (t # <<>> => stackHead = t[1] /\ stackHead \in Addresses)
    BY <2>1, ChainFacts
  <2>. QED BY <2>2, AddressesAreNodes
<1>7. -1 \notin Errors!Held!Indexes
  BY <1>5, <1>6
<1>8. CASE Errors!StackPopEmpty
  <2>1. Sound' /\ ListView' = ListView /\ StackView' = StackView
    BY <1>8, NothingWritten DEF Errors!StackPopEmpty, list
  <2>2. Errors!Held!Missing
    BY <1>7, <1>8, <2>1, Zenon DEF Errors!StackPopEmpty, Errors!Held!Missing, StackView
  <2>. QED BY <2>1, <2>2 DEF StackHeld, Errors!Held!Next
<1>9. CASE Errors!StackPeek
  <2>1. Sound' /\ ListView' = ListView /\ StackView' = StackView
    BY <1>9, NothingWritten DEF Errors!StackPeek, list
  <2>2. CASE stackHead = Null
    <3>1. stackAsked' = -1 /\ stackResult' = None
      BY <1>9, <2>2 DEF Errors!StackPeek
    <3>2. Errors!Held!Missing
      BY <1>7, <2>1, <3>1, Zenon DEF Errors!Held!Missing, StackView
    <3>. QED BY <2>1, <3>2 DEF StackHeld, Errors!Held!Next
  <2>3. CASE stackHead # Null
    <3>1. stackAsked' = 0 /\ stackResult' = data[stackHead]
      BY <1>9, <2>3 DEF Errors!StackPeek
    <3>2. 0 \in Errors!Held!Indexes /\ 0 + 1 \in 1..Len(t)
      BY <1>5, <1>6, <2>3
    <3>3. stackResult' = StackView[0 + 1]
      BY <1>5, <1>6, <2>3, <3>1, <3>2
    <3>4. Errors!Held!Get(0)
      BY <2>1, <3>1, <3>3, Zenon DEF Errors!Held!Get, StackView
    <3>5. StackView # <<>>
      BY <1>5, <1>6, <2>3, EmptySeq
    <3>6. Errors!Held!GetFirst
      BY <3>4, <3>5, Zenon DEF Errors!Held!GetFirst, StackView
    <3>. QED BY <2>1, <3>6 DEF StackHeld, Errors!Held!Next
  <2>. QED BY <2>2, <2>3
<1>10. CASE Errors!StackFree
  BY <1>10, StackFreeHolds DEF StackHeld, Errors!Held!Next
<1>. QED BY <1>1, <1>2, <1>3, <1>8, <1>9, <1>10 DEF Errors!Next

-----------------------------------------------------------------------------
(* The theorems                                                            *)

LEMMA HeapStep ==
  HeapInv /\ [HeapNext]_heapVars => HeapInv' /\ (walk' = "strayed" \/ (ListHeld /\ StackHeld))
<1> SUFFICES ASSUME HeapInv, [HeapNext]_heapVars
             PROVE  HeapInv' /\ (walk' = "strayed" \/ (ListHeld /\ StackHeld))
  OBVIOUS
<1>1. CASE List!Next /\ UNCHANGED stack
  <2>1. Sound
    BY <1>1 DEF HeapInv, List!Next
  <2>2. CASE walk' = "strayed"
    BY <2>2 DEF HeapInv
  <2>3. CASE walk' # "strayed"
    BY <1>1, <2>1, <2>3, ListStep DEF HeapInv, StackHeld, stack
  <2>. QED BY <2>2, <2>3
<1>2. CASE walk = "sound" /\ Errors!Next /\ UNCHANGED <<list, walk>>
  BY <1>2, StackStep DEF HeapInv, ListHeld, list
<1>3. CASE UNCHANGED heapVars
  <2>1. walk' = walk /\ ListView' = ListView /\ StackView' = StackView
    BY <1>3 DEF heapVars, list, stack, ListView, StackView, List!Nodes, Errors!Nodes, List!Hops,
                Errors!NodesFrom, Errors!Hops
  <2>2. Sound => Sound'
    BY <1>3, NothingWritten DEF heapVars, list, stack
  <2>. QED BY <1>3, <2>1, <2>2 DEF HeapInv, ListHeld, StackHeld, heapVars, list, stack
<1>. QED BY <1>1, <1>2, <1>3 DEF HeapNext

LEMMA HeapInvariance == HeapSpec => []HeapInv
<1>1. HeapInit => HeapInv
  BY HeapInitially DEF HeapInv
<1>2. HeapInv /\ [HeapNext]_heapVars => HeapInv'
  BY HeapStep
<1>. QED BY <1>1, <1>2, PTL DEF HeapSpec

(* In whatever order the list and the stack take nodes from one malloc and give them back, and   *)
(* whatever the fields nobody wrote hold, neither has the other's node, no node is freed twice    *)
(* and none is left to nobody, up to the first list_add or list_free that walks past the list.    *)
THEOREM EachNodeAlwaysHasAnOwner == HeapSpec => []EachNodeHasAnOwner
<1>1. HeapInv => EachNodeHasAnOwner
  <2> SUFFICES ASSUME HeapInv, walk = "sound"
               PROVE  /\ NodesOf(List!Nodes) \cap NodesOf(Errors!Nodes) = {}
                      /\ live = NodesOf(List!Nodes) \cup NodesOf(Errors!Nodes)
    BY DEF EachNodeHasAnOwner
  <2>1. Sound
    BY DEF HeapInv
  <2>2. PICK s, t, last : TwoChains(s, t, last)
    BY <2>1 DEF Sound
  <2>3. List!Nodes = s /\ Errors!Nodes = t
    BY <2>1, <2>2, Views DEF Sound
  <2>. QED BY <2>2, <2>3 DEF TwoChains
<1>. QED BY <1>1, HeapInvariance, PTL

(* list.c is the sequence of what list_add added at its end and list_delete did not delete, up   *)
(* to the first walk past the list, whatever the stack does meanwhile.                            *)
THEOREM ListAlwaysHoldsTheSequence == HeapSpec => ListHoldsTheSequence
<1>1. HeapInit => List!Held!Init
  BY HeapInitially DEF HeapInit, List!Init, List!Held!Init, ListView
<1>2. HeapInv /\ [HeapNext]_heapVars => [walk' = "strayed" \/ List!Held!Next]_(List!Held!vars)
  BY HeapStep DEF ListHeld, ListView, List!Held!vars
<1>. QED BY <1>1, <1>2, HeapInvariance, PTL
         DEF HeapSpec, ListHoldsTheSequence, List!HoldsTheSequence

(* Last in, first out: stack.c takes items in at the top and nowhere else, and gives back from    *)
(* there, whatever nodes the list frees and gets, until the list walks into it: the errors        *)
(* command_print_errors pops are the ones command_push_error pushed, the last one first.          *)
THEOREM StackAlwaysHoldsTheSequence == HeapSpec => StackHoldsTheSequence
<1>1. HeapInit => Errors!Held!Init
  BY HeapInitially DEF HeapInit, Errors!Init, Errors!Held!Init, StackView
<1>2. HeapInv /\ [HeapNext]_heapVars => [walk' = "strayed" \/ Errors!Held!Next]_(Errors!Held!vars)
  BY HeapStep DEF StackHeld, StackView, Errors!Held!vars
<1>. QED BY <1>1, <1>2, HeapInvariance, PTL
         DEF HeapSpec, StackHoldsTheSequence
=============================================================================
