----------------------------- MODULE DataProofs -----------------------------
(***************************************************************************)
(* Lemmas about data that several proofs need: counting up to a bound, what   *)
(* a function defined by recursion along a count is, sequences put together,  *)
(* what Picked returns, and how it follows a sequence that grows.             *)
(***************************************************************************)
EXTENDS Subsequence, Functions, FiniteSetTheorems, SequenceTheorems, WellFoundedInduction, TLAPS

-----------------------------------------------------------------------------
(* Counting                                                                *)

LEMMA LeastNumber ==
  ASSUME NEW T \in SUBSET Nat, T # {}
  PROVE  \E n \in T : \A m \in T : n <= m
<1>1. PICK n \in T : \A m \in T : ~(<<m, n>> \in OpToRel(<, Nat))
  BY NatLessThanWellFounded, WFMin, Zenon
<1>2. \A m \in T : ~(m < n)
  BY <1>1 DEF OpToRel
<1>. QED BY <1>2

(* A set that has 0, and with each number the next, has them all up to any bound. *)
LEMMA Counting ==
  ASSUME NEW S, NEW N \in Nat, 0 \in S, \A n \in 0..(N - 1) : n \in S => n + 1 \in S
  PROVE  0..N \subseteq S
<1> DEFINE T == (0..N) \ S
<1> SUFFICES ASSUME T # {} PROVE FALSE
  OBVIOUS
<1>1. T \in SUBSET Nat
  OBVIOUS
<1>2. PICK m \in T : \A k \in T : m <= k
  <2> HIDE DEF T
  <2>. QED BY <1>1, LeastNumber
<1>3. m \in Nat /\ m # 0 /\ m <= N /\ m \notin S
  OBVIOUS
<1> DEFINE k == m - 1
<1>4. k \in 0..(N - 1) /\ k < m /\ k + 1 = m
  BY <1>3
<1> HIDE DEF k
<1>5. k \in S
  <2>1. k \in 0..N /\ ~(m <= k)
    BY <1>3, <1>4
  <2>. QED BY <1>2, <2>1
<1>. QED BY <1>3, <1>4, <1>5

(* A function that is defined by recursion along a count exists. *)
StepsOver(N, X) == [1..N -> [X -> X]]

Iterates(f, x, step, N, X) ==
  f \in [0..N -> X] /\ f[0] = x /\ \A i \in 1..N : f[i] = step[i][f[i - 1]]

LEMMA Recursion ==
  ASSUME NEW X, NEW x \in X, NEW N \in Nat, NEW step \in StepsOver(N, X)
  PROVE  \E f : Iterates(f, x, step, N, X)
<1> DEFINE Upto(n, f) == f \in [0..n -> X] /\ f[0] = x /\ \A i \in 1..n : f[i] = step[i][f[i - 1]]
           S == {n \in 0..N : \E f : Upto(n, f)}
<1> USE DEF StepsOver
<1>1. 0 \in S
  <2> DEFINE f == [i \in 0..0 |-> x]
  <2>1. Upto(0, f)
    OBVIOUS
  <2> HIDE DEF Upto
  <2>. QED BY <2>1
<1>2. ASSUME NEW n \in 0..(N - 1), n \in S PROVE n + 1 \in S
  <2>1. PICK f : Upto(n, f)
    BY <1>2
  <2> DEFINE g == [i \in 0..(n + 1) |-> IF i = n + 1 THEN step[n + 1][f[n]] ELSE f[i]]
  <2>2. step[n + 1][f[n]] \in X
    BY <2>1
  <2>3. g \in [0..(n + 1) -> X] /\ g[0] = x
    BY <2>1, <2>2
  <2>4. ASSUME NEW i \in 1..(n + 1) PROVE g[i] = step[i][g[i - 1]]
    <3>1. CASE i = n + 1
      <4>1. g[i] = step[n + 1][f[n]] /\ g[i - 1] = f[n]
        BY <3>1
      <4> HIDE DEF g
      <4>. QED BY <3>1, <4>1
    <3>2. CASE i # n + 1
      <4>1. i \in 1..n /\ g[i] = f[i] /\ g[i - 1] = f[i - 1]
        BY <3>2
      <4> HIDE DEF g
      <4>. QED BY <2>1, <4>1
    <3>. QED BY <3>1, <3>2
  <2>5. Upto(n + 1, g)
    <3> HIDE DEF g
    <3>. QED BY <2>3, <2>4
  <2> HIDE DEF Upto, g
  <2>. QED BY <2>5
<1> HIDE DEF S
<1>3. N \in S
  <2>1. N \in 0..N
    OBVIOUS
  <2>. QED BY <1>1, <1>2, <2>1, Counting
<1>. QED BY <1>3 DEF S, Iterates

-----------------------------------------------------------------------------
(* Sequences put together                                                  *)

(* Two sequences put together hold what both hold, each item once if neither repeats one and they *)
(* share none.                                                                                      *)
LEMMA Concatenation ==
  ASSUME NEW T, NEW s \in Seq(T), NEW t \in Seq(T)
  PROVE  /\ s \o t \in Seq(T) /\ Range(s \o t) = Range(s) \cup Range(t)
         /\ IsInjective(s) /\ IsInjective(t) /\ Range(s) \cap Range(t) = {} => IsInjective(s \o t)
<1> DEFINE n == Len(s)
           m == Len(t)
           r == s \o t
<1>1. n \in Nat /\ m \in Nat /\ DOMAIN s = 1..n /\ DOMAIN t = 1..m
  BY LenProperties
<1>2. /\ r \in Seq(T) /\ Len(r) = n + m
      /\ \A i \in 1..(n + m) : r[i] = IF i <= n THEN s[i] ELSE t[i - n]
  BY ConcatProperties
<1>3. DOMAIN r = 1..(n + m)
  BY <1>2, LenProperties
<1> HIDE DEF r, n, m
<1>4. ASSUME NEW i \in 1..(n + m)
      PROVE  (i \in 1..n /\ r[i] = s[i]) \/ (i - n \in 1..m /\ r[i] = t[i - n])
  <2>1. r[i] = IF i <= n THEN s[i] ELSE t[i - n]
    BY <1>2
  <2>2. CASE i <= n
    <3>1. i \in 1..n
      BY <1>1, <2>2
    <3>. QED BY <2>1, <2>2, <3>1
  <2>3. CASE ~(i <= n)
    <3>1. i - n \in 1..m
      BY <1>1, <2>3
    <3>. QED BY <2>1, <2>3, <3>1
  <2>. QED BY <2>2, <2>3
<1>5. \A i \in 1..n : i \in 1..(n + m) /\ r[i] = s[i]
  BY <1>1, <1>2
<1>6. ASSUME NEW i \in 1..m PROVE n + i \in 1..(n + m) /\ r[n + i] = t[i]
  <2>1. n + i \in 1..(n + m) /\ ~(n + i <= n) /\ (n + i) - n = i
    BY <1>1
  <2>. QED BY <1>2, <2>1
<1>7. Range(r) = Range(s) \cup Range(t)
  <2>1. Range(r) \subseteq Range(s) \cup Range(t)
    BY <1>1, <1>3, <1>4 DEF Range
  <2>2. Range(s) \subseteq Range(r)
    BY <1>1, <1>3, <1>5 DEF Range
  <2>3. Range(t) \subseteq Range(r)
    BY <1>1, <1>3, <1>6 DEF Range
  <2>. QED BY <2>1, <2>2, <2>3
<1>8. ASSUME IsInjective(s), IsInjective(t), Range(s) \cap Range(t) = {} PROVE IsInjective(r)
  <2>1. SUFFICES ASSUME NEW i \in 1..(n + m), NEW j \in 1..(n + m), r[i] = r[j] PROVE i = j
    BY <1>3 DEF IsInjective
  <2>2. \A k \in 1..n : s[k] \in Range(s)
    BY <1>1 DEF Range
  <2>3. \A k \in 1..m : t[k] \in Range(t)
    BY <1>1 DEF Range
  <2>4. CASE i \in 1..n /\ r[i] = s[i] /\ j \in 1..n /\ r[j] = s[j]
    BY <1>1, <1>8, <2>1, <2>4 DEF IsInjective
  <2>5. CASE i - n \in 1..m /\ r[i] = t[i - n] /\ j - n \in 1..m /\ r[j] = t[j - n]
    <3>1. i - n = j - n
      BY <1>1, <1>8, <2>1, <2>5 DEF IsInjective
    <3>. QED BY <1>1, <3>1
  <2>6. CASE i \in 1..n /\ r[i] = s[i] /\ j - n \in 1..m /\ r[j] = t[j - n]
    BY <1>8, <2>1, <2>2, <2>3, <2>6
  <2>7. CASE j \in 1..n /\ r[j] = s[j] /\ i - n \in 1..m /\ r[i] = t[i - n]
    BY <1>8, <2>1, <2>2, <2>3, <2>7
  <2>. QED BY <1>4, <2>4, <2>5, <2>6, <2>7
<1>. QED BY <1>2, <1>7, <1>8 DEF r

(* The first item of two sequences put together, and the rest *)
LEMMA HeadOfConcat ==
  ASSUME NEW T, NEW s \in Seq(T), NEW t \in Seq(T), s # <<>>
  PROVE  s \o t # <<>> /\ Head(s \o t) = Head(s) /\ Tail(s \o t) = Tail(s) \o t
<1> DEFINE n == Len(s)
           m == Len(t)
           r == s \o t
<1>1. n \in Nat \ {0} /\ m \in Nat
  BY LenProperties, EmptySeq
<1>2. /\ r \in Seq(T) /\ Len(r) = n + m
      /\ \A i \in 1..(n + m) : r[i] = IF i <= n THEN s[i] ELSE t[i - n]
  BY ConcatProperties
<1>3. r # <<>> /\ Head(r) = s[1]
  <2> HIDE DEF r, n, m
  <2>1. Len(r) # 0 /\ 1 \in 1..(n + m) /\ 1 <= n
    BY <1>1, <1>2
  <2>2. r # <<>> /\ r[1] = s[1]
    BY <1>2, <2>1, EmptySeq
  <2>. QED BY <2>2
<1>4. Tail(s) \in Seq(T) /\ Len(Tail(s)) = n - 1 /\ \A i \in 1..(n - 1) : Tail(s)[i] = s[i + 1]
  BY HeadTailProperties
<1>5. Tail(r) \in Seq(T) /\ Len(Tail(r)) = n + m - 1 /\ \A i \in 1..(n + m - 1) : Tail(r)[i] = r[i + 1]
  <2> HIDE DEF r
  <2>. QED BY <1>2, <1>3, HeadTailProperties
<1>6. /\ Tail(s) \o t \in Seq(T) /\ Len(Tail(s) \o t) = n - 1 + m
      /\ \A i \in 1..(n - 1 + m) :
           (Tail(s) \o t)[i] = IF i <= n - 1 THEN Tail(s)[i] ELSE t[i - (n - 1)]
  BY <1>4, ConcatProperties
<1> DEFINE u == Tail(r)
           v == Tail(s) \o t
<1> HIDE DEF u, v, r, n, m
<1>7. ASSUME NEW i \in 1..(n + m - 1) PROVE u[i] = v[i]
  <2>1. i + 1 \in 1..(n + m) /\ i \in 1..(n - 1 + m) /\ (i + 1 <= n <=> i <= n - 1)
        /\ (i + 1) - n = i - (n - 1) /\ (i <= n - 1 => i \in 1..(n - 1))
    BY <1>1
  <2>2. u[i] = IF i + 1 <= n THEN s[i + 1] ELSE t[(i + 1) - n]
    BY <1>2, <1>5, <2>1 DEF u
  <2>3. v[i] = IF i <= n - 1 THEN s[i + 1] ELSE t[i - (n - 1)]
    BY <1>4, <1>6, <2>1 DEF v
  <2>. QED BY <2>1, <2>2, <2>3
<1>8. Len(u) = n + m - 1 /\ Len(v) = n + m - 1 /\ u \in Seq(T) /\ v \in Seq(T)
  BY <1>1, <1>5, <1>6 DEF u, v
<1>9. u = v
  BY <1>7, <1>8, SeqEqual
<1>. QED BY <1>3, <1>9 DEF u, v, r

(* What moves from the front of one to the end of the other stays where it is. *)
LEMMA HeadMoves ==
  ASSUME NEW T, NEW s \in Seq(T), NEW t \in Seq(T), t # <<>>
  PROVE  /\ Head(t) \in T /\ Tail(t) \in Seq(T) /\ Append(s, Head(t)) \in Seq(T)
         /\ Append(s, Head(t)) \o Tail(t) = s \o t
<1> DEFINE n == Len(t)
<1>1. n \in Nat \ {0}
  BY LenProperties, EmptySeq
<1>2. 1 \in 1..n /\ n \in 1..n /\ 1 + 1 = 2
  BY <1>1
<1>3. SubSeq(t, 1, n) = <<t[1]>> \o SubSeq(t, 1 + 1, n)
  BY <1>2, SubSeqRecursiveFirst
<1>4. Head(t) = t[1] /\ Head(t) \in T /\ Tail(t) \in Seq(T) /\ Tail(t) = SubSeq(t, 2, n)
  BY HeadTailProperties, TailIsSubSeq
<1>5. t = <<Head(t)>> \o Tail(t)
  BY <1>2, <1>3, <1>4, SubSeqFull
<1> DEFINE h == Head(t)
           r == Tail(t)
<1>6. h \in T /\ r \in Seq(T) /\ t = <<h>> \o r
  BY <1>4, <1>5
<1> HIDE DEF h, r
<1>7. <<h>> \in Seq(T)
  BY <1>6
<1>8. Append(s, h) = s \o <<h>> /\ Append(s, h) \in Seq(T)
  BY <1>6, AppendIsConcat, AppendProperties
<1>9. (s \o <<h>>) \o r = s \o (<<h>> \o r)
  BY <1>6, <1>7, ConcatAssociative
<1>. QED BY <1>6, <1>8, <1>9 DEF h, r

(* One item further *)
LEMMA OneFurther ==
  ASSUME NEW S, NEW w \in Seq(S), NEW k \in 0..(Len(w) - 1)
  PROVE  /\ SubSeq(w, k + 1, Len(w)) # <<>>
         /\ Head(SubSeq(w, k + 1, Len(w))) = w[k + 1]
         /\ Tail(SubSeq(w, k + 1, Len(w))) = SubSeq(w, k + 2, Len(w))
         /\ \A m \in 1..(k + 1) : Append(SubSeq(w, m, k), w[k + 1]) = SubSeq(w, m, k + 1)
<1>1. Len(w) \in Nat /\ k + 1 \in 1..Len(w)
  BY LenProperties
<1>2. \A i \in 1..Len(w) : w[i] \in S
  BY ElementOfSeq
<1>3. Len(SubSeq(w, k + 1, Len(w))) > 0 /\ SubSeq(w, k + 1, Len(w)) \in Seq(S)
  BY <1>1, <1>2, SubSeqProperties
<1>4. SubSeq(w, k + 1, Len(w)) # <<>>
  <2>1. Len(<<>>) = 0
    BY EmptySeq
  <2>2. Len(SubSeq(w, k + 1, Len(w))) # 0
    BY <1>3
  <2>. QED BY <2>1, <2>2, Zenon
<1>5. /\ Head(SubSeq(w, k + 1, Len(w))) = w[k + 1]
      /\ Tail(SubSeq(w, k + 1, Len(w))) = SubSeq(w, k + 1 + 1, Len(w))
  BY <1>1, HeadTailOfSubSeq
<1>6. ASSUME NEW m \in 1..(k + 1)
      PROVE  Append(SubSeq(w, m, k), w[k + 1]) = SubSeq(w, m, k + 1)
  <2>1. SubSeq(w, m, k + 1) = SubSeq(w, m, k + 1 - 1) \o <<w[k + 1]>>
    BY <1>1, SubSeqRecursiveSecond
  <2>2. SubSeq(w, m, k) \in Seq(S)
    BY <1>1, <1>2, SubSeqProperties
  <2>3. Append(SubSeq(w, m, k), w[k + 1]) = SubSeq(w, m, k) \o <<w[k + 1]>>
    BY <1>1, <1>2, <2>2, AppendIsConcat
  <2>4. k + 1 - 1 = k
    OBVIOUS
  <2>. QED BY <2>1, <2>3, <2>4
<1>7. k + 1 + 1 = k + 2
  OBVIOUS
<1>. QED BY <1>4, <1>5, <1>6, <1>7

LEMMA NothingFurther ==
  ASSUME NEW S, NEW w \in Seq(S), NEW k \in 0..Len(w)
  PROVE  SubSeq(w, k + 1, Len(w)) = <<>> <=> k = Len(w)
<1>1. Len(w) \in Nat
  BY LenProperties
<1>2. k = Len(w) => SubSeq(w, k + 1, Len(w)) = <<>>
  BY <1>1, SubSeqEmpty
<1>3. k # Len(w) => k \in 0..(Len(w) - 1)
  BY <1>1
<1>. QED BY <1>2, <1>3, OneFurther

-----------------------------------------------------------------------------
(* Picked                                                                  *)

(* Places are numbers from 1 up to the number of positions, *)
LEMMA PlaceInRange ==
  ASSUME NEW I \in SUBSET Nat, IsFiniteSet(I), NEW i \in I
  PROVE  /\ Cardinality(I) \in Nat
         /\ Place(I, i) \in 1..Cardinality(I)
<1> DEFINE upTo == {j \in I : j <= i}
<1>1. upTo \in SUBSET I /\ i \in upTo
  OBVIOUS
<1>2. IsFiniteSet(upTo) /\ Cardinality(upTo) <= Cardinality(I)
  BY <1>1, FS_Subset
<1>3. Cardinality(upTo) \in Nat /\ Cardinality(upTo) # 0 /\ Cardinality(I) \in Nat
  BY <1>1, <1>2, FS_CardinalityType, FS_EmptySet
<1>. QED BY <1>2, <1>3 DEF Place

(* that grow with the position: *)
LEMMA PlaceGrows ==
  ASSUME NEW I \in SUBSET Nat, IsFiniteSet(I), NEW i \in I, NEW j \in I, i < j
  PROVE  Place(I, i) # Place(I, j)
<1> DEFINE upTo(m) == {l \in I : l <= m}
<1>1. upTo(i) \in SUBSET upTo(j) /\ j \in upTo(j) /\ j \notin upTo(i)
  <2>1. i \in Nat /\ j \in Nat
    OBVIOUS
  <2>2. \A l \in Nat : l <= i => l <= j
    BY <2>1
  <2>3. upTo(i) \subseteq upTo(j)
    BY <2>2
  <2>4. j \in upTo(j) /\ j \notin upTo(i)
    BY <2>1
  <2>. QED BY <2>3, <2>4
<1>2. IsFiniteSet(upTo(j))
  BY FS_Subset
<1>3. Cardinality(upTo(i)) # Cardinality(upTo(j))
  BY <1>1, <1>2, FS_Subset
<1>. QED BY <1>3 DEF Place

(* no two positions share one, *)
LEMMA OnePlaceEach ==
  ASSUME NEW I \in SUBSET Nat, IsFiniteSet(I), NEW i \in I, NEW j \in I,
         Place(I, i) = Place(I, j)
  PROVE  i = j
BY PlaceGrows

(* and so, as there are as many places as positions, each place is taken. *)
LEMMA EachPlaceIsTaken ==
  ASSUME NEW I \in SUBSET Nat, IsFiniteSet(I), NEW k \in 1..Cardinality(I)
  PROVE  \E i \in I : Place(I, i) = k
<1> DEFINE n == Cardinality(I)
<1> DEFINE place == [i \in I |-> Place(I, i)]
<1>1. n \in Nat
  BY FS_CardinalityType
<1>2. place \in Injection(I, 1..n)
  BY PlaceInRange, OnePlaceEach DEF Injection, IsInjective
<1>3. IsFiniteSet(1..n) /\ Cardinality(1..n) = n
  BY <1>1, FS_Interval
<1>4. place \in Surjection(I, 1..n)
  BY <1>2, <1>3, FS_Injection
<1>. QED BY <1>4 DEF Surjection

(* The item at a position stands at its place. *)
LEMMA PickedAtPlace ==
  ASSUME NEW s, NEW I \in SUBSET Nat, IsFiniteSet(I), NEW i \in I
  PROVE  Picked(s, I)[Place(I, i)] = s[i]
<1> DEFINE c == CHOOSE j \in I : Place(I, j) = Place(I, i)
<1>1. c \in I /\ Place(I, c) = Place(I, i)
  OBVIOUS
<1>2. c = i
  BY <1>1, OnePlaceEach
<1>3. Place(I, i) \in 1..Cardinality(I)
  BY PlaceInRange
<1>. QED BY <1>2, <1>3 DEF Picked

(* What Picked returns is a sequence of items of s, each from one of the positions. *)
LEMMA PickedProperties ==
  ASSUME NEW S, NEW s \in Seq(S), NEW I \in SUBSET (1..Len(s))
  PROVE  /\ IsFiniteSet(I) /\ I \in SUBSET Nat
         /\ Picked(s, I) \in Seq(S)
         /\ Len(Picked(s, I)) = Cardinality(I)
         /\ DOMAIN Picked(s, I) = 1..Cardinality(I)
         /\ \A k \in 1..Cardinality(I) : \E i \in I : Picked(s, I)[k] = s[i]
<1> DEFINE n == Cardinality(I)
<1>1. Len(s) \in Nat
  BY LenProperties
<1>2. IsFiniteSet(I) /\ I \in SUBSET Nat /\ n \in Nat
  <2>1. IsFiniteSet(1..Len(s))
    BY <1>1, FS_Interval
  <2>2. IsFiniteSet(I) /\ n \in Nat
    BY <2>1, FS_Subset, FS_CardinalityType
  <2>3. \A i \in 1..Len(s) : i \in Nat
    BY <1>1
  <2>. QED BY <2>2, <2>3
<1>3. \A k \in 1..n : \E i \in I : Picked(s, I)[k] = s[i]
  BY <1>2, EachPlaceIsTaken DEF Picked
<1>4. \A k \in 1..n : Picked(s, I)[k] \in S
  BY <1>3, ElementOfSeq
<1>5. Picked(s, I) \in [1..n -> S]
  BY <1>4 DEF Picked
<1> HIDE DEF n
<1>6. Picked(s, I) \in Seq(S)
  BY <1>2, <1>5, SeqDef
<1>7. DOMAIN Picked(s, I) = 1..n
  BY <1>5
<1>8. Len(Picked(s, I)) = n
  BY <1>2, <1>6, <1>7, LenProperties
<1>. QED BY <1>2, <1>3, <1>6, <1>7, <1>8 DEF n

(* An item behind the others that is not picked changes nothing, *)
LEMMA PickedOfAppend ==
  ASSUME NEW S, NEW s \in Seq(S), NEW x \in S, NEW I \in SUBSET (1..Len(s))
  PROVE  Picked(Append(s, x), I) = Picked(s, I)
<1>1. IsFiniteSet(I) /\ I \in SUBSET Nat
  BY PickedProperties
<1>2. \A i \in I : Append(s, x)[i] = s[i]
  BY AppendProperties
<1> DEFINE at(k) == CHOOSE i \in I : Place(I, i) = k
<1>3. \A k \in 1..Cardinality(I) : at(k) \in I
  BY <1>1, EachPlaceIsTaken
<1> HIDE DEF at
<1>4. [k \in 1..Cardinality(I) |-> Append(s, x)[at(k)]] = [k \in 1..Cardinality(I) |-> s[at(k)]]
  BY <1>2, <1>3
<1>. QED BY <1>4 DEF Picked, at

(* and one that is picked comes last. *)
LEMMA PickedAppends ==
  ASSUME NEW S, NEW s \in Seq(S), NEW x \in S, NEW I \in SUBSET (1..Len(s))
  PROVE  Picked(Append(s, x), I \cup {Len(s) + 1}) = Append(Picked(s, I), x)
<1> DEFINE t == Append(s, x)
           l == Len(s) + 1
           J == I \cup {l}
           n == Cardinality(I)
<1>1. /\ Len(s) \in Nat /\ t \in Seq(S) /\ Len(t) = l
      /\ t[l] = x /\ \A i \in 1..Len(s) : t[i] = s[i]
  BY LenProperties, AppendProperties
<1>2. IsFiniteSet(I) /\ I \in SUBSET Nat /\ l \notin I /\ n \in Nat
  BY <1>1, PickedProperties, FS_CardinalityType
<1>3. IsFiniteSet(J) /\ J \in SUBSET Nat /\ J \in SUBSET (1..l) /\ Cardinality(J) = n + 1
  <2>1. IsFiniteSet(J) /\ Cardinality(J) = n + 1
    BY <1>2, FS_AddElement
  <2>2. \A j \in J : j \in Nat /\ j \in 1..l
    BY <1>1, <1>2
  <2>. QED BY <2>1, <2>2
<1>4. \A i \in I : Place(J, i) = Place(I, i)
  <2> SUFFICES ASSUME NEW i \in I PROVE Place(J, i) = Place(I, i)
    OBVIOUS
  <2>1. {j \in J : j <= i} = {j \in I : j <= i}
    BY <1>1
  <2>. QED BY <2>1 DEF Place
<1>5. Place(J, l) = n + 1
  <2>1. \A j \in J : j <= l
    BY <1>1, <1>2
  <2>2. {j \in J : j <= l} = J
    BY <2>1
  <2>. QED BY <1>3, <2>2 DEF Place
<1>6. /\ Picked(s, I) \in Seq(S) /\ Len(Picked(s, I)) = n
      /\ Picked(t, J) \in Seq(S) /\ Len(Picked(t, J)) = n + 1
  BY <1>1, <1>3, PickedProperties
<1>7. ASSUME NEW k \in 1..n PROVE Picked(t, J)[k] = Picked(s, I)[k]
  <2>1. PICK i \in I : Place(I, i) = k
    BY <1>2, EachPlaceIsTaken
  <2>2. Picked(s, I)[k] = s[i]
    BY <1>2, <2>1, PickedAtPlace
  <2>3. Picked(t, J)[k] = t[i]
    <3>1. i \in J /\ Place(J, i) = k
      BY <1>4, <2>1
    <3> HIDE DEF J, t
    <3>. QED BY <1>3, <3>1, PickedAtPlace
  <2>. QED BY <1>1, <2>2, <2>3
<1>8. Picked(t, J)[n + 1] = x
  <2>1. l \in J
    OBVIOUS
  <2> HIDE DEF J, t, l
  <2>. QED BY <1>1, <1>3, <1>5, <2>1, PickedAtPlace
<1> DEFINE p == Picked(t, J)
           q == Picked(s, I)
<1> HIDE DEF p, q, t, J, l, n
<1>9. /\ Append(q, x) \in Seq(S) /\ Len(Append(q, x)) = n + 1
      /\ \A k \in 1..n : Append(q, x)[k] = q[k]
      /\ Append(q, x)[n + 1] = x
  BY <1>6, AppendProperties DEF q
<1>10. \A k \in 1..(n + 1) : p[k] = Append(q, x)[k]
  BY <1>2, <1>7, <1>8, <1>9 DEF p, q
<1>11. p = Append(q, x)
  BY <1>6, <1>9, <1>10, SeqEqual DEF p
<1>. QED BY <1>11 DEF p, q, t, J, l

(* The positions between two bounds pick what SubSeq returns. *)
LEMMA PickedInterval ==
  ASSUME NEW S, NEW s \in Seq(S), NEW m \in 1..(Len(s) + 1), NEW n \in (m - 1)..Len(s)
  PROVE  Picked(s, m..n) = SubSeq(s, m, n)
<1> DEFINE I == m..n
<1>1. Len(s) \in Nat /\ m \in Nat /\ n \in Nat
  BY LenProperties
<1>2. I \in SUBSET (1..Len(s)) /\ Cardinality(I) = n - m + 1
  <2>1. m \in Int /\ n \in Int /\ Cardinality(m..n) = IF m > n THEN 0 ELSE n - m + 1
    BY <1>1, FS_Interval
  <2>2. \A i \in m..n : i \in 1..Len(s)
    BY <1>1
  <2>. QED BY <1>1, <2>1, <2>2
<1>3. Picked(s, I) \in Seq(S) /\ Len(Picked(s, I)) = n - m + 1 /\ IsFiniteSet(I) /\ I \in SUBSET Nat
  BY <1>2, PickedProperties
<1>4. /\ SubSeq(s, m, n) \in Seq(S) /\ Len(SubSeq(s, m, n)) = n - m + 1
      /\ \A k \in 1..(n - m + 1) : SubSeq(s, m, n)[k] = s[m + k - 1]
  <2>1. \A i \in m..n : s[i] \in S
    BY <1>1, ElementOfSeq
  <2>. QED BY <1>1, <2>1, SubSeqProperties
<1>5. ASSUME NEW k \in 1..(n - m + 1) PROVE Picked(s, I)[k] = s[m + k - 1]
  <2> DEFINE i == m + k - 1
  <2>1. i \in I /\ i \in Nat
    BY <1>1
  <2>2. {j \in I : j <= i} = m..i
    BY <1>1, <2>1
  <2>3. Place(I, i) = k
    <3>1. Cardinality(m..i) = IF m > i THEN 0 ELSE i - m + 1
      BY <1>1, <2>1, FS_Interval
    <3>2. m <= i /\ i - m + 1 = k
      BY <1>1
    <3>3. Cardinality(m..i) = k
      BY <1>1, <3>1, <3>2
    <3> HIDE DEF i, I
    <3>4. Place(I, i) = Cardinality(m..i)
      BY <2>2, Zenon DEF Place
    <3>. QED BY <3>3, <3>4
  <2>. QED BY <1>3, <2>1, <2>3, PickedAtPlace
<1> HIDE DEF I
<1>6. Picked(s, I) = SubSeq(s, m, n)
  BY <1>1, <1>3, <1>4, <1>5, SeqEqual
<1>. QED BY <1>6 DEF I
=============================================================================
