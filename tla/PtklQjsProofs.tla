--------------------------- MODULE PtklQjsProofs ---------------------------
(***************************************************************************)
(* For every line, every memory and every set of files: a script gets its    *)
(* part of the line untouched, the allocator's books balance and its limit   *)
(* holds, main's status tells what it ran, and the program the compiler      *)
(* writes runs the files of the line, has what they import, and gives each   *)
(* module it loads a name of its own.                                       *)
(***************************************************************************)
EXTENDS PtklQjs, DataProofs

-----------------------------------------------------------------------------
(* The heap                                                                *)

BytesIn(u) == UNION {BytesOf(b, u[b]) : b \in DOMAIN u}

(* The books, and what they are kept of *)
HeapInv ==
  /\ usable \in [Live -> Nat] /\ Live \in SUBSET Blocks
  /\ malloc_limit \in Nat
  /\ IsFiniteSet(Bytes)
  /\ BlocksAccountedFor

LEMMA BytesOfBlock ==
  ASSUME NEW b, NEW n \in Nat
  PROVE  IsFiniteSet(BytesOf(b, n)) /\ Cardinality(BytesOf(b, n)) = n + Overhead
<1> DEFINE m == n + Overhead
<1>1. m \in Nat
  BY MallocAssumption
<1>2. IsFiniteSet(1..m) /\ Cardinality(1..m) = m
  BY <1>1, FS_Interval
<1>3. IsFiniteSet({b}) /\ Cardinality({b}) = 1
  BY FS_Singleton
<1> HIDE DEF m
<1>4. IsFiniteSet({b} \X (1..m)) /\ Cardinality({b} \X (1..m)) = 1 * m
  BY <1>2, <1>3, FS_Product
<1>5. 1 * m = m
  BY <1>1
<1>. QED BY <1>4, <1>5 DEF BytesOf, m

(* One block more is that many bytes more, and one less as many less. *)
LEMMA OneBlockMore ==
  ASSUME NEW u, NEW v, NEW b, NEW n \in Nat,
         b \notin DOMAIN u, DOMAIN v = DOMAIN u \cup {b}, v[b] = n,
         \A c \in DOMAIN u : v[c] = u[c],
         IsFiniteSet(BytesIn(u)) \/ IsFiniteSet(BytesIn(v))
  PROVE  /\ IsFiniteSet(BytesIn(u)) /\ IsFiniteSet(BytesIn(v))
         /\ Cardinality(BytesIn(u)) \in Nat
         /\ Cardinality(BytesIn(v)) = Cardinality(BytesIn(u)) + n + Overhead
<1> DEFINE more == BytesOf(b, n)
<1>1. BytesIn(v) = BytesIn(u) \cup more
  BY DEF BytesIn
<1>2. BytesIn(u) \cap more = {}
  <2>1. \A p \in more : p[1] = b
    BY DEF BytesOf
  <2>2. \A p \in BytesIn(u) : p[1] \in DOMAIN u
    BY DEF BytesIn, BytesOf
  <2>. QED BY <2>1, <2>2
<1>3. IsFiniteSet(more) /\ Cardinality(more) = n + Overhead
  BY BytesOfBlock
<1> HIDE DEF more
<1>4. IsFiniteSet(BytesIn(u))
  <2>1. ASSUME IsFiniteSet(BytesIn(v)) PROVE IsFiniteSet(BytesIn(u))
    <3>1. BytesIn(u) \in SUBSET BytesIn(v)
      BY <1>1
    <3>. QED BY <2>1, <3>1, FS_Subset
  <2>. QED BY <2>1
<1>5. Cardinality(BytesIn(u)) \in Nat
  BY <1>4, FS_CardinalityType
<1>6. /\ IsFiniteSet(BytesIn(u) \cup more)
      /\ Cardinality(BytesIn(u) \cup more)
           = Cardinality(BytesIn(u)) + Cardinality(more) - Cardinality(BytesIn(u) \cap more)
  BY <1>3, <1>4, FS_Union
<1>7. Cardinality(BytesIn(u) \cap more) = 0
  BY <1>2, FS_EmptySet
<1>. QED BY <1>1, <1>3, <1>4, <1>5, <1>6, <1>7, MallocAssumption

LEMMA HeapInitially == HeapInit => HeapInv
<1> SUFFICES ASSUME HeapInit PROVE HeapInv
  OBVIOUS
<1>1. Live = {} /\ usable \in [Live -> Nat]
  BY DEF HeapInit, Live
<1>2. Bytes = {}
  BY <1>1 DEF Bytes
<1>. QED BY <1>1, <1>2, FS_EmptySet, MallocAssumption DEF HeapInit, HeapInv, BlocksAccountedFor

(* What the lemmas about a step need of the state before it *)
LEMMA HeapFacts ==
  ASSUME HeapInv
  PROVE  /\ DOMAIN usable = Live /\ \A b \in Live : usable[b] \in Nat
         /\ IsFiniteSet(Live) /\ Cardinality(Live) \in Nat
         /\ IsFiniteSet(BytesIn(usable)) /\ Cardinality(BytesIn(usable)) \in Nat
         /\ malloc_count = Cardinality(Live) /\ malloc_size = Cardinality(BytesIn(usable))
<1>1. IsFiniteSet(Live)
  BY MallocAssumption, FS_Subset DEF HeapInv
<1>2. Bytes = BytesIn(usable)
  BY DEF Bytes, BytesIn, Live
<1>. QED BY <1>1, <1>2, FS_CardinalityType DEF HeapInv, BlocksAccountedFor, Live

LEMMA HeapInvFrom ==
  ASSUME usable' \in [Live' -> Nat], Live' \in SUBSET Blocks, malloc_limit' \in Nat,
         IsFiniteSet(BytesIn(usable')),
         malloc_count' = Cardinality(Live'), malloc_size' = Cardinality(BytesIn(usable'))
  PROVE  HeapInv'
BY DEF HeapInv, BlocksAccountedFor, Bytes, BytesIn, Live

LEMMA MallocStep ==
  ASSUME HeapInv, NEW size \in Requests, Malloc(size)
  PROVE  HeapInv' /\ malloc_size' <= malloc_limit + Rounding + Overhead
<1>1. PICK b \in Blocks \ Live, n \in size..(size + Rounding) :
        usable' = With(b, n) /\ malloc_size' = malloc_size + n + Overhead
  BY DEF Malloc
<1>2. size \in Nat /\ n \in Nat /\ n <= size + Rounding
  BY MallocAssumption
<1>3. /\ Live' = Live \cup {b} /\ usable'[b] = n
      /\ \A c \in Live : usable'[c] = usable[c]
      /\ usable' \in [Live' -> Nat]
  BY <1>1, <1>2, HeapFacts DEF With, Live
<1>4. /\ IsFiniteSet(BytesIn(usable'))
      /\ Cardinality(BytesIn(usable')) = Cardinality(BytesIn(usable)) + n + Overhead
  BY <1>2, <1>3, HeapFacts, OneBlockMore DEF Live
<1>5. Cardinality(Live') = Cardinality(Live) + 1
  BY <1>3, HeapFacts, FS_AddElement
<1>6. HeapInv'
  BY <1>1, <1>3, <1>4, <1>5, HeapFacts, HeapInvFrom DEF Malloc, HeapInv
<1>7. malloc_size' <= malloc_limit + Rounding + Overhead
  BY <1>1, <1>2, HeapFacts, MallocAssumption DEF Malloc, HeapInv
<1>. QED BY <1>6, <1>7

LEMMA FreeStep ==
  ASSUME HeapInv, NEW b \in Live, Free(b)
  PROVE  HeapInv' /\ malloc_size' <= malloc_size
<1>1. /\ usable' = Restrict(usable, Live \ {b})
      /\ malloc_count' = malloc_count - 1
      /\ malloc_size' = malloc_size - (usable[b] + Overhead)
      /\ malloc_limit' = malloc_limit
  BY DEF Free
<1>2. /\ Live' = Live \ {b} /\ usable' \in [Live' -> Nat]
      /\ \A c \in Live' : usable[c] = usable'[c]
  BY <1>1, HeapFacts DEF Restrict, Live
<1>3. b \notin DOMAIN usable' /\ DOMAIN usable = DOMAIN usable' \cup {b} /\ usable[b] \in Nat
  BY <1>2, HeapFacts DEF Live
<1>4. /\ IsFiniteSet(BytesIn(usable')) /\ Cardinality(BytesIn(usable')) \in Nat
      /\ Cardinality(BytesIn(usable)) = Cardinality(BytesIn(usable')) + usable[b] + Overhead
  BY <1>2, <1>3, HeapFacts, OneBlockMore DEF Live
<1>5. Cardinality(Live') = Cardinality(Live) - 1
  BY <1>2, HeapFacts, FS_RemoveElement
<1>6. malloc_size' = Cardinality(BytesIn(usable')) /\ malloc_size' <= malloc_size
  BY <1>1, <1>3, <1>4, HeapFacts, MallocAssumption
<1>7. Live' \in SUBSET Blocks
  BY <1>2 DEF HeapInv
<1>. QED BY <1>1, <1>2, <1>4, <1>5, <1>6, <1>7, HeapFacts, HeapInvFrom DEF HeapInv

(* A block that realloc moves or resizes is one block less and one more. *)
LEMMA ReallocStep ==
  ASSUME HeapInv, NEW b \in Live, NEW size \in Requests, Realloc(b, size)
  PROVE  HeapInv' /\ malloc_size' <= malloc_limit + Rounding + Overhead
<1>1. PICK c \in (Blocks \ Live) \cup {b}, n \in size..(size + Rounding) :
        /\ usable' = [d \in (Live \ {b}) \cup {c} |-> IF d = c THEN n ELSE usable[d]]
        /\ malloc_size' = malloc_size + (n - usable[b])
  BY DEF Realloc
<1>2. size \in Nat /\ n \in Nat /\ n <= size + Rounding
  BY MallocAssumption
<1> DEFINE u == [d \in Live \ {b} |-> usable[d]]
<1>3. DOMAIN u = Live \ {b} /\ \A d \in DOMAIN u : usable[d] = u[d]
  OBVIOUS
<1> HIDE DEF u
<1>4. b \notin DOMAIN u /\ DOMAIN usable = DOMAIN u \cup {b} /\ usable[b] \in Nat
  BY <1>3, HeapFacts
<1>5. /\ IsFiniteSet(BytesIn(u)) /\ Cardinality(BytesIn(u)) \in Nat
      /\ Cardinality(BytesIn(usable)) = Cardinality(BytesIn(u)) + usable[b] + Overhead
  <2>1. IsFiniteSet(BytesIn(usable))
    BY HeapFacts
  <2> DEFINE was == usable[b]
  <2>2. was \in Nat /\ usable[b] = was
    BY <1>4
  <2> HIDE DEF was
  <2>3. b \notin DOMAIN u /\ DOMAIN usable = DOMAIN u \cup {b}
    BY <1>4
  <2>4. \A d \in DOMAIN u : usable[d] = u[d]
    BY <1>3
  <2>5. /\ IsFiniteSet(BytesIn(u)) /\ Cardinality(BytesIn(u)) \in Nat
        /\ Cardinality(BytesIn(usable)) = Cardinality(BytesIn(u)) + was + Overhead
    BY Zenon, <2>1, <2>2, <2>3, <2>4, OneBlockMore
  <2>. QED BY <2>2, <2>5
<1>6. /\ c \notin DOMAIN u /\ DOMAIN usable' = DOMAIN u \cup {c} /\ usable'[c] = n
      /\ \A d \in DOMAIN u : usable'[d] = u[d]
  BY <1>1, <1>3
<1>7. /\ IsFiniteSet(BytesIn(usable'))
      /\ Cardinality(BytesIn(usable')) = Cardinality(BytesIn(u)) + n + Overhead
  BY <1>2, <1>5, <1>6, OneBlockMore
<1>8. /\ Live' = (Live \ {b}) \cup {c} /\ usable' \in [Live' -> Nat] /\ Live' \in SUBSET Blocks
  <2>1. Live' = (Live \ {b}) \cup {c}
    BY <1>1 DEF Live
  <2>2. \A d \in Live' : (IF d = c THEN n ELSE usable[d]) \in Nat
    BY <1>2, <2>1, HeapFacts
  <2>3. usable' \in [Live' -> Nat]
    BY <1>1, <2>1, <2>2
  <2>4. Live' \in SUBSET Blocks
    BY <2>1 DEF HeapInv
  <2>. QED BY <2>1, <2>3, <2>4
<1>9. Cardinality(Live') = Cardinality(Live)
  <2>1. IsFiniteSet(Live \ {b}) /\ Cardinality(Live \ {b}) = Cardinality(Live) - 1
    BY HeapFacts, FS_RemoveElement
  <2>2. Cardinality((Live \ {b}) \cup {c}) = Cardinality(Live \ {b}) + 1
    <3>1. c \notin Live \ {b}
      OBVIOUS
    <3>. QED BY <2>1, <3>1, FS_AddElement
  <2>. QED BY <1>8, <2>1, <2>2, HeapFacts
<1>10. malloc_size' = Cardinality(BytesIn(usable'))
  BY <1>1, <1>2, <1>4, <1>5, <1>7, HeapFacts, MallocAssumption
<1>11. malloc_size' <= malloc_limit + Rounding + Overhead
  BY <1>1, <1>2, <1>4, HeapFacts, MallocAssumption DEF Realloc, HeapInv
<1>12. HeapInv'
  BY <1>7, <1>8, <1>9, <1>10, HeapFacts, HeapInvFrom DEF Realloc, HeapInv
<1>. QED BY <1>11, <1>12

LEMMA LimitStep ==
  ASSUME HeapInv, NEW n \in Nat, SetLimit(n)
  PROVE  HeapInv' /\ malloc_size' = malloc_size
BY DEF HeapInv, SetLimit, BlocksAccountedFor, Bytes, Live

LEMMA HeapKept ==
  ASSUME HeapInv, UNCHANGED heap
  PROVE  HeapInv' /\ malloc_size' = malloc_size
BY DEF HeapInv, heap, BlocksAccountedFor, Bytes, Live

-----------------------------------------------------------------------------
(* The line                                                                *)

OptNames == {"expr", "module", "trace", "dump", "quit", "rejections", "bignum", "limit", "stack",
             "includes"}

(* What is read is what the line holds, and what is left of it is a line. *)
ArgsInv ==
  /\ rest \in Seq(Elements)
  /\ DOMAIN opts = OptNames
  /\ opts.includes \in Seq(Elements)
  /\ opts.limit \in Nat

LEMMA ArgsInitially == ArgsInit => ArgsInv
BY ArgsAssumption, EmptySeq DEF ArgsInit, ArgsInv, OptNames

LEMMA ArgsStep ==
  ASSUME ArgsInv, ParseArgs
  PROVE  ArgsInv'
<1>1. rest # <<>> => Head(rest) \in Elements /\ Tail(rest) \in Seq(Elements)
  BY HeadTailProperties DEF ArgsInv
<1>2. CASE NextElement
  BY <1>1, <1>2 DEF NextElement, ArgsInv
<1>3. CASE ScanEnds
  BY <1>1, <1>3 DEF ScanEnds, ArgsInv
<1>4. CASE Tell \/ Refuse \/ Lacking
  BY <1>4 DEF Tell, Refuse, Lacking, Leave, ArgsInv
<1>5. CASE TakeEval
  <2>1. rest' \in Seq(Elements)
    BY <1>1, <1>5 DEF TakeEval, ArgsInv
  <2>2. PICK e : opts' = [opts EXCEPT !.expr = e]
    BY <1>5 DEF TakeEval
  <2>. QED BY <2>1, <2>2 DEF ArgsInv, OptNames
<1>6. CASE TakeInclude
  <2>1. Append(opts.includes, Head(rest)) \in Seq(Elements)
    BY <1>1, <1>6, AppendProperties DEF TakeInclude, ArgsInv
  <2>. QED BY <1>1, <1>6, <2>1 DEF TakeInclude, ArgsInv, OptNames
<1>7. CASE TakeNumber
  BY <1>1, <1>7, ArgsAssumption DEF TakeNumber, ArgsInv, OptNames
<1>8. CASE SetFlag
  BY <1>8 DEF SetFlag, ArgsInv, OptNames
<1>. QED BY <1>2, <1>3, <1>4, <1>5, <1>6, <1>7, <1>8 DEF ParseArgs

LEMMA ArgsKept ==
  ASSUME ArgsInv, UNCHANGED args
  PROVE  ArgsInv'
BY DEF ArgsInv, args

-----------------------------------------------------------------------------
(* What main evaluates                                                     *)

(* The preamble first and nowhere else *)
Worklike(w) ==
  \/ w = <<>>
  \/ Len(w) >= 2 /\ w[1] = Std /\ \A i \in 2..Len(w) : w[i] # Std

(* e is what was evaluated of w when k of it are behind: the preamble may be missing. *)
Past(e, w, k) == e = SubSeq(w, 1, k) \/ (k >= 1 /\ e = SubSeq(w, 2, k))

Progress ==
  \E k \in 0..Len(Work) : todo = SubSeq(Work, k + 1, Len(Work)) /\ Past(evaluated, Work, k)

(* What is left and what is behind make up the work; a status is given when nothing is left, or  *)
(* for what is left first.                                                                       *)
WorkInv ==
  /\ phase \in {"args", "runtime", "configured"} => evaluated = <<>>
  /\ phase \in {"evaluate", "loop", "free", "returned"} => Progress
  /\ phase = "loop" => todo = <<>>
  /\ phase \in {"free", "returned"} => (status = 0 <=> todo = <<>>)

LEMMA WorkShape ==
  ASSUME ArgsInv
  PROVE  Worklike(Work) /\ \E S : Work \in Seq(S)
<1> DEFINE S == {Std, Repl, Expr(opts.expr)} \cup {File(e) : e \in Elements}
<1> DEFINE includes == [i \in DOMAIN opts.includes |-> File(opts.includes[i])]
<1> DEFINE own == IF opts.expr # Nothing THEN Expr(opts.expr)
                  ELSE IF rest = <<>> THEN Repl ELSE File(Head(rest))
<1>1. CASE opts.quit
  BY <1>1, EmptySeq DEF Work, Worklike
<1>2. CASE ~opts.quit
  <2>1. Work = <<Std>> \o includes \o <<own>>
    BY <1>2 DEF Work
  <2>2. includes \in Seq(S) /\ \A i \in 1..Len(includes) : includes[i] # Std
    <3>1. /\ Len(opts.includes) \in Nat /\ DOMAIN opts.includes = 1..Len(opts.includes)
          /\ \A i \in DOMAIN opts.includes : opts.includes[i] \in Elements
      BY LenProperties, ElementOfSeq DEF ArgsInv
    <3>2. includes \in [1..Len(opts.includes) -> {File(e) : e \in Elements}]
      BY <3>1
    <3>3. includes \in Seq({File(e) : e \in Elements})
      BY <3>1, <3>2, SeqDef
    <3>4. includes \in Seq(S)
      BY <3>3, SeqMonotonic
    <3>5. \A i \in 1..Len(includes) : includes[i] \in {File(e) : e \in Elements}
      BY <3>3, ElementOfSeq
    <3>. QED BY <3>4, <3>5 DEF File, Std
  <2>3. own \in S /\ own # Std
    BY HeadTailProperties DEF ArgsInv, File, Std, Expr, Repl
  <2>4. Std \in S
    OBVIOUS
  <2> HIDE DEF S, includes, own
  <2>5. <<Std>> \in Seq(S) /\ <<own>> \in Seq(S) /\ Len(<<Std>>) = 1 /\ Len(<<own>>) = 1
    BY <2>3, <2>4
  <2> DEFINE front == <<Std>> \o includes
  <2>6. /\ front \in Seq(S) /\ Len(front) = 1 + Len(includes) /\ Len(includes) \in Nat
        /\ front[1] = Std /\ \A i \in 2..Len(front) : front[i] = includes[i - 1]
    BY <2>2, <2>5, ConcatProperties, LenProperties
  <2>7. Work = front \o <<own>>
    BY <2>1
  <2> HIDE DEF front
  <2>8. /\ Work \in Seq(S) /\ Len(Work) = Len(includes) + 2
        /\ \A i \in 1..Len(Work) : Work[i] = IF i <= Len(front) THEN front[i] ELSE own
    <3>1. \A i \in 1..(Len(front) + 1) : i > Len(front) => <<own>>[i - Len(front)] = own
      BY <2>6
    <3>. QED BY <2>5, <2>6, <2>7, <3>1, ConcatProperties
  <2>9. Worklike(Work)
    <3>1. ASSUME NEW i \in 2..Len(Work) PROVE Work[i] # Std
      <4>1. CASE i <= Len(front)
        <5>1. i - 1 \in 1..Len(includes) /\ Work[i] = includes[i - 1]
          BY <2>6, <2>8, <4>1
        <5>. QED BY <2>2, <5>1
      <4>2. CASE i > Len(front)
        BY <2>3, <2>6, <2>8, <4>2
      <4>. QED BY <2>6, <2>8, <4>1, <4>2
    <3>2. Work[1] = Std
      BY <2>6, <2>8
    <3>. QED BY <2>6, <2>8, <3>1, <3>2 DEF Worklike
  <2>. QED BY <2>8, <2>9
<1>. QED BY <1>1, <1>2

(* Of what was evaluated, the named part is the named part of as much of the work. *)
LEMMA OwnOfBehind ==
  ASSUME NEW S, NEW w \in Seq(S), Worklike(w), NEW k \in 0..Len(w), NEW e, Past(e, w, k)
  PROVE  Own(e) = SubSeq(w, 2, k)
<1>1. Len(w) \in Nat /\ \A i \in 1..Len(w) : w[i] \in S
  BY LenProperties, ElementOfSeq
<1>2. CASE k >= 1 /\ e = SubSeq(w, 2, k)
  <2>1. /\ e \in Seq(S) /\ Len(e) = k - 1
        /\ \A i \in 1..(k - 1) : e[i] = w[i + 1]
    <3>1. \A i \in 2..k : w[i] \in S
      BY <1>1
    <3>. QED BY <1>1, <1>2, <3>1, SubSeqProperties
  <2>2. \A i \in 1..(k - 1) : w[i + 1] # Std
    BY <1>1, EmptySeq DEF Worklike
  <2>3. DOMAIN e = 1..Len(e)
    BY <2>1, LenProperties
  <2>4. {i \in DOMAIN e : e[i] # Std} = 1..Len(e)
    BY <2>1, <2>2, <2>3
  <2>5. Picked(e, 1..Len(e)) = SubSeq(e, 1, Len(e))
    <3>1. 1 \in 1..(Len(e) + 1) /\ Len(e) \in (1 - 1)..Len(e)
      BY <1>2, <2>1
    <3>. QED BY <2>1, <3>1, PickedInterval
  <2>. QED BY <1>2, <2>1, <2>4, <2>5, SubSeqFull DEF Own
<1>3. CASE k >= 1 /\ e = SubSeq(w, 1, k)
  <2>1. /\ e \in Seq(S) /\ Len(e) = k
        /\ \A i \in 1..k : e[i] = w[i]
    <3>1. \A i \in 1..k : w[i] \in S
      BY <1>1
    <3>. QED BY <1>1, <1>3, <3>1, SubSeqProperties
  <2>2. w[1] = Std /\ \A i \in 2..k : w[i] # Std
    BY <1>1, <1>3, EmptySeq DEF Worklike
  <2>3. DOMAIN e = 1..k
    BY <2>1, LenProperties
  <2>4. {i \in DOMAIN e : e[i] # Std} = 2..k
    BY <1>3, <2>1, <2>2, <2>3
  <2>5. Picked(e, 2..k) = SubSeq(e, 2, k)
    <3>1. 2 \in 1..(Len(e) + 1) /\ k \in (2 - 1)..Len(e)
      BY <1>3, <2>1
    <3>. QED BY <2>1, <3>1, PickedInterval
  <2>6. SubSeq(e, 2, k) = SubSeq(w, 2, k)
    <3>1. \A i \in 2..k : w[i] \in S /\ e[i] \in S
      BY <1>1, <2>1
    <3>2. /\ SubSeq(e, 2, k) \in Seq(S) /\ SubSeq(w, 2, k) \in Seq(S)
          /\ Len(SubSeq(e, 2, k)) = k - 1 /\ Len(SubSeq(w, 2, k)) = k - 1
          /\ \A i \in 1..(k - 1) : SubSeq(e, 2, k)[i] = e[2 + i - 1]
          /\ \A i \in 1..(k - 1) : SubSeq(w, 2, k)[i] = w[2 + i - 1]
      BY <1>1, <1>3, <3>1, SubSeqProperties
    <3>3. \A i \in 1..(k - 1) : e[2 + i - 1] = w[2 + i - 1]
      BY <1>1, <2>1
    <3>. QED BY <1>3, <3>2, <3>3, SeqEqual
  <2>. QED BY <2>4, <2>5, <2>6 DEF Own
<1>4. CASE k = 0
  <2>1. e = <<>> /\ SubSeq(w, 2, k) = <<>>
    <3>1. SubSeq(w, 1, 0) = <<>> /\ SubSeq(w, 2, 0) = <<>>
      BY SubSeqEmpty
    <3>. QED BY <1>4, <3>1 DEF Past
  <2>2. <<>> \in Seq(S) /\ Len(<<>>) = 0 /\ DOMAIN <<>> = 1..0
    <3>1. <<>> \in Seq(S) /\ Len(<<>>) = 0
      BY EmptySeq
    <3>. QED BY <3>1, LenProperties
  <2>3. {i \in DOMAIN e : e[i] # Std} = 1..0
    BY <2>1, <2>2
  <2>4. Picked(<<>>, 1..0) = SubSeq(<<>>, 1, 0)
    <3>1. 1 \in 1..(Len(<<>>) + 1) /\ 0 \in (1 - 1)..Len(<<>>)
      BY <2>2
    <3>. QED BY <2>2, <3>1, PickedInterval
  <2>. QED BY <2>1, <2>3, <2>4, SubSeqEmpty DEF Own
<1>. QED BY <1>2, <1>3, <1>4 DEF Past

-----------------------------------------------------------------------------
(* The script's part of the line                                           *)

(* What the first k letters of a cluster use up *)
Used(text, k) == Cardinality({i \in 1..k : TakesNext(text, i)})

(* left is what is unread of el, after its options so far have used up as many elements. *)
Reading(el, used) ==
  /\ left.kind = el.kind
  /\ el.kind = "short" =>
       \E k \in 0..(Len(el.text) - 1) :
         /\ left.text = SubSeq(el.text, k + 1, Len(el.text))
         /\ used = Used(el.text, k)
         /\ \A j \in 1..k : el.text[j] # "e"
  /\ el.kind # "short" => left = el /\ used = 0

RestIs(p) == p \in 1..(Len(line) + 1) /\ rest = SubSeq(line, p, Len(line))

(* n options of the line are behind. *)
BetweenOptions(n) == n < After[n] /\ RestIs(After[n])

InOption(n) ==
  /\ n < After[n] /\ OptionAt(After[n])
  /\ \E used \in Nat : RestIs(After[n] + 1 + used) /\ Reading(line[After[n]], used)

LineInv ==
  /\ line \in Seq(Elements)
  /\ reading = "elements" => \E n \in 0..Len(line) : BetweenOptions(n)
  /\ reading = "option" => \E n \in 0..(Len(line) - 1) : InOption(n)
  /\ ScriptGetsItsLine

(* Where the script's part begins depends on the line, which stays. *)
LEMMA SameLine ==
  ASSUME line' = line
  PROVE  /\ After' = After /\ ScriptFrom' = ScriptFrom
         /\ \A i : OptionAt(i)' <=> OptionAt(i)
<1>1. After' = After
  BY Zenon DEF After, OptionAt
<1>. QED BY <1>1 DEF ScriptFrom, OptionAt

LEMMA UsedProperties ==
  ASSUME NEW text \in Seq(STRING), NEW k \in 0..Len(text)
  PROVE  /\ Used(text, k) \in Nat
         /\ Used(text, 0) = 0
         /\ k < Len(text) => Used(text, k + 1) = IF TakesNext(text, k + 1) THEN Used(text, k) + 1 ELSE Used(text, k)
<1> DEFINE taking(m) == {i \in 1..m : TakesNext(text, i)}
<1>1. Len(text) \in Nat /\ k \in Nat
  BY LenProperties
<1>2. IsFiniteSet(taking(k)) /\ Cardinality(taking(k)) \in Nat
  <2>1. IsFiniteSet(1..k)
    BY <1>1, FS_Interval
  <2>2. taking(k) \in SUBSET (1..k)
    OBVIOUS
  <2> HIDE DEF taking
  <2>. QED BY <2>1, <2>2, FS_Subset, FS_CardinalityType
<1>3. taking(0) = {}
  OBVIOUS
<1>4. k + 1 \notin taking(k)
  BY <1>1
<1>5. taking(k + 1) = IF TakesNext(text, k + 1) THEN taking(k) \cup {k + 1} ELSE taking(k)
  <2>1. 1..(k + 1) = (1..k) \cup {k + 1}
    BY <1>1
  <2>. QED BY <2>1
<1>6. Used(text, k) = Cardinality(taking(k)) /\ Used(text, 0) = Cardinality(taking(0))
      /\ Used(text, k + 1) = Cardinality(taking(k + 1))
  BY DEF Used
<1> HIDE DEF taking
<1>7. Used(text, 0) = 0
  BY <1>3, <1>6, FS_EmptySet
<1>8. CASE TakesNext(text, k + 1)
  <2>1. Cardinality(taking(k) \cup {k + 1}) = Cardinality(taking(k)) + 1
    BY <1>2, <1>4, FS_AddElement
  <2>. QED BY <1>2, <1>5, <1>6, <1>7, <1>8, <2>1
<1>9. CASE ~TakesNext(text, k + 1)
  BY <1>2, <1>5, <1>6, <1>7, <1>9
<1>. QED BY <1>8, <1>9

(* Behind an "e" that has letters to take, nothing is read. *)
LEMMA UsedUpToEval ==
  ASSUME NEW text \in Seq(STRING), NEW k \in 0..(Len(text) - 1),
         text[k + 1] = "e", k + 1 # Len(text)
  PROVE  Used(text, Len(text)) = Used(text, k)
<1>1. Len(text) \in Nat
  BY LenProperties
<1>2. ASSUME NEW i \in 1..Len(text), TakesNext(text, i) PROVE i \in 1..k
  <2>1. i # k + 1
    <3>1. ("e" = "I") = FALSE
      OBVIOUS
    <3>. QED BY <1>2, <3>1 DEF TakesNext
  <2>2. ~(k + 1 < i)
    <3>1. k + 1 < i => k + 1 \in 1..(i - 1)
      BY <1>1
    <3>. QED BY <1>2, <3>1 DEF TakesNext
  <2>. QED BY <1>1, <2>1, <2>2
<1>3. 1..k \subseteq 1..Len(text)
  BY <1>1
<1>4. {i \in 1..Len(text) : TakesNext(text, i)} = {i \in 1..k : TakesNext(text, i)}
  BY <1>2, <1>3
<1>. QED BY <1>4 DEF Used

LEMMA WantsIsNatural ==
  ASSUME NEW el \in Elements
  PROVE  Wants(el) \in Nat
<1>1. CASE el.kind = "short"
  <2>1. el.text \in Seq(STRING)
    BY <1>1, ArgsAssumption
  <2>2. Len(el.text) \in 0..Len(el.text)
    BY <2>1, LenProperties
  <2>3. Used(el.text, Len(el.text)) \in Nat
    BY <2>1, <2>2, UsedProperties
  <2>. QED BY <1>1, <2>3 DEF Wants, Used
<1>2. CASE el.kind # "short"
  BY <1>2 DEF Wants
<1>. QED BY <1>1, <1>2

LEMMA AfterIs ==
  ASSUME line \in Seq(Elements)
  PROVE  /\ After[0] = 1 /\ \A n \in 0..Len(line) : After[n] \in Nat
         /\ \A n \in 0..(Len(line) - 1) :
              After[n + 1] = IF OptionAt(After[n]) THEN After[n] + 1 + Wants(line[After[n]])
                             ELSE After[n]
<1> DEFINE N == Len(line)
           onward(x) == IF OptionAt(x) THEN x + 1 + Wants(line[x]) ELSE x
           X == Nat \ {0}
           step == [i \in 1..N |-> [x \in X |-> onward(x)]]
<1>1. N \in Nat /\ 1 \in X
  BY LenProperties
<1>2. \A x \in X : onward(x) \in X
  <2> SUFFICES ASSUME NEW x \in X, OptionAt(x) PROVE x + 1 + Wants(line[x]) \in X
    OBVIOUS
  <2>1. x \in 1..Len(line)
    BY <1>1 DEF OptionAt
  <2>2. Wants(line[x]) \in Nat
    BY <2>1, ElementOfSeq, WantsIsNatural
  <2>. QED BY <2>2
<1>3. step \in StepsOver(N, X)
  <2> HIDE DEF onward, N, X
  <2>. QED BY <1>2 DEF StepsOver
<1>4. PICK f : Iterates(f, 1, step, N, X)
  <2> HIDE DEF N, X, step
  <2>. QED BY <1>1, <1>3, Recursion
<1>5. \A i \in 1..N : step[i][f[i - 1]] = onward(f[i - 1])
  <2>1. \A i \in 1..N : f[i - 1] \in X
    <3> HIDE DEF X, N, step
    <3>. QED BY <1>1, <1>4 DEF Iterates
  <2> HIDE DEF onward, X
  <2>. QED BY <2>1
<1>6. f = [i \in 0..N |-> IF i = 0 THEN 1
                          ELSE IF OptionAt(f[i - 1]) THEN f[i - 1] + 1 + Wants(line[f[i - 1]])
                          ELSE f[i - 1]]
  <2> HIDE DEF step, X, N
  <2>1. \A i \in 0..N : i # 0 => i \in 1..N
    BY <1>1
  <2>2. \A i \in 0..N : f[i] = IF i = 0 THEN 1
                               ELSE IF OptionAt(f[i - 1]) THEN f[i - 1] + 1 + Wants(line[f[i - 1]])
                               ELSE f[i - 1]
    BY <1>4, <1>5, <2>1 DEF Iterates
  <2>. QED BY <1>4, <2>2 DEF Iterates
<1> DEFINE after == After
<1>7. after = [i \in 0..N |-> IF i = 0 THEN 1
                              ELSE IF OptionAt(after[i - 1]) THEN after[i - 1] + 1 + Wants(line[after[i - 1]])
                              ELSE after[i - 1]]
  BY <1>6 DEF After
<1> HIDE DEF after, N
<1>8. ASSUME NEW i \in 0..N
      PROVE  after[i] = IF i = 0 THEN 1
                        ELSE IF OptionAt(after[i - 1]) THEN after[i - 1] + 1 + Wants(line[after[i - 1]])
                        ELSE after[i - 1]
  BY <1>7
<1>9. 0 \in 0..N /\ \A i \in 0..(N - 1) : i \in 0..N /\ i + 1 \in 0..N /\ i + 1 # 0 /\ (i + 1) - 1 = i
  BY <1>1
<1>10. after[0] = 1 /\ \A i \in 0..(N - 1) : after[i + 1] = onward(after[i])
  BY <1>8, <1>9
<1>11. \A i \in 0..N : after[i] \in X
  <2> DEFINE S == {i \in 0..N : after[i] \in X}
  <2>1. 0 \in S
    BY <1>1, <1>9, <1>10
  <2>2. \A i \in 0..(N - 1) : i \in S => i + 1 \in S
    <3> HIDE DEF X, onward
    <3>. QED BY <1>2, <1>9, <1>10
  <2>3. 0..N \subseteq S
    <3> HIDE DEF S
    <3>. QED BY <1>1, <2>1, <2>2, Counting
  <2>. QED BY <2>3
<1>. QED BY <1>10, <1>11 DEF after, N

(* Once the options are behind, nothing more is skipped. *)
LEMMA AfterStays ==
  ASSUME line \in Seq(Elements), NEW n \in 0..Len(line), ~OptionAt(After[n])
  PROVE  After[Len(line)] = After[n]
<1> DEFINE N == Len(line) - n
           S == {m \in 0..N : After[n + m] = After[n]}
<1>1. Len(line) \in Nat /\ N \in Nat
  BY LenProperties
<1>2. 0 \in S
  BY <1>1
<1>3. ASSUME NEW m \in 0..(N - 1), m \in S PROVE m + 1 \in S
  <2>1. n + m \in 0..(Len(line) - 1) /\ n + (m + 1) = (n + m) + 1 /\ m + 1 \in 0..N
    BY <1>1
  <2>2. After[(n + m) + 1] = After[n]
    BY <1>3, <2>1, AfterIs
  <2>. QED BY <2>1, <2>2
<1>4. 0..N \subseteq S
  <2> HIDE DEF S, N
  <2>. QED BY <1>1, <1>2, <1>3, Counting
<1>5. N \in 0..N /\ n + N = Len(line)
  BY <1>1
<1>6. After[n + N] = After[n]
  BY <1>4, <1>5
<1>. QED BY <1>5, <1>6

LEMMA RestAt ==
  ASSUME line \in Seq(Elements), NEW p, RestIs(p)
  PROVE  /\ Len(line) \in Nat /\ p \in Nat
         /\ rest = <<>> <=> p = Len(line) + 1
         /\ rest # <<>> =>
              /\ p \in 1..Len(line) /\ Head(rest) = line[p] /\ line[p] \in Elements
              /\ p + 1 \in 1..(Len(line) + 1) /\ Tail(rest) = SubSeq(line, p + 1, Len(line))
<1>1. Len(line) \in Nat /\ p \in 1..(Len(line) + 1) /\ rest = SubSeq(line, p, Len(line))
  BY LenProperties DEF RestIs
<1> DEFINE k == p - 1
<1>2. k \in 0..Len(line) /\ k + 1 = p /\ k + 2 = p + 1
  BY <1>1
<1> HIDE DEF k
<1>3. rest = <<>> <=> k = Len(line)
  BY <1>1, <1>2, NothingFurther
<1>4. ASSUME rest # <<>>
      PROVE  /\ p \in 1..Len(line) /\ Head(rest) = line[p] /\ line[p] \in Elements
             /\ p + 1 \in 1..(Len(line) + 1) /\ Tail(rest) = SubSeq(line, p + 1, Len(line))
  <2>1. k \in 0..(Len(line) - 1)
    BY <1>1, <1>2, <1>3, <1>4
  <2>2. Head(rest) = line[p] /\ Tail(rest) = SubSeq(line, p + 1, Len(line))
    BY <1>1, <1>2, <2>1, OneFurther
  <2>3. p \in 1..Len(line) /\ p + 1 \in 1..(Len(line) + 1)
    BY <1>1, <1>2, <2>1
  <2>. QED BY <2>2, <2>3, ElementOfSeq
<1>. QED BY <1>1, <1>2, <1>3, <1>4

(* An element that is read whole is behind, with what it used up. *)
LEMMA ElementDone ==
  ASSUME line \in Seq(Elements), line' = line,
         NEW n \in 0..(Len(line) - 1), n < After[n], OptionAt(After[n]),
         NEW used \in Nat, used = Wants(line[After[n]]),
         After[n] + 1 + used \in 1..(Len(line) + 1),
         rest' = SubSeq(line, After[n] + 1 + used, Len(line)), reading' = "elements"
  PROVE  LineInv'
<1>1. Len(line) \in Nat /\ n \in 0..Len(line)
  BY LenProperties
<1>2. n + 1 \in 0..Len(line) /\ After[n] \in Nat
  BY <1>1, AfterIs
<1>3. After[n + 1] = After[n] + 1 + used
  BY AfterIs
<1>4. n + 1 < After[n + 1]
  BY <1>1, <1>2, <1>3
<1>5. BetweenOptions(n + 1)'
  BY <1>3, <1>4, SameLine DEF BetweenOptions, RestIs
<1>. QED BY <1>2, <1>5 DEF LineInv, ScriptGetsItsLine

LEMMA LetterWithin ==
  ASSUME NEW m \in Nat, NEW k \in 0..(m - 1)
  PROVE  k \in Nat /\ k + 1 <= m /\ k + 1 \in 0..m /\ (k + 1) + 1 = k + 2
OBVIOUS

LEMMA NextLetter ==
  ASSUME NEW k \in Nat, NEW m \in Nat, k + 1 <= m, k + 1 # m
  PROVE  k + 1 \in 0..(m - 1) /\ (k + 1) + 1 = k + 2
OBVIOUS

(* A letter that is not "e" is behind: the next one is read, or the next element. *)
LEMMA LetterDone ==
  ASSUME line \in Seq(Elements), line' = line,
         NEW n \in 0..(Len(line) - 1), n < After[n], OptionAt(After[n]),
         NEW el \in Elements, el = line[After[n]], el.kind = "short", left.kind = "short",
         NEW k \in 0..(Len(el.text) - 1), left.text = SubSeq(el.text, k + 1, Len(el.text)),
         \A j \in 1..(k + 1) : el.text[j] # "e",
         NEW used \in Nat, used = Used(el.text, k + 1),
         After[n] + 1 + used \in 1..(Len(line) + 1),
         rest' = SubSeq(line, After[n] + 1 + used, Len(line)), reading = "option", GoOn
  PROVE  LineInv'
<1>1. el.text \in Seq(STRING) /\ Len(el.text) \in Nat
  BY ArgsAssumption, LenProperties
<1>2. Behind = SubSeq(el.text, k + 2, Len(el.text))
  BY <1>1, OneFurther DEF Behind
<1>3. Behind = <<>> <=> k + 1 = Len(el.text)
  <2>1. k + 1 \in 0..Len(el.text) /\ (k + 1) + 1 = k + 2
    BY <1>1, LetterWithin, Zenon
  <2>. QED BY <1>1, <1>2, <2>1, NothingFurther
<1>4. CASE Behind = <<>>
  <2>1. reading' = "elements"
    BY <1>4 DEF GoOn
  <2>2. used = Wants(line[After[n]])
    BY <1>3, <1>4 DEF Wants, Used
  <2>. QED BY <2>1, <2>2, ElementDone
<1>5. CASE Behind # <<>>
  <2>1. reading' = "option" /\ left' = Cluster(Behind)
    BY <1>5 DEF GoOn
  <2>2. k + 1 \in 0..(Len(el.text) - 1) /\ (k + 1) + 1 = k + 2
    <3>1. k \in Nat /\ k + 1 <= Len(el.text)
      BY <1>1, LetterWithin, Zenon
    <3>2. k + 1 # Len(el.text)
      BY <1>3, <1>5, Zenon
    <3>3. PICK m \in Nat : m = Len(el.text)
      BY <1>1
    <3>4. k + 1 \in 0..(m - 1) /\ (k + 1) + 1 = k + 2
      BY <3>1, <3>2, <3>3, NextLetter, Zenon
    <3>. QED BY <3>3, <3>4
  <2>3. left'.kind = el.kind /\ left'.text = SubSeq(el.text, (k + 1) + 1, Len(el.text))
    BY <1>2, <2>1, <2>2 DEF Cluster
  <2>4. Reading(el, used)'
    BY <2>2, <2>3 DEF Reading
  <2>5. RestIs(After[n] + 1 + used)'
    BY SameLine DEF RestIs
  <2>6. InOption(n)'
    BY <2>4, <2>5, SameLine DEF InOption
  <2>. QED BY <2>1, <2>6 DEF LineInv, ScriptGetsItsLine
<1>. QED BY <1>4, <1>5

(* Which options take something *)
LEMMA ShortNames ==
  ASSUME left.kind = "short"
  PROVE  /\ Named = "eval" <=> Head(left.text) = "e"
         /\ Named = "include" <=> Head(left.text) = "I"
         /\ Named \notin {"memory-limit", "stack-size"}
BY DEF Named, Letters

LEMMA LongNames ==
  ASSUME left.kind = "long"
  PROVE  /\ Named \in {"eval", "include", "memory-limit", "stack-size"} <=>
              left.text[1] \in {"eval", "include", "memory-limit", "stack-size"}
         /\ Behind = <<>>
<1>1. Letters["e"] = "eval" /\ Letters["I"] = "include" /\ "e" \in DOMAIN Letters /\ "I" \in DOMAIN Letters
  BY DEF Letters
<1>2. {"eval", "include", "memory-limit", "stack-size"} \subseteq Known
  BY <1>1 DEF Known, LongOnly
<1>3. Named = IF left.text[1] \in Known THEN left.text[1] ELSE "unknown"
  BY DEF Named
<1>. QED BY <1>2, <1>3 DEF Behind

LEMMA NextElementLine == ASSUME LineInv, NextElement PROVE LineInv'
<1>1. /\ reading = "elements" /\ rest # <<>> /\ Head(rest).kind \in {"short", "long"}
      /\ reading' = "option" /\ left' = Head(rest) /\ rest' = Tail(rest) /\ line' = line
      /\ line \in Seq(Elements)
  BY DEF NextElement, LineInv
<1>2. PICK n \in 0..Len(line) : BetweenOptions(n)
  BY <1>1 DEF LineInv
<1>q. PICK q : q = After[n]
  OBVIOUS
<1>3. n < q /\ RestIs(q)
  BY <1>2, <1>q DEF BetweenOptions
<1>4. /\ Len(line) \in Nat /\ q \in 1..Len(line) /\ Head(rest) = line[q] /\ line[q] \in Elements
      /\ q + 1 \in 1..(Len(line) + 1) /\ Tail(rest) = SubSeq(line, q + 1, Len(line))
  BY <1>1, <1>3, RestAt
<1>5. OptionAt(q) /\ n \in 0..(Len(line) - 1)
  BY <1>1, <1>3, <1>4 DEF OptionAt
<1>6. RestIs(q + 1 + 0)'
  <2>1. q + 1 + 0 = q + 1
    BY <1>4
  <2>. QED BY <1>1, <1>4, <2>1 DEF RestIs
<1>7. PICK el : el = line[q]
  OBVIOUS
<1>8. Reading(el, 0)'
  <2>1. left' = el /\ left'.kind = el.kind /\ el \in Elements
    BY <1>1, <1>4, <1>7
  <2>2. ASSUME el.kind = "short"
        PROVE  \E k \in 0..(Len(el.text) - 1) :
                 /\ left'.text = SubSeq(el.text, k + 1, Len(el.text))
                 /\ 0 = Used(el.text, k) /\ \A j \in 1..k : el.text[j] # "e"
    <3>1. el.text \in Seq(STRING) /\ el.text # <<>>
      BY <2>1, <2>2, ArgsAssumption
    <3>2. Len(el.text) \in Nat /\ Len(el.text) # 0
      BY <3>1, LenProperties, EmptySeq
    <3>3. SubSeq(el.text, 0 + 1, Len(el.text)) = el.text
      BY <3>1, SubSeqFull
    <3>4. 0 \in 0..Len(el.text) /\ 0 \in 0..(Len(el.text) - 1)
      BY <3>2
    <3>5. Used(el.text, 0) = 0
      BY <3>1, <3>4, UsedProperties
    <3>6. \A j \in 1..0 : el.text[j] # "e"
      OBVIOUS
    <3>. QED BY <2>1, <3>3, <3>4, <3>5, <3>6
  <2>. QED BY <2>1, <2>2 DEF Reading
<1>9. InOption(n)'
  BY <1>1, <1>3, <1>5, <1>6, <1>7, <1>8, <1>q, SameLine DEF InOption
<1>. QED BY <1>1, <1>5, <1>9 DEF LineInv, ScriptGetsItsLine

LEMMA ScanEndsLine == ASSUME LineInv, ScanEnds PROVE LineInv'
<1>0. reading = "elements" /\ line \in Seq(Elements)
  BY DEF ScanEnds, LineInv
<1>1. /\ rest # <<>> => Head(rest).kind \in {"word", "dash", "end"}
      /\ rest' = IF rest # <<>> /\ Head(rest) = Stop THEN Tail(rest) ELSE rest
      /\ reading' = "parsed" /\ line' = line
  BY DEF ScanEnds
<1>2. PICK n \in 0..Len(line) : BetweenOptions(n)
  BY <1>0 DEF LineInv
<1>p. PICK p : p = After[n]
  OBVIOUS
<1>3. RestIs(p) /\ rest = SubSeq(line, p, Len(line))
  BY <1>2, <1>p DEF BetweenOptions, RestIs
<1>4. /\ Len(line) \in Nat /\ p \in Nat /\ (rest = <<>> <=> p = Len(line) + 1)
      /\ rest # <<>> => p \in 1..Len(line) /\ Head(rest) = line[p]
                        /\ Tail(rest) = SubSeq(line, p + 1, Len(line))
  BY <1>0, <1>3, RestAt
<1>5. rest # <<>> <=> p <= Len(line)
  BY <1>3, <1>4 DEF RestIs
<1>6. ~OptionAt(p)
  <2> SUFFICES ASSUME p <= Len(line) PROVE line[p].kind \notin {"short", "long"}
    BY DEF OptionAt
  <2>1. line[p] = Head(rest) /\ Head(rest).kind \in {"word", "dash", "end"}
    BY <1>1, <1>4, <1>5
  <2>. QED BY <2>1
<1>7. After[Len(line)] = p
  BY <1>0, <1>6, <1>p, AfterStays
<1>8. ScriptFrom = IF rest # <<>> /\ Head(rest) = Stop THEN p + 1 ELSE p
  BY <1>4, <1>5, <1>7 DEF ScriptFrom
<1>9. rest' = SubSeq(line, ScriptFrom, Len(line))
  BY <1>1, <1>3, <1>4, <1>8
<1>. QED BY <1>0, <1>1, <1>9, SameLine DEF LineInv, ScriptGetsItsLine

(* What every option finds *)
LEMMA AtOption ==
  ASSUME LineInv, reading = "option"
  PROVE  \E n \in 0..(Len(line) - 1) : \E used \in Nat :
           /\ n < After[n] /\ OptionAt(After[n]) /\ After[n] \in Nat /\ Len(line) \in Nat
           /\ line[After[n]] \in Elements
           /\ RestIs(After[n] + 1 + used) /\ Reading(line[After[n]], used)
<1>1. line \in Seq(Elements) /\ Len(line) \in Nat
  BY LenProperties DEF LineInv
<1>2. PICK n \in 0..(Len(line) - 1) : InOption(n)
  BY DEF LineInv
<1>3. n \in 0..Len(line)
  BY <1>1
<1>4. After[n] \in Nat
  BY <1>1, <1>3, AfterIs
<1>5. After[n] \in 1..Len(line)
  BY <1>1, <1>2, <1>4 DEF InOption, OptionAt
<1>. QED BY <1>1, <1>2, <1>4, <1>5, ElementOfSeq DEF InOption

(* An option that takes c elements, and leaves what is behind it in its element to be read *)
LEMMA OptionLine ==
  ASSUME LineInv, reading = "option", line' = line, GoOn, Named # "eval",
         NEW c \in {0, 1},
         c = (IF Named \in {"include", "memory-limit", "stack-size"} THEN 1 ELSE 0),
         c = 1 => rest # <<>> /\ rest' = Tail(rest),
         c = 0 => rest' = rest
  PROVE  LineInv'
<1>0. line \in Seq(Elements)
  BY DEF LineInv
<1>1. PICK n \in 0..(Len(line) - 1), u \in Nat :
        /\ n < After[n] /\ OptionAt(After[n]) /\ After[n] \in Nat /\ Len(line) \in Nat
        /\ line[After[n]] \in Elements
        /\ RestIs(After[n] + 1 + u) /\ Reading(line[After[n]], u)
  BY AtOption
<1>2. PICK el : el = line[After[n]]
  OBVIOUS
<1>3. PICK q : q = After[n]
  OBVIOUS
<1>4. /\ q + 1 + (u + c) \in 1..(Len(line) + 1) /\ u + c \in Nat
      /\ rest' = SubSeq(line, q + 1 + (u + c), Len(line))
  <2>0. q \in Nat /\ u \in Nat /\ RestIs(q + 1 + u) /\ c \in {0, 1}
    BY <1>1, <1>3
  <2>1. CASE c = 0
    <3>1. u + c = u
      BY <2>0, <2>1
    <3>. QED BY <2>0, <2>1, <3>1 DEF RestIs
  <2>2. CASE c = 1
    <3>1. /\ (q + 1 + u) + 1 \in 1..(Len(line) + 1)
          /\ Tail(rest) = SubSeq(line, (q + 1 + u) + 1, Len(line))
      BY <1>0, <1>1, <1>3, <2>2, RestAt
    <3>2. (q + 1 + u) + 1 = q + 1 + (u + c)
      BY <2>0, <2>2
    <3>3. rest' = SubSeq(line, q + 1 + (u + c), Len(line))
      BY <2>2, <3>1, <3>2
    <3>4. q + 1 + (u + c) \in 1..(Len(line) + 1) /\ u + c \in Nat
      BY <2>0, <3>1, <3>2
    <3>. QED BY <3>3, <3>4
  <2>. QED BY <2>1, <2>2
<1>5. CASE el.kind = "short"
  <2>1. PICK k \in 0..(Len(el.text) - 1) :
          /\ left.text = SubSeq(el.text, k + 1, Len(el.text)) /\ u = Used(el.text, k)
          /\ \A j \in 1..k : el.text[j] # "e"
    BY <1>1, <1>2, <1>5 DEF Reading
  <2>2. left.kind = "short"
    BY <1>1, <1>2, <1>5 DEF Reading
  <2>3. el \in Elements /\ el.text \in Seq(STRING) /\ Len(el.text) \in Nat
    BY <1>1, <1>2, <1>5, ArgsAssumption, LenProperties
  <2>4. Head(left.text) = el.text[k + 1]
    BY <2>1, <2>3, OneFurther
  <2>5. el.text[k + 1] # "e"
    BY <2>2, <2>4, ShortNames
  <2>6. \A j \in 1..(k + 1) : el.text[j] # "e"
    <3>1. \A j \in 1..(k + 1) : j \in 1..k \/ j = k + 1
      BY <2>3
    <3>. QED BY <2>1, <2>5, <3>1
  <2>7. c = 1 <=> el.text[k + 1] = "I"
    BY <2>2, <2>4, ShortNames
  <2>8. TakesNext(el.text, k + 1) <=> c = 1
    <3>1. \A j \in 1..((k + 1) - 1) : el.text[j] # "e"
      BY <2>3, <2>6
    <3>. QED BY <2>5, <2>7, <3>1 DEF TakesNext
  <2>9. u + c = Used(el.text, k + 1)
    <3>1. k \in 0..Len(el.text) /\ k < Len(el.text)
      BY <2>3
    <3>2. Used(el.text, k + 1) = IF TakesNext(el.text, k + 1) THEN u + 1 ELSE u
      BY <2>1, <2>3, <3>1, UsedProperties
    <3>. QED BY <1>1, <2>8, <3>2
  <2>. QED BY <1>0, <1>1, <1>2, <1>3, <1>4, <1>5, <2>1, <2>2, <2>3, <2>6, <2>9, LetterDone
<1>6. CASE el.kind # "short"
  <2>1. left = el /\ u = 0 /\ el.kind = "long"
    BY <1>1, <1>2, <1>6 DEF Reading, OptionAt
  <2>2. Behind = <<>> /\ c = Wants(el)
    BY <2>1, LongNames DEF Wants
  <2>3. reading' = "elements"
    BY <2>2 DEF GoOn
  <2>4. u + c = Wants(line[After[n]])
    BY <1>1, <1>2, <2>1, <2>2
  <2>. QED BY <1>0, <1>1, <1>3, <1>4, <2>3, <2>4, ElementDone
<1>. QED BY <1>5, <1>6

(* -e takes the rest of its cluster, or the next element: nothing else of its element is read. *)
LEMMA TakeEvalLine == ASSUME LineInv, TakeEval PROVE LineInv'
<1>0. /\ line \in Seq(Elements) /\ reading = "option" /\ Named = "eval"
      /\ Behind # <<>> \/ rest # <<>>
      /\ rest' = IF Behind # <<>> THEN rest ELSE Tail(rest)
      /\ reading' = "elements" /\ line' = line
  BY DEF LineInv, TakeEval, Option
<1>1. PICK n \in 0..(Len(line) - 1), u \in Nat :
        /\ n < After[n] /\ OptionAt(After[n]) /\ After[n] \in Nat /\ Len(line) \in Nat
        /\ line[After[n]] \in Elements
        /\ RestIs(After[n] + 1 + u) /\ Reading(line[After[n]], u)
  BY <1>0, AtOption
<1>2. PICK el : el = line[After[n]]
  OBVIOUS
<1>3. PICK q : q = After[n]
  OBVIOUS
<1>4. PICK c : c = IF Behind # <<>> THEN 0 ELSE 1
  OBVIOUS
<1>5. /\ q + 1 + (u + c) \in 1..(Len(line) + 1) /\ u + c \in Nat
      /\ rest' = SubSeq(line, q + 1 + (u + c), Len(line))
  <2>0. q \in Nat /\ u \in Nat /\ RestIs(q + 1 + u) /\ c \in {0, 1}
    BY <1>1, <1>3, <1>4
  <2>1. CASE Behind # <<>>
    <3>1. u + c = u /\ rest' = rest
      BY <1>0, <1>4, <2>0, <2>1
    <3>. QED BY <2>0, <3>1 DEF RestIs
  <2>2. CASE Behind = <<>>
    <3>1. /\ (q + 1 + u) + 1 \in 1..(Len(line) + 1)
          /\ Tail(rest) = SubSeq(line, (q + 1 + u) + 1, Len(line))
      BY <1>0, <1>1, <1>3, <2>2, RestAt
    <3>2. (q + 1 + u) + 1 = q + 1 + (u + c)
      BY <1>4, <2>0, <2>2
    <3>. QED BY <1>0, <1>4, <2>0, <2>2, <3>1, <3>2
  <2>. QED BY <2>1, <2>2
<1>6. u + c = Wants(el)
  <2>1. CASE el.kind = "short"
    <3>1. PICK k \in 0..(Len(el.text) - 1) :
            /\ left.text = SubSeq(el.text, k + 1, Len(el.text)) /\ u = Used(el.text, k)
            /\ \A j \in 1..k : el.text[j] # "e"
      BY <1>1, <1>2, <2>1 DEF Reading
    <3>2. left.kind = "short"
      BY <1>1, <1>2, <2>1 DEF Reading
    <3>3. el.text \in Seq(STRING) /\ Len(el.text) \in Nat
      BY <1>1, <1>2, <2>1, ArgsAssumption, LenProperties
    <3>4. Head(left.text) = el.text[k + 1] /\ Behind = SubSeq(el.text, k + 2, Len(el.text))
      BY <3>1, <3>2, <3>3, OneFurther DEF Behind
    <3>5. el.text[k + 1] = "e"
      BY <1>0, <3>2, <3>4, ShortNames
    <3>6. Behind = <<>> <=> k + 1 = Len(el.text)
      <4>1. k + 1 \in 0..Len(el.text) /\ (k + 1) + 1 = k + 2
        BY <3>3
      <4>. QED BY <3>3, <3>4, <4>1, NothingFurther
    <3>7. Used(el.text, Len(el.text)) = u + c
      <4>1. CASE k + 1 = Len(el.text)
        <5>1. TakesNext(el.text, k + 1)
          <6>1. \A j \in 1..((k + 1) - 1) : el.text[j] # "e"
            BY <3>1, <3>3
          <6>. QED BY <3>5, <4>1, <6>1 DEF TakesNext
        <5>2. k \in 0..Len(el.text) /\ k < Len(el.text)
          BY <3>3
        <5>3. Used(el.text, k + 1) = u + 1
          BY <3>1, <3>3, <5>1, <5>2, UsedProperties
        <5>4. c = 1
          BY <1>4, <3>6, <4>1
        <5>. QED BY <4>1, <5>3, <5>4
      <4>2. CASE k + 1 # Len(el.text)
        <5>1. Used(el.text, Len(el.text)) = u
          BY <3>1, <3>3, <3>5, <4>2, UsedUpToEval
        <5>2. c = 0
          BY <1>4, <3>6, <4>2
        <5>. QED BY <1>1, <5>1, <5>2
      <4>. QED BY <4>1, <4>2
    <3>. QED BY <2>1, <3>7 DEF Wants, Used
  <2>2. CASE el.kind # "short"
    <3>1. left = el /\ u = 0 /\ el.kind = "long"
      BY <1>1, <1>2, <2>2 DEF Reading, OptionAt
    <3>2. Behind = <<>> /\ left.text[1] \in {"eval", "include", "memory-limit", "stack-size"}
      BY <1>0, <3>1, LongNames
    <3>3. Wants(el) = 1
      BY <2>2, <3>1, <3>2 DEF Wants
    <3>. QED BY <1>4, <3>1, <3>2, <3>3
  <2>. QED BY <2>1, <2>2
<1>. QED BY <1>0, <1>1, <1>2, <1>3, <1>5, <1>6, ElementDone

LEMMA LineInitially == ArgsInit => LineInv
<1> SUFFICES ASSUME ArgsInit PROVE LineInv
  OBVIOUS
<1>1. line \in Seq(Elements) /\ reading = "elements" /\ rest = line
  BY ArgsAssumption DEF ArgsInit
<1>2. Len(line) \in Nat /\ SubSeq(line, 1, Len(line)) = line
  BY <1>1, LenProperties, SubSeqFull
<1>3. After[0] = 1
  BY <1>1, AfterIs
<1>4. BetweenOptions(0)
  BY <1>1, <1>2, <1>3 DEF BetweenOptions, RestIs
<1>. QED BY <1>1, <1>2, <1>4 DEF LineInv, ScriptGetsItsLine

LEMMA LineStep ==
  ASSUME LineInv, ParseArgs
  PROVE  LineInv'
<1>1. CASE Tell \/ Refuse \/ Lacking
  <2>1. reading' = "exited" /\ line' = line
    BY <1>1 DEF Tell, Refuse, Lacking, Leave
  <2>. QED BY <2>1 DEF LineInv, ScriptGetsItsLine
<1>2. CASE TakeInclude \/ TakeNumber
  <2>1. /\ reading = "option" /\ Named \in {"include", "memory-limit", "stack-size"} /\ rest # <<>>
        /\ rest' = Tail(rest) /\ GoOn /\ line' = line
    BY <1>2 DEF TakeInclude, TakeNumber, Option
  <2>. QED BY <2>1, OptionLine
<1>3. CASE SetFlag
  <2>1. /\ reading = "option" /\ Named \in {"module", "script", "dump", "trace", "quit", "bignum", "unhandled-rejection", "std"}
        /\ rest' = rest /\ GoOn /\ line' = line
    BY <1>3 DEF SetFlag
  <2>. QED BY <2>1, OptionLine
<1>. QED BY <1>1, <1>2, <1>3, NextElementLine, ScanEndsLine, TakeEvalLine DEF ParseArgs

LEMMA LineKept ==
  ASSUME LineInv, UNCHANGED args
  PROVE  LineInv'
<1>1. line' = line /\ reading' = reading /\ rest' = rest /\ left' = left
  BY DEF args
<1>2. \A el, used : Reading(el, used)' <=> Reading(el, used)
  BY <1>1 DEF Reading
<1>3. \A p : RestIs(p)' <=> RestIs(p)
  BY <1>1 DEF RestIs
<1>4. \A n : (BetweenOptions(n)' <=> BetweenOptions(n)) /\ (InOption(n)' <=> InOption(n))
  BY <1>1, <1>2, <1>3, SameLine DEF BetweenOptions, InOption
<1>. QED BY <1>1, <1>4, SameLine DEF LineInv, ScriptGetsItsLine

-----------------------------------------------------------------------------
(* The steps of main                                                       *)

LEMMA ProgressKept ==
  ASSUME Progress, UNCHANGED <<args, todo, evaluated>>
  PROVE  Progress'
BY DEF Progress, Past, Work, args

LEMMA EvaluateStep ==
  ASSUME ArgsInv, WorkInv, Evaluate
  PROVE  WorkInv'
<1>1. /\ phase = "evaluate" /\ todo # <<>>
      /\ evaluated' = Append(evaluated, Head(todo)) /\ todo' = Tail(todo)
      /\ phase' = IF Len(todo) = 1 THEN "loop" ELSE phase
      /\ UNCHANGED args
  BY DEF Evaluate
<1>2. PICK S : Work \in Seq(S)
  BY WorkShape
<1>3. PICK k \in 0..Len(Work) : todo = SubSeq(Work, k + 1, Len(Work)) /\ Past(evaluated, Work, k)
  BY <1>1 DEF WorkInv, Progress
<1>4. Len(Work) \in Nat /\ k \in 0..(Len(Work) - 1)
  <2>1. Len(Work) \in Nat
    BY <1>2, LenProperties
  <2>2. k # Len(Work)
    BY <1>1, <1>2, <1>3, NothingFurther
  <2>. QED BY <2>1, <2>2
<1>5. Work' = Work
  BY <1>1 DEF Work, args
<1>6. todo' = SubSeq(Work, k + 2, Len(Work)) /\ Head(todo) = Work[k + 1]
  BY <1>1, <1>2, <1>3, <1>4, OneFurther
<1>7. Past(evaluated', Work, k + 1)
  <2>1. \A m \in 1..(k + 1) : Append(SubSeq(Work, m, k), Work[k + 1]) = SubSeq(Work, m, k + 1)
    BY <1>2, <1>4, OneFurther
  <2>2. 1 \in 1..(k + 1) /\ (k >= 1 => 2 \in 1..(k + 1))
    BY <1>4
  <2>3. k >= 1 => k + 1 >= 1
    OBVIOUS
  <2>. QED BY <1>1, <1>3, <1>6, <2>1, <2>2, <2>3 DEF Past
<1>8. Progress'
  <2>1. k + 1 \in 0..Len(Work) /\ k + 1 + 1 = k + 2
    BY <1>4
  <2>2. todo' = SubSeq(Work, k + 1 + 1, Len(Work))
    BY <1>6, <2>1
  <2>. QED BY <1>5, <1>7, <2>1, <2>2 DEF Progress, Past
<1>9. phase' = "loop" => todo' = <<>>
  <2>1. SUFFICES ASSUME Len(todo) = 1 PROVE todo' = <<>>
    BY <1>1
  <2>2. todo \in Seq(S)
    <3>1. \A i \in (k + 1)..Len(Work) : Work[i] \in S
      BY <1>2, <1>4, ElementOfSeq
    <3>. QED BY <1>3, <1>4, <3>1, SubSeqProperties
  <2>3. Len(Tail(todo)) = 0 /\ Tail(todo) \in Seq(S)
    BY <1>1, <2>1, <2>2, HeadTailProperties
  <2>. QED BY <1>1, <2>3, EmptySeq
<1>. QED BY <1>1, <1>8, <1>9 DEF WorkInv

(* The preamble is what fails here: it stands first, and nothing was evaluated before it. *)
LEMMA StdFailsStep ==
  ASSUME ArgsInv, WorkInv, StdFails
  PROVE  WorkInv'
<1>1. /\ phase = "evaluate" /\ todo # <<>> /\ Head(todo) = Std
      /\ todo' = Tail(todo)
      /\ UNCHANGED <<args, phase, evaluated>>
  BY DEF StdFails
<1>2. PICK S : Work \in Seq(S)
  BY WorkShape
<1>3. PICK k \in 0..Len(Work) : todo = SubSeq(Work, k + 1, Len(Work)) /\ Past(evaluated, Work, k)
  BY <1>1 DEF WorkInv, Progress
<1>4. Len(Work) \in Nat /\ k \in 0..(Len(Work) - 1)
  <2>1. Len(Work) \in Nat
    BY <1>2, LenProperties
  <2>2. k # Len(Work)
    BY <1>1, <1>2, <1>3, NothingFurther
  <2>. QED BY <2>1, <2>2
<1>5. Work' = Work
  BY <1>1 DEF Work, args
<1>6. todo' = SubSeq(Work, k + 2, Len(Work)) /\ Work[k + 1] = Std
  BY <1>1, <1>2, <1>3, <1>4, OneFurther
<1>7. k = 0
  BY <1>4, <1>6, WorkShape, EmptySeq DEF Worklike
<1>8. evaluated' = SubSeq(Work, 2, 1)
  <2>1. SubSeq(Work, 1, 0) = <<>> /\ SubSeq(Work, 2, 1) = <<>>
    BY SubSeqEmpty
  <2>. QED BY <1>1, <1>3, <1>7, <2>1 DEF Past
<1>9. Progress'
  <2>1. 1 \in 0..Len(Work) /\ todo' = SubSeq(Work, 1 + 1, Len(Work))
    BY <1>4, <1>6, <1>7
  <2>2. Past(evaluated', Work, 1)
    BY <1>8 DEF Past
  <2>. QED BY <1>5, <2>1, <2>2 DEF Progress, Past
<1>. QED BY <1>1, <1>9 DEF WorkInv

LEMMA NewContextStep ==
  ASSUME ArgsInv, WorkInv, NewContext
  PROVE  WorkInv'
<1>1. /\ evaluated' = <<>> /\ todo' = Work /\ phase' = "evaluate" /\ UNCHANGED args
  BY DEF NewContext, WorkInv
<1>2. PICK S : Work \in Seq(S)
  BY WorkShape
<1>3. Work' = Work
  BY <1>1 DEF Work, args
<1>4. 0 \in 0..Len(Work) /\ todo' = SubSeq(Work, 0 + 1, Len(Work))
  BY <1>1, <1>2, SubSeqFull, LenProperties
<1>5. Past(evaluated', Work, 0)
  BY <1>1, SubSeqEmpty DEF Past
<1>6. Progress'
  BY <1>3, <1>4, <1>5 DEF Progress, Past
<1>. QED BY <1>1, <1>6 DEF WorkInv

LEMMA WorkStep ==
  ASSUME ArgsInv, WorkInv, Next
  PROVE  WorkInv'
<1>1. CASE ReadArgs \/ NewRuntime \/ Configure
  BY <1>1 DEF ReadArgs, NewRuntime, Configure, WorkInv
<1>2. CASE ArgsExit \/ CannotStart \/ EvaluateExits \/ CodeExits \/ ReallocExits
  BY <1>2 DEF ArgsExit, CannotStart, EvaluateExits, CodeExits, ReallocExits, Exits, WorkInv
<1>3. CASE EngineAllocates \/ FreeHandlers \/ FreeEngine \/ Return
  BY <1>3, ProgressKept DEF EngineAllocates, FreeHandlers, FreeEngine, Return, WorkInv
<1>4. CASE EvaluateFails \/ Done
  BY <1>4, ProgressKept DEF EvaluateFails, Done, WorkInv
<1>. QED BY <1>1, <1>2, <1>3, <1>4, NewContextStep, EvaluateStep, StdFailsStep DEF Next

LEMMA ArgsOfStep ==
  ASSUME ArgsInv, LineInv, Next
  PROVE  ArgsInv' /\ LineInv'
<1>1. CASE ReadArgs
  BY <1>1, ArgsStep, LineStep DEF ReadArgs
<1>2. ASSUME ~ReadArgs PROVE UNCHANGED args
  BY <1>2 DEF Next, ArgsExit, NewRuntime, Configure, NewContext, CannotStart, EngineAllocates,
              Evaluate, StdFails, EvaluateFails, EvaluateExits, CodeExits, ReallocExits, Done,
              FreeHandlers, FreeEngine, Return, Exits
<1>. QED BY <1>1, <1>2, ArgsKept, LineKept

(* Whoever allocates, the books balance and the limit holds. *)
LEMMA HeapStep ==
  ASSUME ArgsInv, HeapInv, Next
  PROVE  /\ HeapInv'
         /\ malloc_size' > malloc_size => malloc_size' <= malloc_limit + Rounding + Overhead
<1>1. malloc_size \in Nat
  BY HeapFacts
<1>2. ASSUME Allocate
      PROVE  /\ HeapInv'
             /\ malloc_size' > malloc_size => malloc_size' <= malloc_limit + Rounding + Overhead
  BY <1>1, <1>2, MallocStep, HeapKept DEF Allocate
<1>3. CASE Configure
  BY <1>1, <1>3, LimitStep, HeapKept DEF Configure, ArgsInv
<1>4. CASE NewRuntime \/ NewContext
  BY <1>2, <1>4 DEF NewRuntime, NewContext
<1>5. CASE EngineAllocates \/ FreeEngine
  <2>1. HeapNext \/ \E b \in Live : Free(b)
    BY <1>5 DEF EngineAllocates, FreeEngine
  <2>2. ASSUME NEW b \in Live, Free(b) PROVE HeapInv' /\ ~(malloc_size' > malloc_size)
    <3>1. HeapInv' /\ malloc_size' <= malloc_size
      BY <2>2, FreeStep
    <3>2. malloc_size' \in Nat
      BY <2>2, <3>1, FS_CardinalityType DEF HeapInv, BlocksAccountedFor
    <3>. QED BY <1>1, <3>1, <3>2
  <2>. QED BY <2>1, <2>2, MallocStep, ReallocStep DEF HeapNext
<1>6. ASSUME ~Configure, ~NewRuntime, ~NewContext, ~EngineAllocates, ~FreeEngine
      PROVE  UNCHANGED heap
  BY <1>6 DEF Next, ReadArgs, ArgsExit, CannotStart, Evaluate, StdFails, EvaluateFails,
              EvaluateExits, CodeExits, ReallocExits, Done, FreeHandlers, Return, Exits
<1>. QED BY <1>1, <1>3, <1>4, <1>5, <1>6, HeapKept

RuntimeInv == ArgsInv /\ LineInv /\ HeapInv /\ WorkInv

LEMMA RuntimeInitially == Init => RuntimeInv
BY ArgsInitially, LineInitially, HeapInitially DEF Init, RuntimeInv, WorkInv

(* Of main's steps, those of the compiler leave the runtime alone. *)
LEMMA RuntimeStep ==
  RuntimeInv /\ [MainNext]_mainVars =>
    /\ RuntimeInv'
    /\ malloc_size' > malloc_size => malloc_size' <= malloc_limit + Rounding + Overhead
<1> SUFFICES ASSUME RuntimeInv, [MainNext]_mainVars
             PROVE  /\ RuntimeInv'
                    /\ malloc_size' > malloc_size =>
                         malloc_size' <= malloc_limit + Rounding + Overhead
  OBVIOUS
<1>1. malloc_size \in Nat
  BY HeapFacts DEF RuntimeInv
<1>2. CASE UNCHANGED vars
  <2>1. ArgsInv' /\ LineInv' /\ HeapInv' /\ malloc_size' = malloc_size
    BY <1>2, ArgsKept, LineKept, HeapKept DEF RuntimeInv, vars
  <2>2. WorkInv'
    BY <1>2, ProgressKept DEF RuntimeInv, WorkInv, vars
  <2>. QED BY <1>1, <2>1, <2>2 DEF RuntimeInv
<1>3. CASE Next
  BY <1>3, ArgsOfStep, HeapStep, WorkStep DEF RuntimeInv
<1>4. CASE ReturnFromCompile
  <2>1. ArgsInv' /\ LineInv' /\ HeapInv' /\ malloc_size' = malloc_size
    BY <1>4, ArgsKept, LineKept, HeapKept DEF RuntimeInv, ReturnFromCompile
  <2>2. WorkInv'
    BY <1>4 DEF ReturnFromCompile, WorkInv
  <2>. QED BY <1>1, <2>1, <2>2 DEF RuntimeInv
<1>. QED BY <1>2, <1>3, <1>4 DEF MainNext, RunCompiler, RunRuntime, mainVars

LEMMA RuntimeInvariant == MainSpec => []RuntimeInv
<1>1. MainInit => RuntimeInv
  BY RuntimeInitially DEF MainInit
<1>2. RuntimeInv /\ [MainNext]_mainVars => RuntimeInv'
  BY RuntimeStep
<1>. QED BY <1>1, <1>2, PTL DEF MainSpec

(* The script and its arguments are the line from the first element that is neither an option    *)
(* nor an option's argument, for a line of any length.                                            *)
THEOREM ScriptAlwaysGetsItsLine == MainSpec => []ScriptGetsItsLine
<1>1. RuntimeInv => ScriptGetsItsLine
  BY DEF RuntimeInv, LineInv
<1>. QED BY <1>1, RuntimeInvariant, PTL

(* The allocator's total is the bytes of the blocks in use, and its count their number. *)
THEOREM BlocksAlwaysAccountedFor == MainSpec => []BlocksAccountedFor
<1>1. RuntimeInv => BlocksAccountedFor
  BY DEF RuntimeInv, HeapInv
<1>. QED BY <1>1, RuntimeInvariant, PTL

(* The total grows only up to the limit, the rounding of malloc and one overhead. *)
THEOREM LimitAlwaysHolds == MainSpec => LimitHolds
<1>1. RuntimeInv /\ [MainNext]_mainVars =>
        [malloc_size' > malloc_size => malloc_size' <= malloc_limit + Rounding + Overhead]_heap
  BY RuntimeStep
<1>. QED BY <1>1, RuntimeInvariant, PTL DEF MainSpec, LimitHolds

(* The status of a main that returns is 0 exactly if all that the line named was evaluated, and  *)
(* what was is always the beginning of it.                                                        *)
THEOREM StatusAlwaysTellsWhatRan == MainSpec => []StatusTellsWhatRan
<1>1. ASSUME RuntimeInv, phase = "returned"
      PROVE  /\ IsPrefix(Own(evaluated), Own(Work))
             /\ status = 0 <=> Own(evaluated) = Own(Work)
  <2>1. PICK S : Work \in Seq(S)
    BY <1>1, WorkShape DEF RuntimeInv
  <2>2. Worklike(Work)
    BY <1>1, WorkShape DEF RuntimeInv
  <2>3. PICK k \in 0..Len(Work) :
          todo = SubSeq(Work, k + 1, Len(Work)) /\ Past(evaluated, Work, k)
    BY <1>1 DEF RuntimeInv, WorkInv, Progress
  <2> DEFINE w == Work
             n == Len(Work)
  <2>4. n \in Nat /\ \A i \in 2..n : w[i] \in S
    BY <2>1, LenProperties, ElementOfSeq
  <2>5. Own(evaluated) = SubSeq(w, 2, k)
    BY <2>1, <2>2, <2>3, OwnOfBehind
  <2>6. Own(w) = SubSeq(w, 2, n)
    <3>1. Past(w, w, n) /\ n \in 0..n
      BY <2>1, <2>4, SubSeqFull DEF Past
    <3>. QED BY <2>1, <2>2, <3>1, OwnOfBehind
  <2>7. status = 0 <=> k = n
    BY <1>1, <2>1, <2>3, NothingFurther DEF RuntimeInv, WorkInv
  <2>8. k # n => n >= 2
    BY <2>2, <2>3, <2>4, EmptySeq DEF Worklike
  <2> HIDE DEF w, n
  <2> DEFINE lk == IF 2 <= k THEN k - 1 ELSE 0
             ln == IF 2 <= n THEN n - 1 ELSE 0
  <2>9. /\ SubSeq(w, 2, k) \in Seq(S) /\ Len(SubSeq(w, 2, k)) = lk
        /\ \A i \in 1..(k - 1) : SubSeq(w, 2, k)[i] = w[i + 1]
        /\ SubSeq(w, 2, n) \in Seq(S) /\ Len(SubSeq(w, 2, n)) = ln
        /\ \A i \in 1..(n - 1) : SubSeq(w, 2, n)[i] = w[i + 1]
    <3>1. k \in Nat /\ k <= n
      BY <2>3, <2>4 DEF n
    <3>2. \A i \in 2..k : w[i] \in S
      BY <2>4, <3>1
    <3>. QED BY <2>4, <3>1, <3>2, SubSeqProperties
  <2> DEFINE e == SubSeq(w, 2, k)
             f == SubSeq(w, 2, n)
  <2>10. k \in Nat /\ k <= n /\ lk \in Nat /\ ln \in Nat /\ lk <= ln
    BY <2>3, <2>4 DEF n
  <2>11. IsPrefix(e, f)
    <3>1. e \in Seq(S) /\ Len(e) = lk /\ f \in Seq(S) /\ Len(f) = ln
      BY <2>9
    <3>2. \A i \in 1..lk : e[i] = f[i]
      <4>1. \A i \in 1..lk : i \in 1..(k - 1) /\ i \in 1..(n - 1)
        BY <2>4, <2>10
      <4>. QED BY <2>9, <4>1
    <3> HIDE DEF e, f, lk, ln
    <3>3. /\ SubSeq(f, 1, lk) \in Seq(S) /\ Len(SubSeq(f, 1, lk)) = lk
          /\ \A i \in 1..lk : SubSeq(f, 1, lk)[i] = f[i]
      <4>1. \A i \in 1..lk : f[i] \in S
        BY <2>10, <3>1, ElementOfSeq
      <4>2. /\ SubSeq(f, 1, lk) \in Seq(S)
            /\ Len(SubSeq(f, 1, lk)) = IF 1 <= lk THEN lk - 1 + 1 ELSE 0
            /\ \A i \in 1..(lk - 1 + 1) : SubSeq(f, 1, lk)[i] = f[1 + i - 1]
        BY <2>10, <4>1, SubSeqProperties
      <4>. QED BY <2>10, <4>2
    <3>4. SubSeq(f, 1, lk) = e
      BY <3>1, <3>2, <3>3, SeqEqual
    <3>5. SubSeq(e, 1, lk) = e
      BY <3>1, SubSeqFull
    <3>. QED BY <2>10, <3>1, <3>4, <3>5 DEF IsPrefix
  <2>12. e = f <=> k = n
    <3>1. k # n => lk # ln
      BY <2>4, <2>8, <2>10
    <3>2. e = f => lk = ln
      BY <2>9
    <3>. QED BY <3>1, <3>2
  <2>13. Own(evaluated) = e /\ Own(Work) = f
    BY <2>5, <2>6 DEF w
  <2> HIDE DEF e, f
  <2>. QED BY <2>7, <2>11, <2>12, <2>13
<1>2. RuntimeInv => StatusTellsWhatRan
  BY <1>1 DEF StatusTellsWhatRan
<1>. QED BY <1>2, RuntimeInvariant, PTL

-----------------------------------------------------------------------------
(* C names                                                                 *)

Entries == [file : Sources, named : BOOLEAN, name : C!CNames]

(* Of one number more than there are entries, one is free. *)
LEMMA FreeNumber ==
  ASSUME NEW name \in C!CNames, code \in Seq(Entries)
  PROVE  \E n \in 1..(Len(code) + 1) : ~C!Taken(C!Numbered(name, n))
<1> SUFFICES ASSUME \A n \in 1..(Len(code) + 1) : C!Taken(C!Numbered(name, n))
             PROVE  FALSE
  OBVIOUS
<1> DEFINE l == Len(code)
           at == [n \in 1..(l + 1) |-> CHOOSE i \in DOMAIN code : code[i].name = C!Numbered(name, n)]
<1>1. l \in Nat /\ DOMAIN code = 1..l
  BY LenProperties
<1>2. \A n \in 1..(l + 1) : at[n] \in 1..l /\ code[at[n]].name = C!Numbered(name, n)
  BY <1>1 DEF C!Taken
<1>3. at \in [1..(l + 1) -> 1..l]
  BY <1>2
<1> HIDE DEF at
<1>4. /\ IsFiniteSet(1..l) /\ Cardinality(1..l) = l
      /\ IsFiniteSet(1..(l + 1)) /\ Cardinality(1..(l + 1)) = l + 1
  <2>1. Cardinality(1..l) = IF 1 > l THEN 0 ELSE l - 1 + 1
    BY <1>1, FS_Interval
  <2>2. Cardinality(1..(l + 1)) = IF 1 > l + 1 THEN 0 ELSE l + 1 - 1 + 1
    BY <1>1, FS_Interval
  <2>. QED BY <1>1, <2>1, <2>2, FS_Interval
<1>5. PICK x, y \in 1..(l + 1) : x # y /\ at[x] = at[y]
  BY <1>1, <1>3, <1>4, FS_PigeonHole
<1>6. C!Numbered(name, x) = C!Numbered(name, y)
  BY <1>2, <1>5
<1>7. Append(name.numbers, x) = Append(name.numbers, y)
  BY <1>6 DEF C!Numbered, C!CNames
<1>8. name.numbers \in Seq(Nat) /\ x \in Nat /\ y \in Nat
  BY <1>1 DEF C!CNames
<1>. QED BY <1>5, <1>7, <1>8, AppendInjective

(* find_unique_cname finds a name that nothing written has. *)
LEMMA UniqueNameIsFree ==
  ASSUME NEW name \in C!CNames, code \in Seq(Entries)
  PROVE  C!UniqueName(name) \in C!CNames /\ ~C!Taken(C!UniqueName(name))
<1>1. CASE ~C!Taken(name)
  BY <1>1 DEF C!UniqueName
<1>2. CASE C!Taken(name)
  <2> DEFINE free == {n \in 1..(Len(code) + 1) : ~C!Taken(C!Numbered(name, n))}
             least == CHOOSE n \in free : \A m \in free : n <= m
  <2>1. free \in SUBSET Nat /\ free # {}
    BY FreeNumber, LenProperties
  <2> HIDE DEF free
  <2>2. least \in free
    BY <2>1, LeastNumber
  <2>3. C!UniqueName(name) = C!Numbered(name, least)
    BY <1>2 DEF C!UniqueName, free
  <2>4. ~C!Taken(C!Numbered(name, least)) /\ least \in Nat
    BY <2>1, <2>2 DEF free
  <2> HIDE DEF least
  <2>5. C!Numbered(name, least) \in C!CNames
    <3>1. Append(name.numbers, least) \in Seq(Nat)
      BY <2>4, AppendProperties DEF C!CNames
    <3>. QED BY <3>1 DEF C!Numbered, C!CNames
  <2>. QED BY <2>3, <2>4, <2>5
<1>. QED BY <1>1, <1>2

-----------------------------------------------------------------------------
(* The compiler                                                            *)

Frames == [file : Sources, named : BOOLEAN, left : Seq(Sources)]
FilesIn(s) == {s[i].file : i \in DOMAIN s}

CompilerTypes ==
  /\ options \in Seq(Options)
  /\ files \in Seq(Sources)
  /\ cname \in C!CNames \cup {C!NoName}
  /\ dynamic \in Seq(Sources)
  /\ next \in 1..(Len(files) + 1)
  /\ frames \in Seq(Frames)
  /\ inits \in Seq(Sources)
  /\ code \in Seq(Entries)

(* A file of the line is the outermost of those being compiled, and the one next points at. *)
FramesInv ==
  /\ compiling = "options" => frames = <<>> /\ code = <<>>
  /\ \A k \in DOMAIN frames :
       frames[k].named => /\ k = 1 /\ compiling \in {"files", "done"}
                          /\ next <= Len(files) /\ frames[k].file = files[next]

(* The files of the line are written up to next, and all of them before the rest is. *)
NamedFiles == [i \in DOMAIN C!Named |-> C!Named[i].file]
OrderInv ==
  /\ NamedFiles = SubSeq(files, 1, next - 1)
  /\ C!Compiled \/ compiling = "dynamic" => next = Len(files) + 1

(* What QuickJS has met is written, being compiled, declared or shared, and it has met all that  *)
(* the files written import, and of those being compiled all but what they still ask for.        *)
ImportsInv ==
  /\ loaded \subseteq FilesIn(code) \cup FilesIn(frames) \cup C!Range(inits) \cup Shared
  /\ \A k \in DOMAIN frames :
       C!AsModule(frames[k]) =>
         C!Range(Imports[frames[k].file]) \subseteq loaded \cup C!Range(frames[k].left)
  /\ \A j \in DOMAIN code :
       C!AsModule(code[j]) => C!Range(Imports[code[j].file]) \subseteq loaded
  /\ C!ImportsAreAvailable

CompilerInv ==
  CompilerTypes /\ FramesInv /\ OrderInv /\ ImportsInv /\ C!LoadedModulesAreNamedApart

LEMMA RangeOfAppend ==
  ASSUME NEW S, NEW s \in Seq(S), NEW x \in S
  PROVE  C!Range(Append(s, x)) = C!Range(s) \cup {x}
<1>1. /\ Append(s, x) \in Seq(S) /\ Len(Append(s, x)) = Len(s) + 1
      /\ \A i \in 1..Len(s) : Append(s, x)[i] = s[i]
      /\ Append(s, x)[Len(s) + 1] = x
  BY AppendProperties
<1>2. Len(s) \in Nat /\ DOMAIN s = 1..Len(s) /\ DOMAIN Append(s, x) = 1..(Len(s) + 1)
  BY <1>1, LenProperties
<1> DEFINE a == Append(s, x)
<1> HIDE DEF a
<1>3. \A i \in 1..(Len(s) + 1) : i \in 1..Len(s) \/ i = Len(s) + 1
  BY <1>2
<1>. QED BY <1>1, <1>2, <1>3 DEF C!Range, a

LEMMA FilesOfAppend ==
  ASSUME NEW S, NEW s \in Seq(S), NEW x \in S
  PROVE  FilesIn(Append(s, x)) = FilesIn(s) \cup {x.file}
<1>1. /\ Append(s, x) \in Seq(S) /\ Len(Append(s, x)) = Len(s) + 1
      /\ \A i \in 1..Len(s) : Append(s, x)[i] = s[i]
      /\ Append(s, x)[Len(s) + 1] = x
  BY AppendProperties
<1>2. Len(s) \in Nat /\ DOMAIN s = 1..Len(s) /\ DOMAIN Append(s, x) = 1..(Len(s) + 1)
  BY <1>1, LenProperties
<1>3. \A i \in 1..(Len(s) + 1) : i \in 1..Len(s) \/ i = Len(s) + 1
  BY <1>2
<1>. QED BY <1>1, <1>2, <1>3 DEF FilesIn

LEMMA RangeOfTail ==
  ASSUME NEW S, NEW s \in Seq(S), s # <<>>
  PROVE  C!Range(s) \subseteq {Head(s)} \cup C!Range(Tail(s))
<1>1. Len(s) \in Nat \ {0} /\ DOMAIN s = 1..Len(s)
  BY EmptySeq, LenProperties
<1>2. Head(s) = s[1] /\ Tail(s) = SubSeq(s, 2, Len(s)) /\ Tail(s) \in Seq(S)
      /\ Len(Tail(s)) = Len(s) - 1
  BY <1>1, HeadTailProperties, TailIsSubSeq
<1>3. DOMAIN Tail(s) = 1..(Len(s) - 1) /\ \A i \in 1..(Len(s) - 1) : Tail(s)[i] = s[i + 1]
  <2>1. \A i \in 2..Len(s) : s[i] \in S
    BY <1>1, ElementOfSeq
  <2>2. \A i \in 1..(Len(s) - 2 + 1) : SubSeq(s, 2, Len(s))[i] = s[2 + i - 1]
    BY <1>1, <2>1, SubSeqProperties
  <2>. QED BY <1>1, <1>2, <2>2, LenProperties
<1>4. \A i \in 1..Len(s) : i = 1 \/ (i - 1 \in 1..(Len(s) - 1) /\ s[i] = Tail(s)[i - 1])
  <2>1. \A i \in 1..Len(s) : i = 1 \/ (i - 1 \in 1..(Len(s) - 1) /\ i = i - 1 + 1)
    BY <1>1
  <2>. QED BY <1>3, <2>1
<1>5. ASSUME NEW i \in 1..Len(s)
      PROVE  s[i] \in {Head(s)} \cup C!Range(Tail(s))
  <2>1. CASE i = 1
    BY <1>2, <2>1
  <2>2. CASE i - 1 \in 1..(Len(s) - 1) /\ s[i] = Tail(s)[i - 1]
    <3> DEFINE t == Tail(s)
    <3>1. i - 1 \in DOMAIN t /\ s[i] = t[i - 1]
      BY <1>3, <2>2
    <3> HIDE DEF t
    <3>2. s[i] \in C!Range(t)
      BY <3>1 DEF C!Range
    <3>. QED BY <3>2 DEF t
  <2>. QED BY <1>4, <2>1, <2>2
<1>6. \A x \in C!Range(s) : \E i \in 1..Len(s) : x = s[i]
  BY <1>1 DEF C!Range
<1>. QED BY <1>5, <1>6

(* The innermost file being compiled, and the ones around it *)
LEMMA LastFrame ==
  ASSUME frames \in Seq(Frames), frames # <<>>
  PROVE  /\ Len(frames) \in Nat \ {0} /\ DOMAIN frames = 1..Len(frames)
         /\ C!Last(frames) = frames[Len(frames)] /\ C!Last(frames) \in Frames
         /\ C!Front(frames) \in Seq(Frames) /\ Len(C!Front(frames)) = Len(frames) - 1
         /\ DOMAIN C!Front(frames) = 1..(Len(frames) - 1)
         /\ \A k \in 1..(Len(frames) - 1) : C!Front(frames)[k] = frames[k]
<1>1. Len(frames) \in Nat \ {0} /\ DOMAIN frames = 1..Len(frames)
  BY EmptySeq, LenProperties
<1>2. C!Last(frames) = frames[Len(frames)] /\ C!Last(frames) \in Frames
  BY <1>1, ElementOfSeq DEF C!Last
<1>3. \A k \in 1..(Len(frames) - 1) : frames[k] \in Frames
  BY <1>1, ElementOfSeq
<1>4. /\ SubSeq(frames, 1, Len(frames) - 1) \in Seq(Frames)
      /\ Len(SubSeq(frames, 1, Len(frames) - 1)) = Len(frames) - 1
      /\ \A k \in 1..(Len(frames) - 1) : SubSeq(frames, 1, Len(frames) - 1)[k] = frames[k]
  <2>1. \A k \in 1..(Len(frames) - 1 - 1 + 1) :
          SubSeq(frames, 1, Len(frames) - 1)[k] = frames[1 + k - 1]
    BY <1>1, <1>3, SubSeqProperties
  <2>. QED BY <1>1, <1>3, <2>1, SubSeqProperties
<1>. QED BY <1>1, <1>2, <1>4, LenProperties DEF C!Front

LEMMA InstanceOfPicked ==
  ASSUME NEW s, NEW I
  PROVE  C!Picked(s, I) = Picked(s, I)
BY Zenon DEF C!Picked, C!Place, C!Cardinality, Picked, Place, Cardinality

LEMMA Constants ==
  /\ Imports \in [Sources -> Seq(Sources)] /\ CName \in [Sources -> C!CNames]
  /\ C!SystemModules \subseteq Sources /\ Shared \subseteq Sources
  /\ \A o \in Options : /\ o.kind = "name" => o.value \in C!CNames
                        /\ o.kind = "dynamic" => o.value \in Sources
BY CompilerAssumption DEF C!CompilerConstants

LEMMA CompilerInitially == C!Init => CompilerInv
<1> SUFFICES ASSUME C!Init PROVE CompilerInv
  OBVIOUS
<1>1. options \in Seq(Options) /\ files \in Seq(Sources)
  BY DEF C!Init
<1>2. CompilerTypes
  <2>1. Len(files) \in Nat
    BY <1>1, LenProperties
  <2>. QED BY <1>1, <2>1 DEF C!Init, CompilerTypes
<1>3. FramesInv
  BY DEF C!Init, FramesInv
<1>4. OrderInv
  <2> DEFINE I == {i \in DOMAIN code : code[i].named}
  <2>1. code = <<>> /\ code \in Seq(Entries) /\ Len(code) = 0 /\ I = {}
    BY DEF C!Init
  <2>2. C!Named = Picked(code, I)
    BY InstanceOfPicked DEF C!Named
  <2>3. DOMAIN Picked(code, I) = 1..Cardinality(I) /\ Cardinality(I) = 0
    BY <2>1, PickedProperties, FS_EmptySet
  <2>4. DOMAIN C!Named = {}
    BY <2>2, <2>3
  <2>5. NamedFiles = <<>>
    BY <2>4 DEF NamedFiles
  <2>6. SubSeq(files, 1, 0) = <<>>
    BY <1>1, SubSeqEmpty
  <2>. QED BY <2>5, <2>6 DEF C!Init, OrderInv, C!Compiled
<1>5. ImportsInv
  BY DEF C!Init, ImportsInv, C!ImportsAreAvailable
<1>6. C!LoadedModulesAreNamedApart
  BY DEF C!Init, C!LoadedModulesAreNamedApart
<1>. QED BY <1>2, <1>3, <1>4, <1>5, <1>6 DEF CompilerInv

(* What only changes where the compiler is *)
LEMMA PhaseStep ==
  ASSUME CompilerInv,
         UNCHANGED <<options, files, cname, asModule, dynamic, next, frames, loaded, code, inits>>,
         compiling' = "options" => compiling = "options",
         compiling \in {"files", "done"} => compiling' \in {"files", "done"} \/ frames = <<>>,
         C!Compiled' \/ compiling' = "dynamic" => next = Len(files) + 1
  PROVE  CompilerInv'
<1>1. CompilerTypes'
  BY DEF CompilerInv, CompilerTypes
<1>2. FramesInv'
  BY DEF CompilerInv, FramesInv
<1>3. OrderInv'
  <2>1. NamedFiles' = NamedFiles
    BY DEF NamedFiles, C!Named
  <2>. QED BY <2>1 DEF CompilerInv, OrderInv
<1>4. ImportsInv'
  BY DEF CompilerInv, ImportsInv, C!ImportsAreAvailable, C!AsModule, C!Available
<1>5. C!LoadedModulesAreNamedApart'
  BY DEF CompilerInv, C!LoadedModulesAreNamedApart
<1>. QED BY <1>1, <1>2, <1>3, <1>4, <1>5 DEF CompilerInv

LEMMA PhaseSteps ==
  ASSUME CompilerInv,
         \/ C!RejectLine \/ C!OpenOutput \/ C!CannotOpenOutput \/ C!LoadFails \/ C!OutputFails
         \/ C!FilesDone \/ C!Emit \/ C!Fork \/ C!CcExits \/ C!CcKilled \/ C!ForkFails
  PROVE  CompilerInv'
<1>1. next \in Nat /\ Len(files) \in Nat /\ next <= Len(files) + 1
  BY LenProperties DEF CompilerInv, CompilerTypes
<1>2. CASE C!RejectLine \/ C!CannotOpenOutput \/ C!LoadFails \/ C!OutputFails
  <2>1. C!Exit
    BY <1>2 DEF C!RejectLine, C!CannotOpenOutput, C!LoadFails, C!OutputFails
  <2>. QED BY <2>1, PhaseStep DEF C!Exit, C!Leave, C!Compiled, C!setup, C!written
<1>3. CASE C!OpenOutput
  BY <1>3, PhaseStep DEF C!OpenOutput, C!Compiled, C!setup, C!written, CompilerInv, FramesInv
<1>4. CASE C!FilesDone
  BY <1>1, <1>4, PhaseStep DEF C!FilesDone, C!Ready, C!Compiled, C!setup, C!written
<1>5. CASE C!Emit
  BY <1>5, PhaseStep
     DEF C!Emit, C!Ready, C!Leave, C!Compiled, C!setup, C!written, CompilerInv, OrderInv
<1>6. CASE C!Fork
  BY <1>6, PhaseStep DEF C!Fork, C!Compiled, C!setup, C!written, CompilerInv, OrderInv
<1>7. CASE C!CcExits \/ C!CcKilled
  BY <1>7, PhaseStep DEF C!CcExits, C!CcKilled, C!CompileReturns, C!Leave, C!Compiled, C!setup,
                        C!written, CompilerInv, OrderInv
<1>8. CASE C!ForkFails
  BY <1>8, PhaseStep DEF C!ForkFails, C!CompileReturns, C!Leave, C!Compiled, C!setup, C!written,
                        CompilerInv, OrderInv
<1>. QED BY <1>2, <1>3, <1>4, <1>5, <1>6, <1>7, <1>8

(* No file is compiled while options are read. *)
LEMMA OptionStep ==
  ASSUME CompilerInv, C!ParseOption
  PROVE  CompilerInv'
<1> DEFINE o == Head(options)
<1>1. frames = <<>> /\ code = <<>> /\ frames' = <<>> /\ code' = <<>> /\ compiling = "options"
      /\ UNCHANGED <<compiling, files, next, loaded, inits>>
  BY DEF C!ParseOption, C!written, CompilerInv, FramesInv
<1>2. o \in Options /\ options' \in Seq(Options)
  BY HeadTailProperties DEF C!ParseOption, CompilerInv, CompilerTypes
<1>3. CompilerTypes'
  <2>1. cname' \in C!CNames \cup {C!NoName}
    <3>1. cname' = cname \/ (o.kind = "name" /\ cname' = o.value)
      BY DEF C!ParseOption
    <3>2. o.kind = "name" => o.value \in C!CNames
      BY <1>2, Constants
    <3>3. cname \in C!CNames \cup {C!NoName}
      BY DEF CompilerInv, CompilerTypes
    <3> HIDE DEF o
    <3>. QED BY <3>1, <3>2, <3>3
  <2>2. dynamic' \in Seq(Sources)
    BY <1>2, Constants, AppendProperties DEF C!ParseOption, CompilerInv, CompilerTypes
  <2>. QED BY <1>1, <1>2, <2>1, <2>2 DEF CompilerInv, CompilerTypes
<1>4. FramesInv'
  BY <1>1 DEF FramesInv
<1>5. OrderInv'
  <2>1. NamedFiles' = NamedFiles
    BY <1>1 DEF NamedFiles, C!Named
  <2>. QED BY <1>1, <2>1 DEF CompilerInv, OrderInv, C!Compiled
<1>6. ImportsInv'
  BY <1>1 DEF CompilerInv, ImportsInv, C!ImportsAreAvailable
<1>7. C!LoadedModulesAreNamedApart'
  BY <1>1 DEF C!LoadedModulesAreNamedApart
<1>. QED BY <1>3, <1>4, <1>5, <1>6, <1>7 DEF CompilerInv

-----------------------------------------------------------------------------
(* What the loader and the files change                                    *)

(* More that is declared takes nothing away. *)
LEMMA AvailableGrows ==
  ASSUME C!ImportsAreAvailable, UNCHANGED <<code, asModule>>, C!Range(inits) \subseteq C!Range(inits')
  PROVE  C!ImportsAreAvailable'
<1>1. \A p : C!Available(p) \subseteq C!Available(p)'
  BY DEF C!Available
<1>2. \A j \in DOMAIN code : C!AsModule(code[j])' <=> C!AsModule(code[j])
  BY DEF C!AsModule
<1>3. SUFFICES ASSUME NEW p \in DOMAIN code, code[p].named, NEW j \in 1..p, C!AsModule(code[j])'
               PROVE  C!Range(Imports[code[j].file]) \subseteq C!Available(p)'
  BY DEF C!ImportsAreAvailable
<1>4. C!AsModule(code[j])
  BY <1>3 DEF C!AsModule
<1>5. C!Range(Imports[code[j].file]) \subseteq C!Available(p)
  BY <1>3, <1>4 DEF C!ImportsAreAvailable
<1>. QED BY <1>1, <1>5

(* A module is met. *)
LEMMA LoadStep ==
  ASSUME CompilerInv, NEW f \in Sources, C!Load(f), dynamic' \in Seq(Sources),
         compiling \in {"files", "dynamic"},
         UNCHANGED <<compiling, compileStatus, options, files, cname, asModule, next>>
  PROVE  CompilerInv'
<1>1. code' = code
  BY DEF C!Load, C!LoadDeclared, C!LoadShared, C!LoadFile, C!written
<1>2. /\ loaded' = loaded \cup {f}
      /\ \/ inits' = Append(inits, f) /\ frames' = frames
         \/ inits' = inits /\ frames' = frames /\ f \in Shared
         \/ inits' = inits /\ frames' = Append(frames, C!Frame(f, FALSE, Imports[f]))
  BY DEF C!Load, C!LoadDeclared, C!LoadShared, C!LoadFile, C!written
<1>3. inits \in Seq(Sources) /\ frames \in Seq(Frames)
  BY DEF CompilerInv, CompilerTypes
<1>4. /\ inits' \in Seq(Sources)
      /\ C!Range(inits) \subseteq C!Range(inits')
      /\ inits' = inits \/ f \in C!Range(inits')
  <2>1. CASE inits' = inits
    BY <1>3, <2>1
  <2>2. CASE inits' = Append(inits, f)
    BY <1>3, <2>2, RangeOfAppend, AppendProperties
  <2>. QED BY <1>2, <2>1, <2>2
<1> DEFINE r == C!Frame(f, FALSE, Imports[f])
<1>5. r \in Frames /\ r.file = f /\ r.named = FALSE /\ r.left = Imports[f]
  BY Constants DEF C!Frame, Frames
<1> HIDE DEF r
<1>6. /\ frames' \in Seq(Frames)
      /\ FilesIn(frames) \subseteq FilesIn(frames')
      /\ frames' = frames \/ f \in FilesIn(frames')
      /\ \A k \in DOMAIN frames' : frames'[k] = r \/ (k \in DOMAIN frames /\ frames'[k] = frames[k])
  <2>1. CASE frames' = frames
    BY <1>3, <2>1
  <2>2. CASE frames' = Append(frames, r)
    <3>1. /\ frames' \in Seq(Frames) /\ Len(frames') = Len(frames) + 1
          /\ \A k \in 1..Len(frames) : frames'[k] = frames[k]
          /\ frames'[Len(frames) + 1] = r
      BY <1>3, <1>5, <2>2, AppendProperties
    <3>2. Len(frames) \in Nat /\ DOMAIN frames = 1..Len(frames) /\ DOMAIN frames' = 1..(Len(frames) + 1)
      BY <1>3, <3>1, LenProperties
    <3>3. \A k \in 1..(Len(frames) + 1) : k \in 1..Len(frames) \/ k = Len(frames) + 1
      BY <3>2
    <3>4. FilesIn(frames') = FilesIn(frames) \cup {f}
      BY <1>3, <1>5, <2>2, FilesOfAppend
    <3>. QED BY <3>1, <3>2, <3>3, <3>4
  <2>. QED BY <1>2, <2>1, <2>2 DEF r
<1>7. CompilerTypes'
  BY <1>1, <1>4, <1>6 DEF CompilerInv, CompilerTypes
<1>8. FramesInv'
  BY <1>1, <1>5, <1>6 DEF CompilerInv, FramesInv
<1>9. OrderInv'
  <2>1. NamedFiles' = NamedFiles
    BY <1>1 DEF NamedFiles, C!Named
  <2>. QED BY <2>1 DEF CompilerInv, OrderInv, C!Compiled
<1>10. ImportsInv'
  <2>1. loaded' \subseteq FilesIn(code') \cup FilesIn(frames') \cup C!Range(inits') \cup Shared
    <3>1. f \in FilesIn(frames') \cup C!Range(inits') \cup Shared
      <4>1. CASE inits' = Append(inits, f)
        BY <1>3, <4>1, RangeOfAppend
      <4>2. CASE frames' = Append(frames, r)
        BY <1>3, <1>5, <4>2, FilesOfAppend
      <4>. QED BY <1>2, <4>1, <4>2 DEF r
    <3>. QED BY <1>1, <1>2, <1>4, <1>6, <3>1 DEF CompilerInv, ImportsInv
  <2>2. ASSUME NEW k \in DOMAIN frames', C!AsModule(frames[k])'
        PROVE  C!Range(Imports[frames'[k].file]) \subseteq loaded' \cup C!Range(frames'[k].left)
    <3>1. CASE frames'[k] = r
      BY <1>5, <3>1
    <3>2. CASE k \in DOMAIN frames /\ frames'[k] = frames[k]
      <4>1. C!AsModule(frames[k])
        BY <2>2, <3>2 DEF C!AsModule
      <4>. QED BY <1>2, <3>2, <4>1 DEF CompilerInv, ImportsInv
    <3>. QED BY <1>6, <3>1, <3>2
  <2>3. ASSUME NEW j \in DOMAIN code', C!AsModule(code[j])'
        PROVE  C!Range(Imports[code'[j].file]) \subseteq loaded'
    <3>1. C!AsModule(code[j])
      BY <1>1, <2>3 DEF C!AsModule
    <3>. QED BY <1>1, <1>2, <3>1 DEF CompilerInv, ImportsInv
  <2>4. C!ImportsAreAvailable'
    BY <1>1, <1>4, AvailableGrows DEF CompilerInv, ImportsInv
  <2>. QED BY <2>1, <2>2, <2>3, <2>4 DEF ImportsInv
<1>11. C!LoadedModulesAreNamedApart'
  BY <1>1 DEF CompilerInv, C!LoadedModulesAreNamedApart
<1>. QED BY <1>7, <1>8, <1>9, <1>10, <1>11 DEF CompilerInv

LEMMA LoadImportStep ==
  ASSUME CompilerInv, C!LoadImport
  PROVE  CompilerInv'
<1> DEFINE f == C!Asked
<1>1. frames \in Seq(Frames) /\ frames # <<>> /\ C!Last(frames).left # <<>>
      /\ compiling \in {"files", "dynamic"}
  BY DEF C!LoadImport, C!Waiting, C!Compiling, CompilerInv, CompilerTypes
<1>2. C!Last(frames).left \in Seq(Sources)
  BY <1>1, LastFrame DEF Frames
<1>3. f \in Sources
  BY <1>1, <1>2, HeadTailProperties DEF C!Asked
<1>4. C!Load(f)
  BY DEF C!LoadImport
<1>5. dynamic' \in Seq(Sources)
  BY DEF C!LoadImport, CompilerInv, CompilerTypes
<1> HIDE DEF f
<1>. QED BY <1>1, <1>3, <1>4, <1>5, LoadStep DEF C!LoadImport, C!setup

LEMMA StartDynamicStep ==
  ASSUME CompilerInv, C!StartDynamic
  PROVE  CompilerInv'
<1> DEFINE f == Head(dynamic)
<1>1. dynamic \in Seq(Sources) /\ dynamic # <<>> /\ compiling \in {"files", "dynamic"}
  BY DEF C!StartDynamic, CompilerInv, CompilerTypes
<1>2. f \in Sources /\ C!Load(f) /\ dynamic' \in Seq(Sources)
  BY <1>1, HeadTailProperties DEF C!StartDynamic
<1> HIDE DEF f
<1>. QED BY <1>1, <1>2, LoadStep DEF C!StartDynamic, C!setup

(* The module asked for has been met, and is no longer asked for. *)
LEMMA ImportMetStep ==
  ASSUME CompilerInv, C!ImportMet
  PROVE  CompilerInv'
<1> DEFINE n == Len(frames)
           l == frames[n].left
           r == [frames[n] EXCEPT !.left = Tail(@)]
<1>1. frames \in Seq(Frames) /\ frames # <<>>
  BY DEF C!ImportMet, C!Waiting, C!Compiling, CompilerInv, CompilerTypes
<1>2. n \in Nat \ {0} /\ DOMAIN frames = 1..n /\ frames[n] \in Frames
  BY <1>1, LastFrame
<1>3. l \in Seq(Sources) /\ l # <<>> /\ Head(l) \in loaded
  BY <1>1, <1>2, LastFrame DEF C!ImportMet, C!Waiting, C!Asked, Frames
<1>4. r \in Frames /\ r.file = frames[n].file /\ r.named = frames[n].named /\ r.left = Tail(l)
  BY <1>2, <1>3, HeadTailProperties DEF Frames
<1>5. UNCHANGED <<compiling, compileStatus, options, files, cname, asModule, dynamic, next, loaded,
                  code, inits>>
  BY DEF C!ImportMet, C!setup, C!written
<1>6. frames' = [frames EXCEPT ![n] = r]
  BY DEF C!ImportMet
<1>7. C!Range(l) \subseteq {Head(l)} \cup C!Range(Tail(l))
  BY <1>3, RangeOfTail
<1> HIDE DEF n, l, r
<1>8. /\ frames' \in Seq(Frames) /\ DOMAIN frames' = 1..n
      /\ frames'[n] = r /\ \A k \in 1..n : k # n => frames'[k] = frames[k]
  <2>1. n \in 1..n
    BY <1>2
  <2>2. frames' \in Seq(Frames) /\ DOMAIN frames' = DOMAIN frames
    <3>1. n \in 1..Len(frames)
      BY <2>1 DEF n
    <3>. QED BY <1>1, <1>4, <1>6, <3>1, ExceptSeq
  <2>3. \A k \in DOMAIN frames : frames'[k] = IF k = n THEN r ELSE frames[k]
    BY <1>6
  <2>. QED BY <1>2, <2>1, <2>2, <2>3
<1>9. \A k \in 1..n : frames'[k].file = frames[k].file /\ frames'[k].named = frames[k].named
  BY <1>4, <1>8
<1>10. CompilerTypes'
  BY <1>5, <1>8 DEF CompilerInv, CompilerTypes
<1>11. FramesInv'
  <2>1. compiling # "options"
    BY DEF C!ImportMet, C!Waiting, C!Compiling
  <2>. QED BY <1>2, <1>5, <1>8, <1>9, <2>1 DEF CompilerInv, FramesInv
<1>12. OrderInv'
  <2>1. NamedFiles' = NamedFiles
    BY <1>5 DEF NamedFiles, C!Named
  <2>. QED BY <1>5, <2>1 DEF CompilerInv, OrderInv, C!Compiled
<1>13. ImportsInv'
  <2>1. FilesIn(frames) \subseteq FilesIn(frames')
    BY <1>2, <1>8, <1>9 DEF FilesIn
  <2>2. ASSUME NEW k \in DOMAIN frames', C!AsModule(frames[k])'
        PROVE  C!Range(Imports[frames'[k].file]) \subseteq loaded' \cup C!Range(frames'[k].left)
    <3>1. C!AsModule(frames[k])
      BY <1>5, <1>8, <1>9, <2>2 DEF C!AsModule
    <3>2. C!Range(Imports[frames[k].file]) \subseteq loaded \cup C!Range(frames[k].left)
      BY <1>2, <1>8, <3>1 DEF CompilerInv, ImportsInv
    <3>3. CASE k = n
      BY <1>3, <1>4, <1>5, <1>7, <1>8, <3>2, <3>3 DEF l
    <3>4. CASE k # n
      BY <1>5, <1>8, <3>2, <3>4
    <3>. QED BY <3>3, <3>4
  <2>3. ASSUME NEW j \in DOMAIN code', C!AsModule(code[j])'
        PROVE  C!Range(Imports[code'[j].file]) \subseteq loaded'
    <3>1. C!AsModule(code[j])
      BY <1>5, <2>3 DEF C!AsModule
    <3>. QED BY <1>5, <3>1 DEF CompilerInv, ImportsInv
  <2>4. C!ImportsAreAvailable'
    BY <1>5, AvailableGrows DEF CompilerInv, ImportsInv
  <2>5. loaded' \subseteq FilesIn(code') \cup FilesIn(frames') \cup C!Range(inits') \cup Shared
    BY <1>5, <2>1 DEF CompilerInv, ImportsInv
  <2>. QED BY <2>2, <2>3, <2>4, <2>5 DEF ImportsInv
<1>14. C!LoadedModulesAreNamedApart'
  BY <1>5 DEF CompilerInv, C!LoadedModulesAreNamedApart
<1>. QED BY <1>10, <1>11, <1>12, <1>13, <1>14 DEF CompilerInv

(* The next file of the line is compiled, with all its imports to ask for. *)
LEMMA StartFileStep ==
  ASSUME CompilerInv, C!StartFile
  PROVE  CompilerInv'
<1> DEFINE f == files[next]
           module == asModule \/ f \in IsModule
           r == C!Frame(f, TRUE, IF module THEN Imports[f] ELSE <<>>)
<1>1. /\ compiling = "files" /\ frames = <<>> /\ next <= Len(files)
      /\ frames' = <<r>> /\ loaded' = (IF module THEN loaded \cup {f} ELSE loaded)
      /\ UNCHANGED <<compiling, compileStatus, options, files, cname, asModule, dynamic, next, code,
                     inits>>
  BY DEF C!StartFile, C!Ready, C!setup, C!written
<1>2. f \in Sources
  <2>1. files \in Seq(Sources) /\ next \in 1..Len(files)
    BY <1>1, LenProperties DEF CompilerInv, CompilerTypes
  <2>. QED BY <2>1, ElementOfSeq
<1>3. r \in Frames /\ r.file = f /\ r.named = TRUE /\ (module => r.left = Imports[f])
  <2>1. Imports[f] \in Seq(Sources) /\ <<>> \in Seq(Sources)
    BY <1>2, Constants
  <2>. QED BY <1>2, <2>1 DEF C!Frame, Frames
<1> HIDE DEF r
<1>4. frames' \in Seq(Frames) /\ DOMAIN frames' = {1} /\ frames'[1] = r
  BY <1>1, <1>3
<1>5. CompilerTypes'
  BY <1>1, <1>4 DEF CompilerInv, CompilerTypes
<1>6. FramesInv'
  BY <1>1, <1>3, <1>4 DEF FramesInv
<1>7. OrderInv'
  <2>1. NamedFiles' = NamedFiles
    BY <1>1 DEF NamedFiles, C!Named
  <2>. QED BY <1>1, <2>1 DEF CompilerInv, OrderInv, C!Compiled
<1>8. ImportsInv'
  <2>1. FilesIn(frames') = {f} /\ FilesIn(frames) = {}
    BY <1>1, <1>3, <1>4 DEF FilesIn
  <2>2. loaded' \subseteq FilesIn(code') \cup FilesIn(frames') \cup C!Range(inits') \cup Shared
    BY <1>1, <2>1 DEF CompilerInv, ImportsInv
  <2>3. ASSUME NEW k \in DOMAIN frames', C!AsModule(frames[k])'
        PROVE  C!Range(Imports[frames'[k].file]) \subseteq loaded' \cup C!Range(frames'[k].left)
    <3>1. frames'[k] = r
      BY <1>4
    <3>2. module
      BY <1>1, <1>3, <2>3, <3>1 DEF C!AsModule
    <3>. QED BY <1>3, <3>1, <3>2
  <2>4. ASSUME NEW j \in DOMAIN code', C!AsModule(code[j])'
        PROVE  C!Range(Imports[code'[j].file]) \subseteq loaded'
    <3>1. C!AsModule(code[j])
      BY <1>1, <2>4 DEF C!AsModule
    <3>. QED BY <1>1, <3>1 DEF CompilerInv, ImportsInv
  <2>5. C!ImportsAreAvailable'
    BY <1>1, AvailableGrows DEF CompilerInv, ImportsInv
  <2>. QED BY <2>2, <2>3, <2>4, <2>5 DEF ImportsInv
<1>9. C!LoadedModulesAreNamedApart'
  BY <1>1 DEF CompilerInv, C!LoadedModulesAreNamedApart
<1>. QED BY <1>5, <1>6, <1>7, <1>8, <1>9 DEF CompilerInv

(* The innermost file is written.  A named one is alone, the next of the line; what QuickJS met *)
(* before is written, declared or shared then.                                                  *)
LEMMA OutputStep ==
  ASSUME CompilerInv, C!Output
  PROVE  CompilerInv'
<1> DEFINE n == Len(frames)
           m == Len(code)
           r == C!Last(frames)
           f == r.file
           name == IF ~r.named THEN C!UniqueName(CName[f])
                   ELSE IF next = 1 /\ cname # C!NoName THEN cname ELSE CName[f]
           e == C!Written(f, r.named, name)
<1>1. frames \in Seq(Frames) /\ frames # <<>> /\ compiling \in {"files", "dynamic"} /\ r.left = <<>>
  BY DEF C!Output, C!Compiling, CompilerInv, CompilerTypes
<1>2. /\ code' = Append(code, e) /\ next' = (IF r.named THEN next + 1 ELSE next)
      /\ frames' = C!Front(frames)
      /\ UNCHANGED <<compiling, compileStatus, options, files, cname, asModule, dynamic, loaded, inits>>
  BY DEF C!Output, C!setup
<1>3. /\ n \in Nat \ {0} /\ DOMAIN frames = 1..n /\ r = frames[n] /\ r \in Frames
      /\ frames' \in Seq(Frames) /\ Len(frames') = n - 1 /\ DOMAIN frames' = 1..(n - 1)
      /\ \A k \in 1..(n - 1) : frames'[k] = frames[k]
  <2>1. /\ Len(frames) \in Nat \ {0} /\ DOMAIN frames = 1..Len(frames)
        /\ C!Last(frames) = frames[Len(frames)] /\ C!Last(frames) \in Frames
        /\ C!Front(frames) \in Seq(Frames) /\ Len(C!Front(frames)) = Len(frames) - 1
        /\ DOMAIN C!Front(frames) = 1..(Len(frames) - 1)
        /\ \A k \in 1..(Len(frames) - 1) : C!Front(frames)[k] = frames[k]
    <3>1. frames \in Seq(Frames) /\ frames # <<>>
      BY <1>1
    <3>. QED BY Zenon, <3>1, LastFrame
  <2>. QED BY <1>2, <2>1
<1>4. code \in Seq(Entries) /\ files \in Seq(Sources) /\ next \in 1..(Len(files) + 1)
  BY DEF CompilerInv, CompilerTypes
<1>5. f \in Sources /\ r.named \in BOOLEAN
  BY <1>3 DEF Frames
<1>6. CName[f] \in C!CNames
  BY <1>5, Constants
<1>7. name \in C!CNames /\ (~r.named => ~C!Taken(name))
  <2>1. C!UniqueName(CName[f]) \in C!CNames /\ ~C!Taken(C!UniqueName(CName[f]))
    BY <1>4, <1>6, UniqueNameIsFree
  <2>2. cname \in C!CNames \cup {C!NoName}
    BY DEF CompilerInv, CompilerTypes
  <2>. QED BY <1>6, <2>1, <2>2
<1> HIDE DEF name
<1>8. e \in Entries /\ e.file = f /\ e.named = r.named /\ e.name = name
  BY <1>5, <1>7 DEF C!Written, Entries
<1>9. r.named => n = 1 /\ compiling = "files" /\ next <= Len(files) /\ f = files[next]
  <2>1. n \in DOMAIN frames
    BY <1>3
  <2>. QED BY <1>1, <1>3, <2>1 DEF CompilerInv, FramesInv
<1> HIDE DEF n, m, r, f, e
<1>10. /\ m \in Nat /\ DOMAIN code = 1..m
       /\ code' \in Seq(Entries) /\ Len(code') = m + 1 /\ DOMAIN code' = 1..(m + 1)
       /\ code'[m + 1] = e /\ \A j \in 1..m : code'[j] = code[j]
       /\ FilesIn(code') = FilesIn(code) \cup {f}
  <2>1. m \in Nat /\ m = Len(code) /\ DOMAIN code = 1..m
    BY <1>4, LenProperties DEF m
  <2>2. /\ code' \in Seq(Entries) /\ Len(code') = m + 1
        /\ code'[m + 1] = e /\ \A j \in 1..m : code'[j] = code[j]
    BY <1>2, <1>4, <1>8, <2>1, AppendProperties
  <2>3. FilesIn(code') = FilesIn(code) \cup {f}
    BY <1>2, <1>4, <1>8, FilesOfAppend
  <2>. QED BY <2>1, <2>2, <2>3, LenProperties
<1>11. Len(files) \in Nat /\ next' \in 1..(Len(files) + 1)
  BY <1>2, <1>4, <1>9, LenProperties
<1>12. CompilerTypes'
  BY <1>2, <1>3, <1>10, <1>11 DEF CompilerInv, CompilerTypes
<1>13. FramesInv'
  <2>1. ASSUME NEW k \in DOMAIN frames', frames'[k].named
        PROVE  /\ k = 1 /\ compiling' \in {"files", "done"}
               /\ next' <= Len(files') /\ frames'[k].file = files'[next']
    <3>1. k \in 1..n /\ n # 1 /\ frames[k].named /\ frames'[k] = frames[k]
      BY <1>3, <2>1
    <3>2. ~r.named
      BY <1>9, <3>1
    <3>. QED BY <1>2, <1>3, <3>1, <3>2 DEF CompilerInv, FramesInv
  <2>2. compiling' # "options"
    BY <1>1, <1>2
  <2>. QED BY <2>1, <2>2 DEF FramesInv
<1>14. OrderInv'
  <2> DEFINE I == {i \in DOMAIN code : code[i].named}
             J == {i \in DOMAIN code' : code'[i].named}
             p == Picked(code, I)
             q == Picked(code', J)
  <2>1. C!Named = p /\ C!Named' = q
    BY InstanceOfPicked DEF C!Named
  <2>2. I \in SUBSET (1..Len(code))
    BY <1>10 DEF m
  <2>3. /\ p \in Seq(Entries) /\ NamedFiles = SubSeq(files, 1, next - 1)
        /\ NamedFiles = [i \in DOMAIN p |-> p[i].file]
    BY <1>4, <2>1, <2>2, PickedProperties DEF CompilerInv, OrderInv, NamedFiles
  <2>4. NamedFiles' = [i \in DOMAIN q |-> q[i].file]
    BY <2>1 DEF NamedFiles
  <2>5. CASE ~r.named
    <3>1. J = I
      BY <1>8, <1>10, <2>5
    <3>2. q = p
      <4> HIDE DEF I, J
      <4>. QED BY <1>2, <1>4, <1>8, <2>2, <3>1, PickedOfAppend
    <3>3. NamedFiles' = NamedFiles
      BY <2>3, <2>4, <3>2
    <3>. QED BY <1>2, <2>5, <3>3 DEF CompilerInv, OrderInv, C!Compiled
  <2>6. CASE r.named
    <3>1. J = I \cup {Len(code) + 1}
      <4>1. \A i \in 1..(m + 1) : i \in J <=> (i \in 1..m /\ code[i].named) \/ i = m + 1
        <5>1. \A i \in 1..(m + 1) : i \in 1..m \/ i = m + 1
          BY <1>10
        <5>. QED BY <1>8, <1>10, <2>6, <5>1
      <4>2. \A i \in 1..m : i \in 1..(m + 1)
        BY <1>10
      <4>. QED BY <1>10, <4>1, <4>2 DEF m
    <3>2. q = Append(p, e)
      <4> HIDE DEF I, J
      <4>. QED BY <1>2, <1>4, <1>8, <2>2, <3>1, PickedAppends
    <3>3. /\ next \in Nat /\ next \in 1..Len(files) /\ next - 1 \in Nat
          /\ next' = next + 1 /\ next' - 1 = next /\ compiling' = "files"
      BY <1>2, <1>4, <1>9, <1>11, <2>6
    <3>4. \A i \in 1..Len(files) : files[i] \in Sources
      BY <1>4, ElementOfSeq
    <3> HIDE DEF p, q
    <3>5. /\ q \in Seq(Entries) /\ Len(q) = Len(p) + 1 /\ q[Len(p) + 1] = e
          /\ \A i \in 1..Len(p) : q[i] = p[i]
          /\ Len(p) \in Nat /\ DOMAIN p = 1..Len(p) /\ DOMAIN q = 1..(Len(p) + 1)
      BY <1>8, <2>3, <3>2, AppendProperties, LenProperties
    <3>6. /\ Len(SubSeq(files, 1, next - 1)) = next - 1
          /\ DOMAIN SubSeq(files, 1, next - 1) = 1..(next - 1)
          /\ \A i \in 1..(next - 1) : SubSeq(files, 1, next - 1)[i] = files[i]
          /\ Len(SubSeq(files, 1, next)) = next
          /\ DOMAIN SubSeq(files, 1, next) = 1..next
          /\ \A i \in 1..next : SubSeq(files, 1, next)[i] = files[i]
      <4>1. /\ SubSeq(files, 1, next - 1) \in Seq(Sources)
            /\ Len(SubSeq(files, 1, next - 1)) = next - 1
            /\ \A i \in 1..(next - 1) : SubSeq(files, 1, next - 1)[i] = files[i]
        <5>1. \A i \in 1..(next - 1) : files[i] \in Sources
          BY <3>3, <3>4
        <5>2. /\ SubSeq(files, 1, next - 1) \in Seq(Sources)
              /\ Len(SubSeq(files, 1, next - 1)) = IF 1 <= next - 1 THEN next - 1 - 1 + 1 ELSE 0
              /\ \A i \in 1..(next - 1 - 1 + 1) : SubSeq(files, 1, next - 1)[i] = files[1 + i - 1]
          BY <3>3, <5>1, SubSeqProperties
        <5>. QED BY <3>3, <5>2
      <4>2. /\ SubSeq(files, 1, next) \in Seq(Sources)
            /\ Len(SubSeq(files, 1, next)) = next
            /\ \A i \in 1..next : SubSeq(files, 1, next)[i] = files[i]
        <5>1. \A i \in 1..next : files[i] \in Sources
          BY <3>3, <3>4
        <5>2. /\ SubSeq(files, 1, next) \in Seq(Sources)
              /\ Len(SubSeq(files, 1, next)) = IF 1 <= next THEN next - 1 + 1 ELSE 0
              /\ \A i \in 1..(next - 1 + 1) : SubSeq(files, 1, next)[i] = files[1 + i - 1]
          BY <3>3, <5>1, SubSeqProperties
        <5>. QED BY <3>3, <5>2
      <4>. QED BY <4>1, <4>2, LenProperties
    <3>7. Len(p) = next - 1 /\ \A i \in 1..(next - 1) : p[i].file = files[i]
      <4>1. DOMAIN NamedFiles = 1..Len(p)
        BY <2>3, <3>5
      <4>2. 1..Len(p) = 1..(next - 1)
        BY <2>3, <3>6, <4>1
      <4>3. Len(p) = next - 1
        BY <3>3, <3>5, <4>2
      <4>. QED BY <2>3, <3>5, <3>6, <4>3
    <3>8. NamedFiles' = SubSeq(files, 1, next)
      <4>1. DOMAIN q = 1..next
        BY <3>3, <3>5, <3>7
      <4>2. \A i \in 1..next : q[i].file = files[i]
        <5>1. \A i \in 1..next : i \in 1..(next - 1) \/ i = next
          BY <3>3
        <5>. QED BY <1>8, <1>9, <2>6, <3>3, <3>5, <3>7, <5>1
      <4> DEFINE t == SubSeq(files, 1, next)
      <4>3. DOMAIN t = 1..next /\ \A i \in 1..next : t[i] = files[i]
        BY <3>6
      <4>4. t \in Seq(Sources)
        BY <3>3, <3>4, SubSeqProperties
      <4> HIDE DEF t
      <4>5. t = [i \in 1..next |-> t[i]]
        BY <4>3, <4>4
      <4>6. NamedFiles' = [i \in 1..next |-> q[i].file]
        BY <2>4, <4>1
      <4>. QED BY <4>2, <4>3, <4>5, <4>6 DEF t
    <3>. QED BY <1>1, <1>2, <1>9, <2>6, <3>3, <3>8 DEF OrderInv, C!Compiled
  <2>. QED BY <1>5, <2>5, <2>6
<1>15. ImportsInv'
  <2>1. FilesIn(frames) \subseteq FilesIn(frames') \cup {f}
    <3>1. \A k \in 1..n : k = n \/ k \in 1..(n - 1)
      BY <1>3
    <3>. QED BY <1>3, <3>1 DEF FilesIn, f
  <2>2. loaded' \subseteq FilesIn(code') \cup FilesIn(frames') \cup C!Range(inits') \cup Shared
    BY <1>2, <1>10, <2>1 DEF CompilerInv, ImportsInv
  <2>3. ASSUME NEW k \in DOMAIN frames', C!AsModule(frames[k])'
        PROVE  C!Range(Imports[frames'[k].file]) \subseteq loaded' \cup C!Range(frames'[k].left)
    <3>1. k \in DOMAIN frames /\ frames'[k] = frames[k]
      BY <1>3
    <3>2. C!AsModule(frames[k])
      BY <1>2, <2>3, <3>1 DEF C!AsModule
    <3>. QED BY <1>2, <3>1, <3>2 DEF CompilerInv, ImportsInv
  <2>4. \A j \in 1..(m + 1) : j \in 1..m \/ j = m + 1
    BY <1>10
  <2>5. ASSUME NEW j \in 1..m
        PROVE  C!AsModule(code[j])' <=> C!AsModule(code[j])
    BY <1>2, <1>10 DEF C!AsModule
  <2>6. ASSUME NEW j \in DOMAIN code', C!AsModule(code[j])'
        PROVE  C!Range(Imports[code'[j].file]) \subseteq loaded'
    <3>1. CASE j \in 1..m
      BY <1>2, <1>10, <2>5, <2>6, <3>1 DEF CompilerInv, ImportsInv
    <3>2. CASE j = m + 1
      <4>1. C!AsModule(frames[n])
        BY <1>2, <1>3, <1>8, <1>10, <2>6, <3>2 DEF C!AsModule, f
      <4>2. C!Range(r.left) = {}
        BY <1>1 DEF C!Range, r
      <4>3. n \in DOMAIN frames
        BY <1>3
      <4>4. C!Range(Imports[f]) \subseteq loaded
        BY <1>3, <4>1, <4>2, <4>3 DEF CompilerInv, ImportsInv, f
      <4>. QED BY <1>2, <1>8, <1>10, <3>2, <4>4
    <3>. QED BY <1>10, <2>4, <3>1, <3>2
  <2>7. ASSUME NEW p \in 1..m
        PROVE  C!Available(p)' = C!Available(p)
    <3>1. \A j \in 1..p : j \in 1..m
      BY <1>10
    <3>. QED BY <1>2, <1>10, <3>1 DEF C!Available
  <2>8. ASSUME NEW p \in DOMAIN code', code'[p].named, NEW j \in 1..p, C!AsModule(code[j])'
        PROVE  C!Range(Imports[code'[j].file]) \subseteq C!Available(p)'
    <3>1. CASE p \in 1..m
      <4>1. j \in 1..m
        BY <1>10, <3>1
      <4>2. C!AsModule(code[j]) /\ code'[j] = code[j] /\ code[p].named
        BY <1>10, <2>5, <2>8, <3>1, <4>1
      <4>3. C!Range(Imports[code[j].file]) \subseteq C!Available(p)
        BY <1>10, <3>1, <4>2 DEF CompilerInv, ImportsInv, C!ImportsAreAvailable
      <4>. QED BY <2>7, <3>1, <4>2, <4>3
    <3>2. CASE p = m + 1
      <4>1. n = 1 /\ FilesIn(frames') = {}
        <5>1. n = 1
          BY <1>8, <1>9, <1>10, <2>8, <3>2
        <5>2. DOMAIN frames' = {}
          BY <1>3, <5>1
        <5>. QED BY <5>1, <5>2 DEF FilesIn
      <4>2. FilesIn(code') \subseteq {code'[i].file : i \in 1..p}
        BY <1>10, <3>2 DEF FilesIn
      <4>3. loaded' \subseteq C!Available(p)'
        BY <2>2, <4>1, <4>2 DEF C!Available
      <4>4. C!Range(Imports[code'[j].file]) \subseteq loaded'
        BY <1>10, <2>6, <2>8, <3>2
      <4>. QED BY <4>3, <4>4
    <3>. QED BY <1>10, <2>4, <3>1, <3>2
  <2>9. C!ImportsAreAvailable'
    BY <2>8 DEF C!ImportsAreAvailable
  <2>. QED BY <2>2, <2>3, <2>6, <2>9 DEF ImportsInv
<1>16. C!LoadedModulesAreNamedApart'
  <2>1. ASSUME NEW j \in DOMAIN code', ~code'[j].named, NEW i \in 1..(j - 1)
        PROVE  code'[i].name # code'[j].name
    <3>1. CASE j \in 1..m
      <4>1. i \in 1..m
        BY <1>10, <3>1
      <4>. QED BY <1>10, <2>1, <3>1, <4>1 DEF CompilerInv, C!LoadedModulesAreNamedApart
    <3>2. CASE j = m + 1
      <4>1. i \in 1..m
        BY <1>10, <3>2
      <4>2. ~C!Taken(name)
        BY <1>7, <1>8, <1>10, <2>1, <3>2
      <4>. QED BY <1>8, <1>10, <3>2, <4>1, <4>2 DEF C!Taken
    <3>3. j \in 1..m \/ j = m + 1
      BY <1>10
    <3>. QED BY <3>1, <3>2, <3>3
  <2>. QED BY <2>1 DEF C!LoadedModulesAreNamedApart
<1>. QED BY <1>12, <1>13, <1>14, <1>15, <1>16 DEF CompilerInv

-----------------------------------------------------------------------------
(* and both together.  The runtime's steps leave the compiler as it is.      *)

LEMMA CompilerStep ==
  ASSUME CompilerInv, [MainNext]_mainVars
  PROVE  CompilerInv'
<1>1. CASE C!Next
  BY <1>1, OptionStep, PhaseSteps, StartFileStep, ImportMetStep, LoadImportStep, OutputStep,
     StartDynamicStep DEF C!Next
<1>2. CASE UNCHANGED compilerVars
  BY <1>2, PhaseStep DEF compilerVars, C!Compiled, CompilerInv, OrderInv
<1>3. C!Next \/ UNCHANGED compilerVars
  BY DEF MainNext, RunCompiler, RunRuntime, ReturnFromCompile, mainVars
<1>. QED BY <1>1, <1>2, <1>3

LEMMA CompilerInvariant == MainSpec => []CompilerInv
<1>1. MainInit => CompilerInv
  BY CompilerInitially DEF MainInit
<1>2. CompilerInv /\ [MainNext]_mainVars => CompilerInv'
  BY CompilerStep
<1>. QED BY <1>1, <1>2, PTL DEF MainSpec

(* The program that the compiler writes runs the files of the line, in their order and nothing   *)
(* else, whatever they import.                                                                   *)
THEOREM AlwaysRunsWhatWasNamed == MainSpec => []RunsWhatWasNamed
<1>1. ASSUME CompilerInv, C!Compiled
      PROVE  [i \in DOMAIN C!Named |-> C!Named[i].file] = files
  <2>1. files \in Seq(Sources) /\ Len(files) \in Nat /\ next - 1 = Len(files)
    BY <1>1, LenProperties DEF CompilerInv, CompilerTypes, OrderInv
  <2>2. SubSeq(files, 1, Len(files)) = files
    BY <2>1, SubSeqFull
  <2>. QED BY <1>1, <2>1, <2>2 DEF CompilerInv, OrderInv, NamedFiles
<1>2. CompilerInv => RunsWhatWasNamed
  BY <1>1 DEF RunsWhatWasNamed, C!RunsWhatWasNamed
<1>. QED BY <1>2, CompilerInvariant, PTL

(* When that program runs a file, what the file reaches through imports is there, in any cycle. *)
THEOREM ImportsAreAlwaysAvailable == MainSpec => []ImportsAreAvailable
<1>1. CompilerInv => ImportsAreAvailable
  BY DEF CompilerInv, ImportsInv, ImportsAreAvailable
<1>. QED BY <1>1, CompilerInvariant, PTL

(* A module the loader met is written under a name that nothing written before it has. *)
THEOREM LoadedModulesAreAlwaysNamedApart == MainSpec => []LoadedModulesAreNamedApart
<1>1. CompilerInv => LoadedModulesAreNamedApart
  BY DEF CompilerInv, LoadedModulesAreNamedApart
<1>. QED BY <1>1, CompilerInvariant, PTL
=============================================================================
