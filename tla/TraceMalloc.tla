---------------------------- MODULE TraceMalloc ----------------------------
(***************************************************************************)
(* The tracing allocator of src/x/ptkl.c, which the runtime gives the engine *)
(* with --trace: malloc, free and realloc with a count, a total and a limit.  *)
(*                                                                         *)
(* What malloc hands out may be larger than what was asked for               *)
(* (malloc_usable_size); the limit is compared with the request, the total   *)
(* grows by what was handed out and an overhead.                            *)
(***************************************************************************)
EXTENDS Integers, FiniteSets, Functions

CONSTANTS Blocks,    \* where malloc may put a block
          Requests,  \* the sizes the engine asks for
          Rounding,  \* how much larger than its request a block may be
          Overhead,  \* MALLOC_OVERHEAD
          Unlimited  \* malloc_limit when none was set

ASSUME MallocAssumption ==
  /\ IsFiniteSet(Blocks) /\ Requests \subseteq Nat \ {0}
  /\ Rounding \in Nat /\ Overhead \in Nat /\ Unlimited \in Nat

VARIABLES usable,       \* the usable size of each block that is in use
          malloc_count,
          malloc_size,
          malloc_limit

heap == <<usable, malloc_count, malloc_size, malloc_limit>>

Live == DOMAIN usable
HeapInit ==
  /\ usable = [b \in {} |-> 0]
  /\ malloc_count = 0 /\ malloc_size = 0 /\ malloc_limit = Unlimited

(* The bytes that count as used, block by block *)
BytesOf(b, n) == {b} \X (1..(n + Overhead))
Bytes == UNION {BytesOf(b, usable[b]) : b \in Live}

With(b, n) == [c \in Live \cup {b} |-> IF c = b THEN n ELSE usable[c]]

(* js_trace_malloc; it gives up when the limit or the memory is exceeded. *)
Malloc(size) ==
  /\ malloc_size + size <= malloc_limit
  /\ \E b \in Blocks \ Live, n \in size..(size + Rounding) :
       /\ usable' = With(b, n)
       /\ malloc_size' = malloc_size + n + Overhead
  /\ malloc_count' = malloc_count + 1
  /\ UNCHANGED malloc_limit

MutFreeForgetsOverhead(b) ==
  /\ b \in Live
  /\ usable' = Restrict(usable, Live \ {b})
  /\ malloc_count' = malloc_count - 1
  /\ malloc_size' = malloc_size - usable[b]
  /\ UNCHANGED malloc_limit

Free(b) ==
  /\ b \in Live
  /\ usable' = Restrict(usable, Live \ {b})
  /\ malloc_count' = malloc_count - 1
  /\ malloc_size' = malloc_size - (usable[b] + Overhead)
  /\ UNCHANGED malloc_limit

MutReallocChecksTheGrowthOnly(b, size) ==
  /\ b \in Live /\ size <= malloc_limit
  /\ \E c \in (Blocks \ Live) \cup {b}, n \in size..(size + Rounding) :
       /\ usable' = [d \in (Live \ {b}) \cup {c} |-> IF d = c THEN n ELSE usable[d]]
       /\ malloc_size' = malloc_size + (n - usable[b])
  /\ UNCHANGED <<malloc_count, malloc_limit>>

(* js_trace_realloc of a block to a size other than 0, which it may move.  Without a block it *)
(* is Malloc and to size 0 it is Free.                                                        *)
Realloc(b, size) ==
  /\ b \in Live
  /\ malloc_size + size - usable[b] <= malloc_limit
  /\ \E c \in (Blocks \ Live) \cup {b}, n \in size..(size + Rounding) :
       /\ usable' = [d \in (Live \ {b}) \cup {c} |-> IF d = c THEN n ELSE usable[d]]
       /\ malloc_size' = malloc_size + (n - usable[b])
  /\ UNCHANGED <<malloc_count, malloc_limit>>

(* JS_SetMemoryLimit *)
SetLimit(n) == malloc_limit' = n /\ UNCHANGED <<usable, malloc_count, malloc_size>>

HeapNext ==
  \/ \E size \in Requests : Malloc(size) \/ \E b \in Live : Realloc(b, size)
  \/ \E b \in Live : Free(b)

-----------------------------------------------------------------------------
(* Properties *)

(* The total is the number of bytes of the blocks in use, with their overhead, and the count    *)
(* is the number of blocks, whatever realloc moved, grew or shrank: neither goes below zero,    *)
(* where a size_t wraps and every later request exceeds the limit.                              *)
BlocksAccountedFor ==
  /\ malloc_count = Cardinality(Live)
  /\ malloc_size = Cardinality(Bytes)

(* A block is handed out or grown only while the total stays within the limit, but for what    *)
(* malloc rounds up and the overhead of one block, which the check leaves out.                 *)
LimitHolds ==
  [][malloc_size' > malloc_size => malloc_size' <= malloc_limit + Rounding + Overhead]_heap
=============================================================================
