----------------------------- MODULE Dictionary -----------------------------
(***************************************************************************)
(* What src/libstd's map promises its callers: a partial function from     *)
(* keys to values.  Buckets, chains, the load factor and rehashing do not  *)
(* exist at this level.  Running out of memory does: a put may refuse, and *)
(* then the dictionary is exactly what it was.  A lookup or a deletion is   *)
(* answered at once; a put may take a while.                               *)
(***************************************************************************)
CONSTANTS Keys,     \* the keys a caller uses
          Values,   \* the non-null pointers a caller stores
          Nil       \* nullptr: stored like any value, and what a miss returns

VARIABLES dict,     \* the contents: a function whose domain is the set of keys present
          call,     \* the last call made of it
          putting,  \* whether that call is a put that has not returned
          result    \* what the last call that returned gave back

vars == <<dict, call, putting, result>>

Storable == Values \cup {Nil}
Call(op, k, v) == [op |-> op, key |-> k, value |-> v]
Empty == [k \in {} |-> Nil]

Init == /\ dict = Empty
        /\ call \in {Call("put", k, v) : k \in Keys, v \in Storable}
        /\ putting = FALSE
        /\ result = Nil

BeginPut(k, v) ==
  /\ ~putting
  /\ putting' = TRUE
  /\ call' = Call("put", k, v)
  /\ UNCHANGED <<dict, result>>

EndPut ==
  /\ putting
  /\ putting' = FALSE
  /\ result' = TRUE
  /\ dict' = [k \in DOMAIN dict \cup {call.key} |-> IF k = call.key THEN call.value ELSE dict[k]]
  /\ UNCHANGED call

(* a put that fails, at once or after a while *)
RefusePut ==
  /\ \/ putting /\ UNCHANGED call
     \/ \E k \in Keys, v \in Storable : ~putting /\ call' = Call("put", k, v)
  /\ putting' = FALSE
  /\ result' = FALSE
  /\ UNCHANGED dict

Get(k) ==
  /\ ~putting
  /\ call' = Call("get", k, Nil)
  /\ result' = IF k \in DOMAIN dict THEN dict[k] ELSE Nil
  /\ UNCHANGED <<dict, putting>>

Delete(k) ==
  /\ ~putting
  /\ call' = Call("delete", k, Nil)
  /\ result' = (k \in DOMAIN dict)
  /\ dict' = [j \in DOMAIN dict \ {k} |-> dict[j]]
  /\ UNCHANGED putting

Clear ==
  /\ ~putting
  /\ dict' = Empty
  /\ UNCHANGED <<call, putting, result>>

Next == \/ \E k \in Keys, v \in Storable : BeginPut(k, v)
        \/ EndPut \/ RefusePut \/ Clear
        \/ \E k \in Keys : Get(k) \/ Delete(k)

Spec == Init /\ [][Next]_vars
=============================================================================
