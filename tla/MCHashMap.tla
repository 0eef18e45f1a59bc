----------------------------- MODULE MCHashMap -----------------------------
(***************************************************************************)
(* Four of ptkl's command names, hashed by the code's own function, in a   *)
(* map that starts with two buckets: data is alone, help, run and logs     *)
(* share a bucket of two and of four, and help leaves them at eight.       *)
(***************************************************************************)
EXTENDS HashMapWalk

Names == {"help", "run", "logs", "data"}

Bytes == [help |-> <<104, 101, 108, 112>>,
          run  |-> <<114, 117, 110>>,
          logs |-> <<108, 111, 103, 115>>,
          data |-> <<100, 97, 116, 97>>]

D == INSTANCE Djb2
NameHash == [k \in Names |-> D!Djb2(Bytes[k])]
=============================================================================
