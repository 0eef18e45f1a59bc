-------------------------------- MODULE Djb2 --------------------------------
(***************************************************************************)
(* hash() of src/libstd/src/types/map.c, on the low Bits bits of the       *)
(* unsigned long it computes.  Every capacity of a map is INITIAL_CAPACITY  *)
(* times a power of two, so while capacities stay below 2^Bits the bucket  *)
(* of a key depends on these bits alone.                                   *)
(***************************************************************************)
EXTENDS Integers, SequencesExt

Bits == 16
Modulus == 2 ^ Bits

(* hash = (hash << 5) + hash + c, from 5381, over the bytes of the string *)
Djb2(bytes) == FoldLeft(LAMBDA h, c : (h * 32 + h + c) % Modulus, 5381 % Modulus, bytes)
=============================================================================
