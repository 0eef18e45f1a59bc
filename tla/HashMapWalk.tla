---------------------------- MODULE HashMapWalk ----------------------------
(***************************************************************************)
(* map_keys, map_values and map_items of src/libstd/src/types/map.c: the   *)
(* walk over the bucket array that copies what it finds into an array the  *)
(* caller allocated with map_size(m) elements (command_free does).         *)
(***************************************************************************)
EXTENDS HashMap, SequencesExt

MutWalkSkipsFirst == FlattenSeq([b \in 1 .. capacity - 1 |-> buckets[b]])

(* The nodes in the order the nested loops visit them. *)
Walk == FlattenSeq([b \in 1 .. capacity |-> buckets[b - 1]])

MapKeys == [i \in DOMAIN Walk |-> Walk[i].key]
MapValues == [i \in DOMAIN Walk |-> Walk[i].value]
MapItems == [i \in DOMAIN Walk |-> <<Walk[i].key, Walk[i].value>>]

(* Between calls the walk writes exactly size elements, each key once, and  *)
(* the arrays of map_keys and map_values agree index by index with what     *)
(* map_get answers: the caller's array neither overflows nor keeps an       *)
(* element nobody wrote.                                                    *)
WalkIsExact ==
  pc = "idle" => /\ Len(Walk) = size
                 /\ IsInjective(MapKeys)
                 /\ ToSet(MapItems) = {<<k, Contents[k]>> : k \in DOMAIN Contents}
                 /\ \A i \in DOMAIN Walk : MapValues[i] = Contents[MapKeys[i]]
=============================================================================
