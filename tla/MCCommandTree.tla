--------------------------- MODULE MCCommandTree ---------------------------
(***************************************************************************)
(* Small trees below a root.  Commands other than the root, names and       *)
(* groups are interchangeable.                                             *)
(***************************************************************************)
EXTENDS CommandTree

Interchangeable ==
  Permutations(Commands \ {Root}) \cup Permutations(Names) \cup Permutations(Groups)
    \cup Permutations(Values)
=============================================================================
