------------------------------ MODULE MCStrings ------------------------------
(***************************************************************************)
(* Texts of up to three characters, and slices that may miss them.          *)
(***************************************************************************)
EXTENDS Strings

MCUpper == [c \in {"f", "F", " "} |-> IF c = "f" THEN "F" ELSE c]
=============================================================================
