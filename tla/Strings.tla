------------------------------- MODULE Strings -------------------------------
(***************************************************************************)
(* One string of libstd, src/src/libstd/src/types/strings.c, from string_new  *)
(* to string_free, with the calls that change it.  The text itself is sds's,  *)
(* which is not in the repository: Range is what sdsrange keeps.             *)
(*                                                                         *)
(* A call that returns the string may have moved it; the caller goes on with  *)
(* what it returns, as strings.h asks.                                       *)
(***************************************************************************)
EXTENDS Integers, Sequences, SequencesExt

CONSTANTS Letters,   \* the characters texts are made of
          Blank,     \* the one string_trim is asked to remove
          Upper,     \* toupper of each
          MaxLength  \* bound on a text

VARIABLES live,   \* the string has been made and not been freed
          s,      \* its text, empty while there is none
          sliced  \* the last slice: of what, from and to where; NoSlice if another call came after

NoSlice == [of |-> <<>>, start |-> 0, end |-> 0]
vars == <<live, s, sliced>>

Texts == UNION {[1..n -> Letters] : n \in 0..MaxLength}
Becomes(t) == t \in Texts /\ live' = TRUE /\ s' = t /\ sliced' = NoSlice

Init == live = FALSE /\ s = <<>> /\ sliced = NoSlice

(* string_new, string_from, string_format *)
StringNew(t) == ~live /\ Becomes(t)

(* string_set, string_copy, string_set_fmt *)
StringSet(t) == live /\ Becomes(t)

(* string_cat, string_cat_string, string_cat_fmt *)
StringCat(t) == live /\ Becomes(s \o t)

(* string_trim: at both ends *)
StringTrim ==
  /\ live
  /\ LET kept == {i \in 1..Len(s) : s[i] # Blank}
     IN Becomes(IF kept = {} THEN <<>>
                ELSE SubSeq(s, CHOOSE i \in kept : \A j \in kept : i <= j,
                               CHOOSE i \in kept : \A j \in kept : i >= j))

StringToUpper == live /\ Becomes([i \in 1..Len(s) |-> Upper[s[i]]])

StringClear == live /\ Becomes(<<>>)

StringFree == live /\ live' = FALSE /\ s' = <<>> /\ sliced' = NoSlice

(* sdsrange: both ends are kept, a negative one counts from the end of the text *)
FromEnd(i) == IF i >= 0 THEN i ELSE IF Len(s) + i > 0 THEN Len(s) + i ELSE 0
KeptRange(start, end) ==
  SubSeq(s, FromEnd(start) + 1, IF FromEnd(end) < Len(s) THEN FromEnd(end) + 1 ELSE Len(s))

(* string_slice *)
StringSlice(start, end) ==
  /\ live
  /\ live' = live /\ s' = KeptRange(start, IF end > 0 THEN end - 1 ELSE end)
  /\ sliced' = [of |-> s, start |-> start, end |-> end]

Next ==
  \/ \E t \in Texts : StringNew(t) \/ StringSet(t) \/ StringCat(t)
  \/ StringTrim \/ StringToUpper \/ StringClear \/ StringFree
  \/ \E i, j \in -MaxLength..(MaxLength + 1) : StringSlice(i, j)

Spec == Init /\ [][Next]_vars

-----------------------------------------------------------------------------
(* Properties *)

(* "end The index of the first character to exclude from the returned substring" (strings.h): *)
(* a slice whose ends count from the start holds the characters from start up to end, end not *)
(* among them.                                                                              *)
SliceExcludesEnd ==
  sliced # NoSlice /\ sliced.start >= 0 /\ sliced.end >= 0 =>
    s = SubSeq(sliced.of, sliced.start + 1,
               IF sliced.end < Len(sliced.of) THEN sliced.end ELSE Len(sliced.of))
=============================================================================
