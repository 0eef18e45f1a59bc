------------------------------ MODULE DString ------------------------------
(***************************************************************************)
(* src/x/dstring/dstring.c: a string with a reference count, used the way    *)
(* dstring.h asks for: every variable that points to a string is a reference, *)
(* counted by dstring_new or dstring_addref and given back by                *)
(* dstring_release, or by dstring_free when it is the only one.              *)
(*                                                                         *)
(* The text is sds's.  When sds finds no memory the string has a null text,  *)
(* which dstring_addref does not count a reference for and most of the others *)
(* read.  What a text says makes no difference here.                         *)
(***************************************************************************)
EXTENDS Integers, FiniteSets

CONSTANTS Variables,  \* what may point to a string
          Cells,      \* where malloc may put one
          Nil         \* a null pointer

ASSUME CellsAssumption == IsFiniteSet(Variables) /\ Nil \notin Cells

VARIABLES strings,  \* each string that is allocated: its count, and whether it has its text
          ref,      \* what each variable points to
          starved,  \* whether sds ever found no memory
          process   \* "runs", "exited", "crashed", or "moved": read where a text was before

stringVars == <<strings, ref, starved, process>>

Live == DOMAIN strings
Holders(c) == {v \in Variables : ref[v] = c}

StringInit ==
  /\ strings = [c \in {} |-> 0] /\ ref = [v \in Variables |-> Nil]
  /\ starved = FALSE /\ process = "runs"

With(c, s) == [d \in Live \cup {c} |-> IF d = c THEN s ELSE strings[d]]
Without(c) == [d \in Live \ {c} |-> strings[d]]

Fresh == CHOOSE c \in Cells : c \notin Live

(* dstring_new.  sdsnew may find no memory, which nobody looks at; *)
NewString(v) ==
  /\ process = "runs" /\ ref[v] = Nil /\ Cells \ Live # {}
  /\ \E there \in BOOLEAN :
       /\ strings' = With(Fresh, [count |-> 1, text |-> there])
       /\ starved' = (starved \/ ~there)
  /\ ref' = [ref EXCEPT ![v] = Fresh]
  /\ UNCHANGED process

(* malloc may, and the process exits. *)
NewStringExits ==
  /\ process = "runs" /\ process' = "exited"
  /\ UNCHANGED <<strings, ref, starved>>

MutAddRefForgetsToCount(v, w) ==
  /\ process = "runs" /\ ref[v] \in Live /\ ref[w] = Nil
  /\ ref' = [ref EXCEPT ![w] = ref[v]]
  /\ UNCHANGED <<strings, starved, process>>

(* dstring_addref (v); w = v *)
AddRef(v, w) ==
  /\ process = "runs" /\ ref[v] \in Live /\ ref[w] = Nil
  /\ strings' = IF strings[ref[v]].text THEN [strings EXCEPT ![ref[v]].count = @ + 1] ELSE strings
  /\ ref' = [ref EXCEPT ![w] = ref[v]]
  /\ UNCHANGED <<starved, process>>

(* dstring_release (v); v = nullptr *)
Release(v) ==
  /\ process = "runs" /\ ref[v] \in Live
  /\ strings' = IF strings[ref[v]].count - 1 < 1 THEN Without(ref[v])
                ELSE [strings EXCEPT ![ref[v]].count = @ - 1]
  /\ ref' = [ref EXCEPT ![v] = Nil]
  /\ UNCHANGED <<starved, process>>

(* dstring_free, which looks at no count *)
FreeString(v) ==
  /\ process = "runs" /\ ref[v] \in Live /\ Holders(ref[v]) = {v}
  /\ strings' = Without(ref[v])
  /\ ref' = [ref EXCEPT ![v] = Nil]
  /\ UNCHANGED <<starved, process>>

(* dstring_dup copies what sdsnew takes a null text for too: an empty one. *)
Dup(v, w) == ref[v] \in Live /\ NewString(w)

HasText(v) == ref[v] \in Live /\ strings[ref[v]].text

(* dstring_cat appends in place; when sds finds no memory the text is lost. *)
Cat(v, w) ==
  /\ process = "runs" /\ HasText(v) /\ HasText(w)
  /\ \E there \in BOOLEAN :
       /\ strings' = [strings EXCEPT ![ref[v]].text = there]
       /\ starved' = (starved \/ ~there)
  /\ UNCHANGED <<ref, process>>

(* Appended to itself, a text that has to grow is moved before it is read. *)
CatItself(v, w) ==
  /\ process = "runs" /\ HasText(v) /\ ref[w] = ref[v]
  /\ process' = "moved"
  /\ UNCHANGED <<strings, ref, starved>>

(* dstring_len, dstring_clear and dstring_cat read the text, and everything reads the string. *)
UseCrashes(v) ==
  /\ process = "runs" /\ ref[v] # Nil /\ ~HasText(v)
  /\ process' = "crashed"
  /\ UNCHANGED <<strings, ref, starved>>

StringNext ==
  \/ NewStringExits
  \/ \E v \in Variables :
       \/ NewString(v) \/ Release(v) \/ FreeString(v) \/ UseCrashes(v)
       \/ \E w \in Variables : AddRef(v, w) \/ Dup(v, w) \/ Cat(v, w) \/ CatItself(v, w)

StringSpec == StringInit /\ [][StringNext]_stringVars

-----------------------------------------------------------------------------
(* Properties *)

(* As long as sds finds memory, a string's count is the number of variables that point to it:    *)
(* none of them points to a freed one, none is freed while another holds it, and none is left     *)
(* without a reference (dstring.h:36-60).                                                         *)
CountsItsReferences ==
  ~starved =>
    /\ \A c \in Live : strings[c].text /\ strings[c].count = Cardinality(Holders(c))
    /\ \A v \in Variables : ref[v] \in Live \cup {Nil}
    /\ \A c \in Live : strings[c].count > 0
    /\ process # "crashed"
=============================================================================
