---------------------------- MODULE MCCliOptions ----------------------------
(***************************************************************************)
(* Three commands, four options and two arguments, put together in every way. *)
(* Two options share a letter, two a long name, and two have none.  A usage   *)
(* may fit, just fit, fill the buffer before its last argument, or be elided. *)
(***************************************************************************)
EXTENDS CommandHelp

Option(short, long) == [short |-> short, long |-> long]

MCCommands == {"root", "ls", "console"}
MCOptions == {Option("s", "bs"), Option("s", "null"), Option("o", "bs"), Option("p", "null")}
MCShort == [o \in MCOptions |-> o.short]
MCLong == [o \in MCOptions |-> o.long]
MCArgs == {"x", "js"}
MCWidth == [n \in MCCommands \cup MCArgs |->
              CASE n = "root" -> 4 [] n = "ls" -> 2 [] n = "console" -> 7 [] n = "x" -> 1 [] n = "js" -> 2]
=============================================================================
