------------------------------- MODULE MCCli -------------------------------
(***************************************************************************)
(* The program has three variables of its own, the cli one command.  The     *)
(* vector's block doubles once before memory runs out.                       *)
(***************************************************************************)
EXTENDS Cli, TLC

MCOwn == {"a", "b", "c"}
MCFields == <<"name", "version", "description">>
MCCommands == <<<<"command name", "command description">>>>
MCVariables == MCOwn \cup Range(MCFields) \cup Range(MCCommands[1])
MCLines == UNION {[1..n -> Items \cup {Empty}] : n \in 0..2}
=============================================================================
