-------------------------- MODULE ConsoleCommands --------------------------
(***************************************************************************)
(* The command names of src/ptkl/src/commands/console.c and the two ways   *)
(* it matches what a user typed against them: complete_command offers every *)
(* name the text abbreviates, match_command resolves a text that abbreviates*)
(* exactly one.  A text is a sequence of letters.                          *)
(***************************************************************************)
EXTENDS Subsequence

CONSTANTS Letters,    \* the printable characters
          Commands,   \* COMMANDS, in order
          Quit        \* the one that leaves the console

Names == {Commands[i] : i \in DOMAIN Commands}

ASSUME CommandsAssumption == /\ Commands \in Seq(Seq(Letters) \ {<<>>})
                             /\ Quit \in Names
                             /\ \A i, j \in DOMAIN Commands : Commands[i] = Commands[j] => i = j

(* Neither matcher prefers an exact match, so a name that abbreviates      *)
(* another could never be run.                                             *)
Abbreviates(text, name) == Len(text) <= Len(name) /\ SubSeq(name, 1, Len(text)) = text
ASSUME PrefixFree == \A c, d \in Names : Abbreviates(c, d) => c = d

MutMatchingAll(prefix) == Commands

(* get_matching_commands: the names with this prefix, in the order of COMMANDS *)
Matching(prefix) == Picked(Commands, {i \in DOMAIN Commands : Abbreviates(prefix, Commands[i])})

(* match_command: the one name the input abbreviates; <<>> stands for NULL *)
MatchCommand(input) ==
  LET found == {c \in Names : Abbreviates(input, c)}
  IN IF input # <<>> /\ Cardinality(found) = 1 THEN CHOOSE c \in found : TRUE ELSE <<>>
=============================================================================
