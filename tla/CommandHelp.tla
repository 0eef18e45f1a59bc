----------------------------- MODULE CommandHelp -----------------------------
(***************************************************************************)
(* What the next runtime's help shows of a command, src/x/ptklcli.c: a line   *)
(* "name <arg> [arg]" for each of its subcommands, put together in a buffer   *)
(* by get_command_usage, one argument at a time and with an eye on the room.  *)
(* help may be asked for whenever no scan is under way.                      *)
(*                                                                         *)
(* Of a text only its length matters.  print_command_help shows a command's   *)
(* own usage if it has a parent, but nothing sets one.                       *)
(***************************************************************************)
EXTENDS CliOptions

CONSTANTS Args,    \* the argument structs
          Width,   \* strlen of the name of a command or an argument
          Size     \* size of the usage buffer

(* Names leave room for " ..."; sprintf does not cut a longer one. *)
ASSUME HelpAssumption ==
  /\ Size \in Nat /\ Width \in [Commands \cup Args -> Nat]
  /\ \A c \in Commands : Width[c] + 4 < Size

VARIABLES args,  \* cmd->args of each command
          used   \* len, or strlen (usage) when get_command_usage returns

helpVars == <<args, used>>
allVars == <<vars, helpVars>>

HelpInit == Init /\ args = [c \in Commands |-> <<>>] /\ used = 0

(* ptkl_command_add_arg *)
AddArg(c, a) ==
  /\ phase = "build" /\ a \notin Added(args)
  /\ args' = [args EXCEPT ![c] = Append(@, a)]
  /\ UNCHANGED <<vars, used>>

(* print_command_help: every usage is made twice, to measure it and to print it *)
Help(c) ==
  /\ phase = "build" /\ \A o \in Range(options[c]) : Long[o] # NoLong
  /\ phase' = "help"
  /\ pending' = subcommands[c] \o subcommands[c]
  /\ left' = <<>> /\ used' = 0
  /\ UNCHANGED <<tree, set, status, args>>

(* It measures long_opt, null or not. *)
HelpCrashes(c) ==
  /\ phase = "build" /\ \E o \in Range(options[c]) : Long[o] = NoLong
  /\ phase' = "crashed"
  /\ UNCHANGED <<tree, pending, left, set, status, helpVars>>

Capacity == Size - 1
Command == Head(pending)

BeginUsage ==
  /\ phase = "help" /\ pending # <<>>
  /\ phase' = "usage"
  /\ used' = Width[Command] /\ left' = args[Command]
  /\ UNCHANGED <<tree, pending, set, status, args>>

MutRoomForgetsTheBracket(a) == used + 2 + Width[a] <= Capacity

(* Room for a blank, a bracket, the name and the closing bracket *)
Room(a) == used + 2 + Width[a] < Capacity

ShowArg ==
  /\ phase = "usage" /\ left # <<>> /\ used < Capacity
  /\ Room(Head(left))
  /\ used' = used + Width[Head(left)] + 3
  /\ left' = Tail(left)
  /\ UNCHANGED <<phase, tree, pending, set, status, args>>

(* The name and " ..." *)
Elide ==
  /\ phase = "usage" /\ left # <<>> /\ used < Capacity
  /\ ~Room(Head(left))
  /\ phase' = "shown" /\ used' = Width[Command] + 4
  /\ UNCHANGED <<tree, pending, left, set, status, args>>

(* Also when the last character of the buffer is taken and arguments are left *)
EndUsage ==
  /\ phase = "usage" /\ (left = <<>> \/ used >= Capacity)
  /\ phase' = "shown"
  /\ UNCHANGED <<tree, pending, left, set, status, helpVars>>

NextSubcommand ==
  /\ phase = "shown"
  /\ phase' = "help" /\ pending' = Tail(pending)
  /\ left' = <<>> /\ used' = 0
  /\ UNCHANGED <<tree, set, status, args>>

HelpReturns ==
  /\ phase = "help" /\ pending = <<>>
  /\ phase' = "build"
  /\ UNCHANGED <<tree, pending, left, set, status, helpVars>>

HelpStep == BeginUsage \/ ShowArg \/ Elide \/ EndUsage \/ NextSubcommand \/ HelpReturns

HelpNext ==
  \/ Next /\ UNCHANGED helpVars
  \/ \E c \in Commands : Help(c) \/ HelpCrashes(c) \/ \E a \in Args : AddArg(c, a)
  \/ HelpStep

HelpSpec == HelpInit /\ [][HelpNext]_allVars

-----------------------------------------------------------------------------
(* Properties *)

(* What get_command_usage writes stays within its buffer, the null included, at every argument *)
(* (ptklcli.c:310-341).                                                                       *)
UsageInBuffer == phase \in {"usage", "shown"} => used < Size

(* The length of the usage of c, up to its nth argument *)
UsageLength(c) ==
  LET length[n \in 0..Len(args[c])] ==
        IF n = 0 THEN Width[c] ELSE length[n - 1] + Width[args[c][n]] + 3
  IN length

(* The first arguments of c take all of the buffer, and there are others. *)
FullEarly(c) == \E n \in 0..(Len(args[c]) - 1) : UsageLength(c)[n] = Capacity

(* A usage that fits the buffer is shown whole, and one that does not is its command's name and  *)
(* " ...", as the comment above get_command_usage says (ptklcli.c:303-304), with one exception   *)
(* the comment does not make: where an argument ends with the last character of the buffer, the  *)
(* loop ends too (ptklcli.c:316) and the arguments after it are dropped with nothing said.       *)
UsageIsCutToFit ==
  phase = "shown" =>
    LET whole == UsageLength(Command)[Len(args[Command])]
    IN used = IF whole < Size THEN whole
              ELSE IF FullEarly(Command) THEN Capacity ELSE Width[Command] + 4
=============================================================================
