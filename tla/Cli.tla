-------------------------------- MODULE Cli --------------------------------
(***************************************************************************)
(* src/x/args.c: an argument parser that keeps its strings in dstrings, its   *)
(* commands in a map and its arguments in a vector, all of them public.       *)
(*                                                                         *)
(* Before it makes its cli the program may use dstrings of its own; with one  *)
(* it may call any operation of the vector on cli->args.  What map_put       *)
(* answers is ignored, and so is what vector_add answers.                    *)
(*                                                                         *)
(* cli_destroy frees neither the cli itself nor the commands with their       *)
(* strings.                                                                *)
(***************************************************************************)
EXTENDS Vector, DString

CONSTANTS Own,       \* the program's own variables
          Fields,    \* name, version and description, in the order of cli_init
          Commands,  \* the name and description of each command, in the order they are added
          Empty,     \* an argument without a character
          Lines      \* the lines cli_parse may get, without argv[0]

ASSUME FieldsAssumption ==
  /\ Own \cup Range(Fields) \cup UNION {Range(Commands[i]) : i \in DOMAIN Commands} = Variables
  /\ Fields \in Seq(Variables) /\ Commands \in Seq(Seq(Variables))
  /\ Empty \notin Items /\ Lines \subseteq Seq(Items \cup {Empty})

VARIABLES stage,     \* "none", "new", "open", "adding", "parsing", "destroying", "destroyed"
          todo,      \* the strings that are still to be made, or freed
          added,     \* the number of commands that were added
          commands,  \* those that map_put put in cli->commands
          argv,      \* the line cli_parse has, without argv[0]
          optind,    \* where it is on it
          before     \* what cli->args held when it began

parsing == <<argv, optind, before>>
cliVars == <<vars, stringVars, stage, todo, added, commands, parsing>>

CliInit ==
  /\ Init /\ StringInit
  /\ stage = "none" /\ todo = <<>> /\ added = 0 /\ commands = {}
  /\ argv = <<>> /\ optind = 1 /\ before = <<>>

(* The program's own strings *)
UseStrings ==
  /\ stage = "none" /\ StringNext
  /\ \A v \in Variables \ Own : ref'[v] = Nil
  /\ UNCHANGED <<vars, stage, todo, added, commands, parsing>>

(* cli_new, by a program that has given its own back *)
CliNew ==
  /\ stage = "none" /\ process = "runs" /\ Live = {} /\ ~starved
  /\ stage' = "new" /\ todo' = Fields
  /\ UNCHANGED <<vars, stringVars, added, commands, parsing>>

(* cli_init and cli_add_command make their strings one by one, and *)
MakeString ==
  /\ stage \in {"new", "adding"} /\ todo # <<>>
  /\ NewString(Head(todo))
  /\ todo' = Tail(todo)
  /\ UNCHANGED <<vars, stage, added, commands, parsing>>

(* end the process if malloc finds no memory for them, for a map, the vector or the command. *)
MakeExits ==
  /\ stage \in {"new", "adding"} /\ NewStringExits
  /\ UNCHANGED <<vars, stage, todo, added, commands, parsing>>

CliMade ==
  /\ stage = "new" /\ todo = <<>> /\ process = "runs"
  /\ stage' = "open"
  /\ UNCHANGED <<vars, stringVars, todo, added, commands, parsing>>

CliAddCommand ==
  /\ stage = "open" /\ process = "runs" /\ added < Len(Commands)
  /\ stage' = "adding" /\ todo' = Commands[added + 1]
  /\ UNCHANGED <<vars, stringVars, added, commands, parsing>>

(* map_put may find no memory. *)
CommandAdded ==
  /\ stage = "adding" /\ todo = <<>> /\ process = "runs"
  /\ added' = added + 1
  /\ \E put \in BOOLEAN : commands' = IF put THEN commands \cup {added'} ELSE commands
  /\ stage' = "open"
  /\ UNCHANGED <<vars, stringVars, todo, parsing>>

CliParse ==
  /\ stage = "open" /\ phase = "used"
  /\ argv' \in Lines /\ optind' = 1 /\ before' = items
  /\ stage' = "parsing"
  /\ UNCHANGED <<vars, stringVars, todo, added, commands>>

MutMoreToTheEnd == optind <= Len(argv)
More == optind <= Len(argv) /\ argv[optind] # Empty

(* vector_add (cli->args, argv[optind]); optind++, whatever it answers *)
ParseElement ==
  /\ stage = "parsing" /\ More
  /\ VectorAdd(argv[optind]) \/ VectorAddOverruns(argv[optind]) \/ VectorGrow(argv[optind])
     \/ VectorCannotGrow
  /\ optind' = optind + 1
  /\ UNCHANGED <<stringVars, stage, todo, added, commands, argv, before>>

(* cli_parse returns true, at the end or at an empty element. *)
CliParsed ==
  /\ stage = "parsing" /\ ~More /\ phase = "used"
  /\ stage' = "open"
  /\ argv' = <<>> /\ optind' = 1 /\ before' = <<>>
  /\ UNCHANGED <<vars, stringVars, todo, added, commands>>

(* The program and cli->args *)
UseArgs ==
  /\ stage = "open" /\ phase = "used" /\ Use
  /\ UNCHANGED <<stringVars, stage, todo, added, commands, parsing>>

(* cli_free frees the strings of cli_init, *)
CliDestroy ==
  /\ stage = "open" /\ phase = "used" /\ process = "runs"
  /\ stage' = "destroying" /\ todo' = Fields
  /\ UNCHANGED <<vars, stringVars, added, commands, parsing>>

FreeField ==
  /\ stage = "destroying" /\ todo # <<>>
  /\ FreeString(Head(todo))
  /\ todo' = Tail(todo)
  /\ UNCHANGED <<vars, stage, added, commands, parsing>>

(* the maps and the vector. *)
FreeArgs ==
  /\ stage = "destroying" /\ todo = <<>>
  /\ VectorFree
  /\ commands' = {} /\ stage' = "destroyed"
  /\ UNCHANGED <<stringVars, todo, added, parsing>>

CliNext ==
  \/ UseStrings \/ CliNew \/ MakeString \/ MakeExits \/ CliMade
  \/ CliAddCommand \/ CommandAdded \/ CliParse \/ ParseElement \/ CliParsed \/ UseArgs
  \/ CliDestroy \/ FreeField \/ FreeArgs

CliSpec == CliInit /\ [][CliNext]_cliVars

-----------------------------------------------------------------------------
(* Properties *)

(* cli_parse adds the elements of the line to cli->args in their order and none but them, and    *)
(* stops at the end or at an empty element, as long as every vector_add found memory             *)
(* (args.c:130-134).                                                                             *)
ParseAddsTheLine ==
  stage = "parsing" /\ block >= capacity =>
    items = before \o SubSeq(argv, 1, optind - 1) /\ Empty \notin Range(items)
=============================================================================
