---------------------------- MODULE PtklCommands ----------------------------
(***************************************************************************)
(* The commands and flags src/ptkl puts together: main of ptkl.c and the      *)
(* constructors in src/ptkl/src/commands.  Every one has a handler that       *)
(* prints; none pushes an error.                                            *)
(***************************************************************************)
EXTENDS Integers, Sequences

ArgsAny == -1   \* COMMAND_ARGS_ANY
NoArgs == 0     \* what command_new leaves in expect_args

Builtin == "Built-in Commands"
Development == "Development Commands"
Services == "Service Commands"
Interactive == "Interactive Commands"

Configured(name, expects) == [name |-> name, expects |-> expects]

HelpCommand == Configured("help", ArgsAny)
VersionCommand == Configured("version", NoArgs)
RunCommand == Configured("run", ArgsAny)
ServeCommand == Configured("serve", NoArgs)
CompileCommand == Configured("compile", ArgsAny)
ServiceCommand == Configured("service", NoArgs)
StorageCommand == Configured("storage", NoArgs)
DataCommand == Configured("data", NoArgs)
LogsCommand == Configured("logs", NoArgs)
ConsoleCommand == Configured("console", NoArgs)
ReplCommand == Configured("repl", NoArgs)

(* main's own command: without arguments it prints its help *)
MainCommand == Configured("ptkl", NoArgs)

(* Both print and exit. *)
VersionFlag == [short |-> "v", long |-> "version", wants |-> FALSE, callback |-> TRUE, exits |-> TRUE]
HelpFlag == [short |-> "h", long |-> "help", wants |-> FALSE, callback |-> TRUE, exits |-> TRUE]
MainFlags == <<VersionFlag, HelpFlag>>

(* The subcommands in the order main adds them, and their groups *)
Added ==
  <<<<HelpCommand, Builtin>>, <<VersionCommand, Builtin>>,
    <<RunCommand, Development>>, <<ServeCommand, Development>>, <<CompileCommand, Development>>,
    <<ServiceCommand, Services>>, <<StorageCommand, Services>>, <<DataCommand, Services>>,
    <<LogsCommand, Services>>,
    <<ConsoleCommand, Interactive>>, <<ReplCommand, Interactive>>>>

Subcommands == {Added[i][1] : i \in DOMAIN Added}
=============================================================================
