----------------------------- MODULE CliOptions -----------------------------
(***************************************************************************)
(* The command line of the next runtime, src/x/ptkl.c and ptklcli.c: main    *)
(* builds a tree of commands and ptkl_cli_run scans it for options that two   *)
(* commands define.  A line such as "ptkl repl --foo" names an option before  *)
(* it is known which command will take it, so none may be ambiguous.          *)
(*                                                                         *)
(* The lists of options and subcommands, linked by next, are sequences; each  *)
(* option and each command is added once, as main does, in any order, also to *)
(* a command that is not under the root (yet).                               *)
(***************************************************************************)
EXTENDS Integers, Sequences, FiniteSets, SequencesExt, Functions

CONSTANTS Commands, Root,  \* the command structs, and cli->command
          Options,         \* the option structs
          Short, Long,     \* short_opt and long_opt of each
          NoLong           \* a null long_opt

ASSUME CliAssumption ==
  /\ Root \in Commands /\ IsFiniteSet(Commands) /\ IsFiniteSet(Options)
  /\ DOMAIN Short = Options /\ DOMAIN Long = Options /\ \A o \in Options : Short[o] # NoLong

VARIABLES phase,        \* "build", "scan" or "done"
          options,      \* cmd->options of each command
          subcommands,  \* cmd->subcommand and its siblings
          pending,      \* the commands scan_command_options has yet to look at, in order
          left,         \* what is left of the options of the one it is at
          set,          \* the options set
          status        \* what ptkl_cli_run returns, -1 before

tree == <<options, subcommands>>
vars == <<phase, tree, pending, left, set, status>>

Init ==
  /\ phase = "build"
  /\ options = [c \in Commands |-> <<>>] /\ subcommands = [c \in Commands |-> <<>>]
  /\ pending = <<>> /\ left = <<>> /\ set = <<>> /\ status = -1

Added(lists) == UNION {Range(lists[c]) : c \in Commands}

(* ptkl_command_add_option *)
AddOption(c, o) ==
  /\ phase = "build" /\ o \notin Added(options)
  /\ options' = [options EXCEPT ![c] = Append(@, o)]
  /\ UNCHANGED <<phase, subcommands, pending, left, set, status>>

(* A command and what is under it *)
Under(c) ==
  LET down[n \in 0..Cardinality(Commands)] ==
        IF n = 0 THEN {c} ELSE down[n - 1] \cup UNION {Range(subcommands[d]) : d \in down[n - 1]}
  IN down[Cardinality(Commands)]

(* ptkl_command_add_subcommand *)
AddSubcommand(c, s) ==
  /\ phase = "build" /\ s \notin Added(subcommands) \cup {Root} /\ c \notin Under(s)
  /\ subcommands' = [subcommands EXCEPT ![c] = Append(@, s)]
  /\ UNCHANGED <<phase, options, pending, left, set, status>>

(* ptkl_cli_run *)
Run ==
  /\ phase = "build"
  /\ phase' = "scan" /\ pending' = <<Root>>
  /\ UNCHANGED <<tree, left, set, status>>

MutClashOnShortOnly(o, e) == Short[o] = Short[e]

Clash(o, e) == Short[o] = Short[e] \/ (Long[o] # NoLong /\ Long[o] = Long[e])

(* set_insert_option *)
InsertOption ==
  /\ phase = "scan" /\ left # <<>>
  /\ \A e \in Range(set) : ~Clash(Head(left), e)
  /\ set' = Append(set, Head(left))
  /\ left' = Tail(left)
  /\ UNCHANGED <<phase, tree, pending, status>>

(* An option that clashes ends the scan, whatever recursion it is in. *)
NotUnique ==
  /\ phase = "scan" /\ left # <<>>
  /\ \E e \in Range(set) : Clash(Head(left), e)
  /\ phase' = "done" /\ status' = 1
  /\ UNCHANGED <<tree, pending, left, set>>

(* scan_command_options: a command's own options, then its subcommands', then its siblings' *)
ScanCommand ==
  /\ phase = "scan" /\ left = <<>> /\ pending # <<>>
  /\ left' = options[Head(pending)]
  /\ pending' = subcommands[Head(pending)] \o Tail(pending)
  /\ UNCHANGED <<phase, tree, set, status>>

AllUnique ==
  /\ phase = "scan" /\ left = <<>> /\ pending = <<>>
  /\ phase' = "done" /\ status' = 0
  /\ UNCHANGED <<tree, pending, left, set>>

Scan == InsertOption \/ NotUnique \/ ScanCommand \/ AllUnique

Next ==
  \/ \E c \in Commands :
       \/ \E o \in Options : AddOption(c, o)
       \/ \E s \in Commands : AddSubcommand(c, s)
  \/ Run \/ Scan

Spec == Init /\ [][Next]_vars

-----------------------------------------------------------------------------
(* Properties *)

(* ptkl_cli_run accepts a tree exactly if "each one is uniquely associated with a command"     *)
(* (ptkl.c:598-600): no two options of the commands under the root, however deep and far apart, *)
(* share a letter or a long name.                                                              *)
AcceptsUniqueOptions ==
  phase = "done" =>
    LET defined == UNION {Range(options[c]) : c \in Under(Root)}
        Ambiguous(field) == \E o, p \in defined : o # p /\ field[o] = field[p] /\ field[o] # NoLong
    IN status = IF Ambiguous(Short) \/ Ambiguous(Long) THEN 1 ELSE 0
=============================================================================
