---------------------------- MODULE CommandTree ----------------------------
(***************************************************************************)
(* How a program builds its commands with src/libcli/src/command.c, what     *)
(* help.c lists of them, and what command_free takes back.                  *)
(*                                                                         *)
(* A command finds a subcommand in a map, by name, and lists them from a     *)
(* vector, in the order they were added.  command_add fills both and looks  *)
(* at the result of neither, though either may have found no memory.  What   *)
(* becomes of a vector that goes on after that is Vector's matter.           *)
(***************************************************************************)
EXTENDS Integers, Sequences, FiniteSets, SequencesExt, Subsequence

CONSTANTS Commands,   \* the command structs malloc can hand out
          Root,       \* the one main creates first
          Names, Groups, Keys, Values,
          None        \* nullptr

ASSUME TreeAssumption ==
  /\ IsFiniteSet(Commands) /\ Root \in Commands
  /\ None \notin Commands \cup Groups \cup Values

VARIABLES live,      \* the structs that were handed out and not freed
          parent,    \* cmd->parent
          name,      \* cmd->name
          group,     \* cmd->group
          commands,  \* cmd->commands: for each name, the subcommand it leads to
          ordered,   \* cmd->ordered_commands
          settings,  \* cmd->settings
          unmapped,  \* history: the commands for which map_put found no memory
          unlisted,  \* history: those for which vector_add found none
          freed      \* main called command_free on the root

tree == <<parent, name, group, commands, ordered, unmapped, unlisted>>
vars == <<live, tree, settings, freed>>

(* command_new for main's command *)
Init ==
  /\ live = {Root}
  /\ parent = [c \in Commands |-> None]
  /\ name \in [Commands -> {None}] /\ group \in [Commands -> {None}]
  /\ commands = [c \in Commands |-> [n \in Names |-> None]]
  /\ ordered = [c \in Commands |-> <<>>]
  /\ settings = [c \in Commands |-> [k \in Keys |-> None]]
  /\ unmapped = {} /\ unlisted = {} /\ freed = FALSE

(* map_put: a name the map had leads to the new command from now on. *)
Mapped(p, n, c) ==
  \/ commands' = [commands EXCEPT ![p][n] = c] /\ UNCHANGED unmapped
  \/ unmapped' = unmapped \cup {c} /\ UNCHANGED commands

MutListedOnlyIfNew(p, n, c) ==
  \/ /\ ordered' = [ordered EXCEPT ![p] = IF commands[p][n] = None THEN Append(@, c) ELSE @]
     /\ UNCHANGED unlisted
  \/ unlisted' = unlisted \cup {c} /\ UNCHANGED ordered

(* vector_add *)
Listed(p, n, c) ==
  \/ ordered' = [ordered EXCEPT ![p] = Append(@, c)] /\ UNCHANGED unlisted
  \/ unlisted' = unlisted \cup {c} /\ UNCHANGED ordered

(* command_add, then command_set_group unless g is None *)
CommandAdd(p, n, g) ==
  /\ p \in live
  /\ \E c \in Commands \ live :
       /\ live' = live \cup {c}
       /\ parent' = [parent EXCEPT ![c] = p]
       /\ name' = [name EXCEPT ![c] = n]
       /\ group' = [group EXCEPT ![c] = g]
       /\ Mapped(p, n, c)
       /\ Listed(p, n, c)
  /\ UNCHANGED <<settings, freed>>

(* The value is always a new string; map_put leaves the one it replaces to nobody. *)
CommandSet(c, k, v) ==
  /\ c \in live
  /\ settings' = [settings EXCEPT ![c][k] = v]
  /\ UNCHANGED <<live, tree, freed>>

(* It frees the command and the structs in its map; not what those own. *)
CommandFree ==
  /\ live' = live \ ({Root} \cup {commands[Root][n] : n \in Names})
  /\ freed' = TRUE
  /\ UNCHANGED <<tree, settings>>

Next ==
  /\ ~freed
  /\ \/ \E p \in Commands, n \in Names, g \in Groups \cup {None} : CommandAdd(p, n, g)
     \/ \E c \in Commands, k \in Keys, v \in Values : CommandSet(c, k, v)
     \/ CommandFree

Spec == Init /\ [][Next]_vars

-----------------------------------------------------------------------------
(* What is read from the tree *)

MutCommandGetOwnOnly(c, k) == settings[c][k]

(* command_get: the command's own setting, or the first an ancestor has *)
CommandGet(c, k) ==
  LET up[i \in 0..Cardinality(Commands)] ==
        IF i = 0 THEN c ELSE IF up[i - 1] = None THEN None ELSE parent[up[i - 1]]
      first == {i \in 0..Cardinality(Commands) : up[i] # None /\ settings[up[i]][k] # None}
  IN IF first = {} THEN None
     ELSE settings[up[CHOOSE i \in first : \A j \in first : i <= j]][k]

Heading(g) == [heading |-> g, command |-> None]
Entry(c) == [heading |-> None, command |-> c]
Entries(cs) == [i \in DOMAIN cs |-> Entry(cs[i])]
InGroup(c, g) == Picked(ordered[c], {i \in DOMAIN ordered[c] : group[ordered[c][i]] = g})
Section(c, g) ==
  <<Heading(IF g = None THEN "Commands" ELSE g)>> \o Entries(InGroup(c, g))
Top(c) == IF InGroup(c, None) = <<>> THEN <<>> ELSE Section(c, None)

MutListingForgetsShown(c) ==
  LET of(i) == group[ordered[c][i]]
      text[i \in 0..Len(ordered[c])] ==
        IF i = 0 THEN Top(c) ELSE IF of(i) = None THEN text[i - 1] ELSE text[i - 1] \o Section(c, of(i))
  IN text[Len(ordered[c])]

(* help: the commands in no group, then each group where its first command stands; *)
(* shown_groups has those of the commands before.                                  *)
Listing(c) ==
  LET of(i) == group[ordered[c][i]]
      text[i \in 0..Len(ordered[c])] ==
        IF i = 0 THEN Top(c)
        ELSE IF of(i) = None \/ \E j \in 1..(i - 1) : of(j) = of(i) THEN text[i - 1]
        ELSE text[i - 1] \o Section(c, of(i))
  IN text[Len(ordered[c])]

-----------------------------------------------------------------------------
(* Properties *)

(* The map and the vector agree, whatever names were added twice and whichever of map_put and   *)
(* vector_add found no memory (command.c:217-221).  What command_run finds by a name is the     *)
(* parent's and has that name, and help lists it unless vector_add refused it.  And what help   *)
(* lists can be run by its name unless map_put refused it, or another of its name was added     *)
(* later: that one then answers to the name.                                                    *)
Later(p, i, c) == c \in unlisted \/ \E j \in DOMAIN ordered[p] : j > i /\ ordered[p][j] = c
FoundIsListed ==
  /\ \A p \in Commands, n \in Names :
       LET c == commands[p][n]
       IN c # None => /\ parent[c] = p /\ name[c] = n
                      /\ c \in unlisted \/ Contains(ordered[p], c)
  /\ \A p \in Commands : \A i \in DOMAIN ordered[p] :
       LET c == ordered[p][i]
           found == commands[p][name[c]]
       IN c \in unmapped \/ found = c \/ (found # None /\ Later(p, i, found))

(* Every subcommand in the vector is listed once, whatever the order in which groups were      *)
(* mixed, and the last heading above it is its group's.                                        *)
ListedUnderItsGroup ==
  \A p \in Commands : \A i \in DOMAIN ordered[p] :
    LET c == ordered[p][i]
        text == Listing(p)
        at == {j \in DOMAIN text : text[j] = Entry(c)}
    IN /\ Cardinality(at) = 1
       /\ \E h \in DOMAIN text :
            /\ text[h] = Heading(IF group[c] = None THEN "Commands" ELSE group[c])
            /\ \A j \in at : h < j /\ \A m \in (h + 1)..j : text[m].heading = None

(* A setting made on a command is what each command below it gets, unless one on the way up    *)
(* has its own: version.c relies on it for the version main sets.                              *)
SettingsInherited ==
  \A c \in live, k \in Keys :
    c # Root /\ ~freed =>
      CommandGet(c, k) = IF settings[c][k] # None THEN settings[c][k] ELSE CommandGet(parent[c], k)
=============================================================================
