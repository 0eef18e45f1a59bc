------------------------------ MODULE Console ------------------------------
(***************************************************************************)
(* The admin console: the line editor of src/libconsole/src/console.c      *)
(* driven by console_command of src/ptkl/src/commands/console.c, from      *)
(* console_new to console_free.  Each key is one step, the whole of         *)
(* console_handle_input for it.                                            *)
(*                                                                         *)
(* Three texts are kept apart because the code can let them disagree: what *)
(* the user typed (typed_buffer), what Enter would submit (cmd_buffer, with *)
(* the completion filled in) and what the status bar says.                 *)
(*                                                                         *)
(* The cursor, cmd_pos, is the length of cmd at the end of every key, and   *)
(* typed_pos that of typed: neither is a variable here.  The screen itself *)
(* is drawn from these variables and is left out.                          *)
(*                                                                         *)
(* Mut definitions are mistakes the properties must tell from the code.    *)
(***************************************************************************)
EXTENDS ConsoleCommands

CONSTANTS Junk,     \* the char a resize notification turns into when it is taken for a letter
          BufLen    \* sizeof (typed_buffer) - 1

ASSUME BufLenAssumption ==
  BufLen \in Nat /\ \A c \in Names : Len(c) <= BufLen
ASSUME JunkAssumption == Junk \notin Letters

VARIABLES phase,        \* where console_command is
          curses,       \* whether the terminal is in curses mode
          windows,      \* the windows that are allocated
          running,      \* c->running
          typed,        \* c->typed_buffer
          cmd,          \* c->cmd_buffer
          status,       \* c->status
          errorStatus,  \* c->error_status, the status an error hides
          completions,  \* c->completions; <<>> is NULL, there is no empty array
          current,      \* c->current_completion, counted from 0
          ran           \* the command the last Enter ran, <<>> if it ran none

vars == <<phase, curses, windows, running, typed, cmd, status, errorStatus, completions, current, ran>>
line == <<typed, cmd, completions, current>>

(* What the status bar can say.  A list shows the completions and which is selected. *)
Text(kind, t) == [kind |-> kind, text |-> t, list |-> <<>>, selected |-> -1]
Null == Text("null", <<>>)
Ready == Text("ready", <<>>)
MutInvalidSaysLine(t) == Text("invalid", cmd)
Invalid(t) == Text("invalid", t)
Error(t) == Text("error", t)
ListOf(matches, i) == [kind |-> "list", text |-> <<>>, list |-> matches, selected |-> i]

Init ==
  /\ phase = "start" /\ curses = FALSE /\ windows = {} /\ running = FALSE
  /\ typed = <<>> /\ cmd = <<>>
  /\ status = Ready /\ errorStatus = Null
  /\ completions = <<>> /\ current = 0
  /\ ran = <<>>

-----------------------------------------------------------------------------
(* console_command up to console_run *)

(* console_new finds no memory, or console_init a terminal that is too small *)
OpenRefused ==
  /\ phase = "start"
  /\ phase' = "returned"
  /\ UNCHANGED <<curses, windows, running, line, status, errorStatus, ran>>

(* The windows console_create_windows makes, in order *)
Windows == <<"main", "header", "content", "status", "cmd">>
FirstWindows(n) == {Windows[i] : i \in 1..n}

(* newwin fails: console_init returns false without endwin, and nobody deletes the others. *)
OpenWithoutWindows ==
  /\ phase = "start"
  /\ phase' = "returned"
  /\ curses' = TRUE
  /\ \E n \in 0..(Len(Windows) - 1) : windows' = FirstWindows(n)
  /\ UNCHANGED <<running, line, status, errorStatus, ran>>

Open ==
  /\ phase = "start"
  /\ phase' = "loop"
  /\ curses' = TRUE
  /\ windows' = FirstWindows(Len(Windows))
  /\ running' = TRUE
  /\ UNCHANGED <<line, status, errorStatus, ran>>

-----------------------------------------------------------------------------
(* The keys.  Whatever the key, an error on display goes first and gives   *)
(* the status it hid back (console_clear_error).                            *)
MutRestoredForgets == status
Restored == IF errorStatus # Null THEN errorStatus ELSE status

Reading == phase = "loop" /\ running

MutFreeNothing == UNCHANGED <<completions, current>>

(* console_free_completions *)
FreeCompletions ==
  /\ completions' = <<>>
  /\ current' = IF completions # <<>> THEN -1 ELSE current

(* What the completion handler may answer: nothing also when it is out of memory. *)
Answers(prefix) == {Matching(prefix), <<>>}

(* A key that does nothing: an unprintable one, the end of the input, or a resize. *)
OtherKey ==
  /\ Reading
  /\ status' = Restored
  /\ errorStatus' = Null
  /\ UNCHANGED <<phase, curses, windows, running, line, ran>>

MutEscKeyKeepsTyped ==
  /\ Reading
  /\ cmd' = <<>> /\ status' = Null /\ errorStatus' = Null
  /\ FreeCompletions
  /\ UNCHANGED <<phase, curses, windows, running, typed, ran>>

EscKey ==
  /\ Reading
  /\ cmd' = <<>> /\ typed' = <<>>
  /\ status' = Null
  /\ errorStatus' = Null
  /\ FreeCompletions
  /\ UNCHANGED <<phase, curses, windows, running, ran>>

(* The text changed to t: look for completions, fill in a single one, list several. *)
Complete(t, matches) ==
  /\ typed' = t
  /\ errorStatus' = Null
  /\ \/ /\ Len(matches) = 1
        /\ cmd' = matches[1]
        /\ status' = Null
        /\ FreeCompletions
     \/ /\ Len(matches) > 1
        /\ cmd' = t
        /\ status' = ListOf(matches, -1)
        /\ completions' = matches
        /\ current' = -1
     \/ /\ Len(matches) = 0
        /\ cmd' = t
        /\ status' = Invalid(t)
        /\ FreeCompletions

(* a printable key, or a resize that isprint is asked about out of its range *)
LetterKey(ch) ==
  /\ Reading
  /\ Len(typed) < BufLen
  /\ \E matches \in Answers(Append(typed, ch)) : Complete(Append(typed, ch), matches)
  /\ UNCHANGED <<phase, curses, windows, running, ran>>

(* DEL with something typed; a single match is copied and then lost *)
DeleteKey ==
  /\ Reading
  /\ typed # <<>>
  /\ LET t == SubSeq(typed, 1, Len(typed) - 1)
     IN \E matches \in Answers(t) :
          Complete(t, matches)
  /\ UNCHANGED <<phase, curses, windows, running, ran>>

(* the first Tab lists the completions of what Enter would submit *)
FirstTabKey ==
  /\ Reading
  /\ completions = <<>>
  /\ \E matches \in Answers(cmd) :
       /\ completions' = matches
       /\ status' = IF matches # <<>> THEN ListOf(matches, -1) ELSE Restored
  /\ current' = -1
  /\ errorStatus' = Null
  /\ UNCHANGED <<phase, curses, windows, running, typed, cmd, ran>>

(* the next ones walk through them *)
NextTabKey ==
  /\ Reading
  /\ completions # <<>>
  /\ current' = (current + 1) % Len(completions)
  /\ cmd' = completions[current' + 1]
  /\ status' = ListOf(completions, current')
  /\ errorStatus' = Null
  /\ UNCHANGED <<phase, curses, windows, running, typed, completions, ran>>

MutEnterKeyRunsOn ==
  /\ Reading /\ MatchCommand(cmd) # <<>>
  /\ ran' = MatchCommand(cmd)
  /\ status' = Restored /\ errorStatus' = Null
  /\ cmd' = <<>> /\ typed' = <<>>
  /\ FreeCompletions
  /\ UNCHANGED <<phase, curses, windows, running>>

(* handle_command ran a command; the line starts over *)
EnterKey ==
  /\ Reading
  /\ MatchCommand(cmd) # <<>>
  /\ ran' = MatchCommand(cmd)
  /\ running' = (ran' # Quit)
  /\ status' = Restored
  /\ errorStatus' = Null
  /\ cmd' = <<>> /\ typed' = <<>>
  /\ FreeCompletions
  /\ UNCHANGED <<phase, curses, windows>>

(* handle_command knows no such command: console_error hides the status *)
EnterUnknown ==
  /\ Reading
  /\ MatchCommand(cmd) = <<>>
  /\ Restored # Null
  /\ errorStatus' = Restored
  /\ status' = Error(cmd)
  /\ ran' = <<>>
  /\ cmd' = <<>> /\ typed' = <<>>
  /\ FreeCompletions
  /\ UNCHANGED <<phase, curses, windows, running>>

(* console_error when there is no status to hide: strdup of a null pointer *)
EnterUnknownCrashes ==
  /\ Reading
  /\ MatchCommand(cmd) = <<>>
  /\ Restored = Null
  /\ phase' = "crashed"
  /\ UNCHANGED <<curses, windows, running, line, status, errorStatus, ran>>

Key == \/ OtherKey \/ EscKey \/ DeleteKey \/ FirstTabKey \/ NextTabKey
       \/ EnterKey \/ EnterUnknown
       \/ \E ch \in Letters \cup {Junk} : LetterKey(ch)

MutCloseLeavesCurses ==
  /\ phase = "loop" /\ ~running
  /\ phase' = "returned" /\ windows' = {"cmd"}
  /\ UNCHANGED <<curses, running, line, status, errorStatus, ran>>

(* console_run falls out of its loop; console_cleanup and console_free follow.  cmd_win is not *)
(* deleted.                                                                                     *)
Close ==
  /\ phase = "loop" /\ ~running
  /\ phase' = "returned"
  /\ curses' = FALSE
  /\ windows' = {"cmd"}
  /\ UNCHANGED <<running, line, status, errorStatus, ran>>

(* Everything but the crash, which is a fault of the whole process *)
Next == OpenRefused \/ OpenWithoutWindows \/ Open \/ Key \/ Close

-----------------------------------------------------------------------------
(* What Enter would submit is what was typed or a command that extends it:  *)
(* completions never replace the user's own letters, whatever mix of Tab,   *)
(* DEL and letters produced the line (lines 287-345 and 360-404 of          *)
(* libconsole's console.c copy between the two buffers in six places).       *)
LineExtendsTyped == \/ cmd = typed
                    \/ cmd \in Names /\ Abbreviates(typed, cmd)

(* While completions are held, they all extend what was typed, the selected *)
(* one is the one Enter would submit, and the status bar shows exactly them.*)
CompletionsShown ==
  completions # <<>> =>
    /\ \A i \in DOMAIN completions : Abbreviates(typed, completions[i])
    /\ current \in -1 .. Len(completions) - 1
    /\ current >= 0 => cmd = completions[current + 1]
    /\ status = ListOf(completions, current)

(* An error is on display exactly while the status it hides is kept, and    *)
(* only over a line that was cleared: errors never stack, and the next key  *)
(* has a status to restore.                                                 *)
ErrorHidesStatus ==
  /\ errorStatus # Null <=> status.kind = "error"
  /\ errorStatus # Null => typed = <<>> /\ cmd = <<>> /\ completions = <<>>

(* While something is typed the status bar speaks of it and of nothing      *)
(* older: it is empty, or lists completions, or calls that very text        *)
(* invalid.  (Over an empty line it may be stale: Enter frees the            *)
(* completions and leaves their list on display.)                           *)
StatusFollowsTyping ==
  typed # <<>> => status = Null \/ status = Invalid(typed) \/ completions # <<>>

(* Enter runs only a command the typed letters abbreviate, and always the   *)
(* one they abbreviate if it is the only one, however the line was edited.  *)
EnterRunsWhatWasTyped ==
  [][EnterKey \/ EnterUnknown =>
       /\ ran' # <<>> => Abbreviates(typed, ran')
       /\ MatchCommand(typed) # <<>> => ran' = MatchCommand(typed)]_vars

(* The console goes on until the user quits. *)
NeverCrashes == phase # "crashed"
=============================================================================
