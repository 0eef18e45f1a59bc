--------------------------- MODULE ConsoleSession ---------------------------
(***************************************************************************)
(* A process that runs the console command: main of src/ptkl/src/ptkl.c, the  *)
(* handlers ptkl_init registers, the console, and the ways all of it ends.    *)
(*                                                                         *)
(* A fault stops the console where it is, with the terminal as it is: the     *)
(* handlers exit, and nothing is registered with atexit that would give the   *)
(* terminal back.  ncurses has a handler of its own for Ctrl-C that does.     *)
(***************************************************************************)
EXTENDS Console, Panic

CONSTANTS Segv   \* the signal of a null pointer

ASSUME SegvAssumption == Segv \in Signals

VARIABLES main   \* "init", "commands", "run" or "done"

sessionVars == <<vars, panicVars, main>>

SessionInit == Init /\ PanicInit /\ main = "init"

(* ptkl_init *)
PtklInit ==
  /\ Undisturbed /\ main = "init"
  /\ RegisterSignalPanicHandlers
  /\ main' = "commands"
  /\ UNCHANGED vars

(* The commands are made and command_run finds "console", unless there is no memory for them. *)
BuildCommands ==
  /\ Undisturbed /\ main = "commands"
  /\ main' = "run"
  /\ UNCHANGED <<vars, panicVars>>

CannotBuildCommands ==
  /\ Undisturbed /\ main = "commands"
  /\ PanicCalled
  /\ UNCHANGED <<vars, main>>

RunConsole ==
  /\ Undisturbed /\ main = "run" /\ Next
  /\ UNCHANGED <<panicVars, main>>

ConsoleCrashes ==
  /\ Undisturbed /\ main = "run" /\ EnterUnknownCrashes
  /\ Fault(Segv, FALSE)
  /\ UNCHANGED main

(* command_run takes a console_command that returned for one that did its work. *)
MainReturns ==
  /\ Undisturbed /\ main = "run" /\ phase = "returned"
  /\ Ends("success")
  /\ main' = "done"
  /\ UNCHANGED vars

(* A signal from outside, at any moment, in the middle of a malloc or not *)
Signalled ==
  /\ Undisturbed
  /\ \E sig \in Signals, inMalloc \in BOOLEAN : Fault(sig, inMalloc)
  /\ UNCHANGED <<vars, main>>

(* Ctrl-C: once initscr was called, ncurses ends curses mode and exits, also out of a handler  *)
(* that hangs.                                                                                  *)
Interrupt ==
  /\ outcome \in {"running", "hung"}
  /\ curses' = FALSE
  /\ \/ curses /\ Ends("failure")
     \/ ~curses /\ (Ends("failure") \/ Ends("killed"))
  /\ UNCHANGED <<phase, windows, running, line, status, errorStatus, ran, main>>

Handle == (PanicStep \/ FaultInside) /\ UNCHANGED <<vars, main>>

SessionNext ==
  \/ PtklInit \/ BuildCommands \/ CannotBuildCommands \/ RunConsole \/ ConsoleCrashes
  \/ MainReturns \/ Signalled \/ Interrupt \/ Handle

(* The user owes the console no key; the program owes its own next step. *)
SessionSpec ==
  /\ SessionInit /\ [][SessionNext]_sessionVars
  /\ WF_sessionVars(RunConsole /\ Close)
  /\ WF_sessionVars(MainReturns)
  /\ WF_sessionVars(PanicStep /\ UNCHANGED <<vars, main>>)

-----------------------------------------------------------------------------
(* Properties *)

(* However the process ends, Ctrl-C among the ways, the terminal is out of curses mode again,    *)
(* but for a fault, and for a console whose last window could not be made (console.c:105).       *)
TerminalIsGivenBack ==
  outcome # "running" /\ curses =>
    frames # <<>> \/ outcome = "killed" \/ "cmd" \notin windows

(* A fault or a panic comes to an end, whatever faults inside its own report: every further      *)
(* handler masks one signal more, and the last of them exits, is killed or waits for malloc's    *)
(* lock.  The program never goes on behind it (log.c:108-114).                                    *)
FaultEnds == frames # <<>> ~> outcome # "running"

(* Once quit has run, the console is left and the process ends.                                  *)
QuitReturns == ran = Quit ~> outcome # "running"
=============================================================================
