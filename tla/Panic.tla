------------------------------- MODULE Panic -------------------------------
(***************************************************************************)
(* src/libstd/src/log.c: how a process ends that cannot go on.  panic()       *)
(* reports, prints the stack and exits; the handlers of                       *)
(* register_signal_panic_handlers do the same for a fault, on top of whatever  *)
(* the fault interrupted.                                                   *)
(*                                                                         *)
(* signal() masks a signal only while its own handler runs.  A fault inside a  *)
(* handler therefore starts another handler if its signal is another one, and  *)
(* kills the process if it is not.  backtrace_symbols allocates: if what was   *)
(* interrupted held malloc's lock, it waits for ever.                        *)
(***************************************************************************)
EXTENDS Sequences, SequencesExt

CONSTANTS Signals   \* those of register_signal_panic_handlers

VARIABLES registered,  \* whether the handlers are
          frames,      \* the calls of panic and of the handlers, the innermost last
          locked,      \* whether something that was interrupted holds malloc's lock
          outcome      \* "running", "success", "failure", "killed" or "hung"

panicVars == <<registered, frames, locked, outcome>>

PanicInit == registered = FALSE /\ frames = <<>> /\ locked = FALSE /\ outcome = "running"

(* The program itself has the processor. *)
Undisturbed == outcome = "running" /\ frames = <<>>

Ends(how) == outcome' = how /\ UNCHANGED <<registered, frames, locked>>

RegisterSignalPanicHandlers ==
  registered' = TRUE /\ UNCHANGED <<frames, locked, outcome>>

Calls(why) ==
  /\ frames' = Append(frames, [why |-> why, at |-> "report"])
  /\ UNCHANGED <<registered, outcome>>

PanicCalled == Calls("panic") /\ UNCHANGED locked

Masked == {frames[i].why : i \in DOMAIN frames}

(* The process faults; inMalloc if what it was at holds malloc's lock. *)
Fault(sig, inMalloc) ==
  \/ registered /\ sig \notin Masked /\ Calls(sig) /\ locked' = (locked \/ inMalloc)
  \/ (registered => sig \in Masked) /\ Ends("killed")

-----------------------------------------------------------------------------
(* The innermost of them                                                    *)

At(step) == outcome = "running" /\ frames # <<>> /\ Last(frames).at = step

GoesTo(step) ==
  /\ frames' = [frames EXCEPT ![Len(frames)].at = step]
  /\ UNCHANGED <<registered, locked, outcome>>

Report == At("report") /\ GoesTo("symbols")

(* log_stack_trace: backtrace_symbols waits for a lock that is never given back, *)
WaitsForMalloc == At("symbols") /\ locked /\ Ends("hung")

(* or finds the symbols, which are printed and freed, or no memory, which ends in exit at once. *)
GotSymbols == At("symbols") /\ ~locked /\ GoesTo("print")
NoSymbols == At("symbols") /\ ~locked /\ GoesTo("exit")

MutPrintTraceReturns ==
  /\ At("print") /\ frames' = Front(frames) /\ UNCHANGED <<registered, locked, outcome>>

PrintTrace == At("print") /\ GoesTo("exit")

(* exit (EXIT_FAILURE) *)
Exit == At("exit") /\ Ends("failure")

(* Any of them may fault in its turn: *)
FaultInside ==
  /\ outcome = "running" /\ frames # <<>>
  /\ \E sig \in Signals : Fault(sig, Last(frames).at = "symbols")

PanicStep == Report \/ WaitsForMalloc \/ GotSymbols \/ NoSymbols \/ PrintTrace \/ Exit
=============================================================================
