------------------------------ MODULE Runtime ------------------------------
(***************************************************************************)
(* main of src/x/qjs/ptkl.c: the proof-of-concept runtime, from its command  *)
(* line to its exit status.  The engine is QuickJS: while it evaluates, it    *)
(* asks the tracing allocator for memory if there is one, and an evaluation   *)
(* ends with or without an exception.  What it frees, it frees with the       *)
(* allocator it got it from.                                                *)
(***************************************************************************)
EXTENDS RuntimeArgs, TraceMalloc, Subsequence

CONSTANTS Files   \* the elements that name a file js_load_file finds

VARIABLES phase,      \* where main is
          todo,       \* what is left to evaluate, in order
          evaluated,  \* what was evaluated without an exception, in order
          handlers,   \* whether js_std_init_handlers was called and not undone
          status      \* main's result, -1 before

vars == <<args, heap, phase, todo, evaluated, handlers, status>>

Init ==
  /\ ArgsInit /\ HeapInit
  /\ phase = "args" /\ todo = <<>> /\ evaluated = <<>> /\ handlers = FALSE /\ status = -1

Std == [kind |-> "std", what |-> Nothing]
File(f) == [kind |-> "file", what |-> f]
Expr(e) == [kind |-> "expr", what |-> e]
Repl == [kind |-> "repl", what |-> Nothing]

ReadArgs ==
  /\ phase = "args" /\ ParseArgs
  /\ UNCHANGED <<heap, phase, todo, evaluated, handlers, status>>

Exits(n) ==
  /\ phase' = "exited" /\ status' = n
  /\ UNCHANGED <<args, heap, todo, evaluated, handlers>>

ArgsExit == phase = "args" /\ reading = "exited" /\ Exits(exit)

(* A block of the engine's own: traced if there is a tracing allocator *)
Allocate == IF opts.trace THEN \E size \in Requests : Malloc(size) ELSE UNCHANGED heap

(* JS_NewRuntime, or JS_NewRuntime2 with the tracing allocator *)
NewRuntime ==
  /\ phase = "args" /\ reading = "parsed"
  /\ Allocate
  /\ phase' = "runtime"
  /\ UNCHANGED <<args, todo, evaluated, handlers, status>>

(* The limit comes after the runtime has its memory, and before the handlers. *)
Configure ==
  /\ phase = "runtime"
  /\ IF opts.limit # 0 THEN SetLimit(opts.limit) ELSE UNCHANGED heap
  /\ handlers' = TRUE
  /\ phase' = "configured"
  /\ UNCHANGED <<args, todo, evaluated, status>>

(* What main evaluates, unless it only instantiates the engine *)
Work ==
  IF opts.quit THEN <<>>
  ELSE <<Std>> \o [i \in DOMAIN opts.includes |-> File(opts.includes[i])]
       \o <<IF opts.expr # Nothing THEN Expr(opts.expr)
            ELSE IF rest = <<>> THEN Repl ELSE File(Head(rest))>>

NewContext ==
  /\ phase = "configured"
  /\ Allocate
  /\ todo' = Work
  /\ phase' = "evaluate"
  /\ UNCHANGED <<args, evaluated, handlers, status>>

CannotStart ==
  /\ \/ phase = "args" /\ reading = "parsed"
     \/ phase = "configured"
  /\ Exits(2)

(* While code runs *)
EngineAllocates ==
  /\ phase \in {"evaluate", "loop"} /\ opts.trace
  /\ phase = "evaluate" => todo # <<>>
  /\ HeapNext
  /\ UNCHANGED <<args, phase, todo, evaluated, handlers, status>>

Found(w) == w.kind = "file" => w.what \in Files

(* eval_buf or eval_file without an exception.  js_std_loop comes after the last. *)
Evaluate ==
  /\ phase = "evaluate" /\ todo # <<>> /\ Found(Head(todo))
  /\ evaluated' = Append(evaluated, Head(todo))
  /\ todo' = Tail(todo)
  /\ phase' = IF Len(todo) = 1 THEN "loop" ELSE phase
  /\ UNCHANGED <<args, heap, handlers, status>>

(* An exception in the preamble that imports std and os is printed and forgotten. *)
StdFails ==
  /\ phase = "evaluate" /\ todo # <<>> /\ Head(todo) = Std
  /\ todo' = Tail(todo)
  /\ UNCHANGED <<args, heap, phase, evaluated, handlers, status>>

MutEvaluateFailsGoesOn ==
  /\ phase = "evaluate" /\ todo # <<>> /\ Head(todo).kind \in {"file", "expr"} /\ Found(Head(todo))
  /\ todo' = Tail(todo) /\ phase' = IF Len(todo) = 1 THEN "loop" ELSE phase
  /\ UNCHANGED <<args, heap, evaluated, handlers, status>>

(* goto fail *)
EvaluateFails ==
  /\ phase = "evaluate" /\ todo # <<>> /\ Head(todo).kind \in {"file", "expr"} /\ Found(Head(todo))
  /\ phase' = "free" /\ status' = 1
  /\ UNCHANGED <<args, heap, todo, evaluated, handlers>>

(* eval_file finds no file, or the shell has an exception: exit, whatever is allocated *)
EvaluateExits ==
  /\ phase = "evaluate" /\ todo # <<>>
  /\ ~Found(Head(todo)) \/ Head(todo) = Repl
  /\ Exits(1)

(* std.exit, which any code may call while it runs *)
CodeExits ==
  /\ \/ phase = "loop"
     \/ phase = "evaluate" /\ todo # <<>> /\ Head(todo) # Std /\ Found(Head(todo))
  /\ \E n \in {0, 1} : Exits(n)

(* js_trace_realloc exits when realloc finds no memory, where malloc's failure is the engine's. *)
ReallocExits ==
  /\ phase \in {"evaluate", "loop"} /\ Live # {}
  /\ Exits(1)

Done ==
  /\ \/ phase = "evaluate" /\ todo = <<>>
     \/ phase = "loop"
  /\ phase' = "free" /\ status' = 0
  /\ UNCHANGED <<args, heap, todo, evaluated, handlers>>

MutFreeHandlersOnSuccess ==
  /\ phase = "free" /\ handlers /\ status = 0
  /\ handlers' = FALSE
  /\ UNCHANGED <<args, heap, phase, todo, evaluated, status>>

(* js_std_free_handlers, *)
FreeHandlers ==
  /\ phase = "free" /\ handlers
  /\ handlers' = FALSE
  /\ UNCHANGED <<args, heap, phase, todo, evaluated, status>>

(* JS_FreeContext and JS_FreeRuntime, which give back what is left, *)
FreeEngine ==
  /\ phase = "free" /\ ~handlers
  /\ \E b \in Live : Free(b)
  /\ UNCHANGED <<args, phase, todo, evaluated, handlers, status>>

(* and the end of main. *)
Return ==
  /\ phase = "free" /\ ~handlers /\ Live = {}
  /\ phase' = "returned"
  /\ UNCHANGED <<args, heap, todo, evaluated, handlers, status>>

Next ==
  \/ ReadArgs \/ ArgsExit \/ NewRuntime \/ Configure \/ NewContext \/ CannotStart
  \/ EngineAllocates \/ Evaluate \/ StdFails \/ EvaluateFails \/ EvaluateExits \/ CodeExits \/ ReallocExits
  \/ Done \/ FreeHandlers \/ FreeEngine \/ Return

(* The program takes its own steps; that the code it runs comes to an end is not promised. *)
FairSteps == ReadArgs \/ ArgsExit \/ FreeHandlers \/ FreeEngine \/ Return

Spec == Init /\ [][Next]_vars /\ WF_vars(FairSteps)

-----------------------------------------------------------------------------
(* Properties *)

(* What was named on the line: not the preamble *)
Own(s) == Picked(s, {i \in DOMAIN s : s[i] # Std})

(* A run of main that returns evaluated the includes and then the expression, the script or the   *)
(* shell, in that order and nothing after the first that failed; its status is 0 exactly when     *)
(* none did.                                                                                       *)
StatusTellsWhatRan ==
  phase = "returned" =>
    /\ IsPrefix(Own(evaluated), Own(Work))
    /\ status = 0 <=> Own(evaluated) = Own(Work)

(* Once main has its status it gives everything back and returns, on the way through "fail" too. *)
MainReturns == phase = "free" ~> phase = "returned" /\ malloc_count = 0 /\ malloc_size = 0
=============================================================================
