------------------------------ MODULE PtklQjs ------------------------------
(***************************************************************************)
(* src/x/qjs/ptkl.c as a whole: main hands a line whose first element is the *)
(* word "compile" to the compiler, without that word, and reads any other as *)
(* the runtime's own.  "compile" behind an option or "--" is a script.       *)
(*                                                                         *)
(* The two parts share nothing: the one that was not chosen stays as it was. *)
(***************************************************************************)
EXTENDS Runtime

CONSTANTS Sources,   \* the compiler's Files
          Imports, IsModule, Readable, Broken, Shared, CName, Options, MaxOptions, MaxFiles

VARIABLES compiling, compileStatus,  \* the compiler's phase and status
          options, output, cname, asModule, cmodules, dynamic, files, next, frames, loaded,
          code, inits, exports, cfile, built

C == INSTANCE Compiler WITH Files <- Sources, phase <- compiling, status <- compileStatus

ASSUME CompilerAssumption == C!CompilerConstants

compilerVars ==
  <<compiling, compileStatus, options, output, cname, asModule, cmodules, dynamic, files, next,
    frames, loaded, code, inits, exports, cfile, built>>
mainVars == <<vars, compilerVars>>

(* argc > 1 && !strcmp (argv[1], "compile") *)
Compiles == line # <<>> /\ Head(line) = Word("compile")

(* What follows the word is in options and files, the way getopt sees them. *)
MainInit ==
  /\ Init
  /\ Compiles \/ (options = <<>> /\ files = <<>>)
  /\ C!Init

RunCompiler == Compiles /\ C!Next /\ UNCHANGED vars
RunRuntime == ~Compiles /\ Next /\ UNCHANGED compilerVars

(* return compile (--argc, argv) *)
ReturnFromCompile ==
  /\ Compiles /\ phase = "args" /\ compiling = "done"
  /\ phase' = "compiled" /\ status' = compileStatus
  /\ UNCHANGED <<args, heap, todo, evaluated, handlers, compilerVars>>

MainNext == RunCompiler \/ RunRuntime \/ ReturnFromCompile

(* The compiler always has a next step to take, or cc does; of the runtime, see Runtime. *)
MainSpec ==
  /\ MainInit /\ [][MainNext]_mainVars
  /\ WF_mainVars(RunCompiler \/ ReturnFromCompile)
  /\ WF_mainVars(~Compiles /\ FairSteps /\ UNCHANGED compilerVars)

-----------------------------------------------------------------------------
(* Properties of the compiler, stated and commented there *)

(* The generated program runs the files of the line, in order and nothing else. *)
RunsWhatWasNamed == C!RunsWhatWasNamed

(* When it runs one, every module that file reaches is there. *)
ImportsAreAvailable == C!ImportsAreAvailable

(* A module the loader met has a C name nothing before it has. *)
LoadedModulesAreNamedApart == C!LoadedModulesAreNamedApart

(* "ptkl compile" comes back with the compiler's status, unless exec_cmd waits for a child that *)
(* will never exit.                                                                             *)
ComesBack ==
  Compiles ~> \/ compiling = "spinning"
              \/ phase = "compiled" /\ status = compileStatus /\ status >= 0
=============================================================================
