------------------------------ MODULE Compiler ------------------------------
(***************************************************************************)
(* src/x/ptklc.c: the proof-of-concept compiler, from its options to its     *)
(* exit status.                                                             *)
(*                                                                         *)
(* The files named on the line are compiled in order, and QuickJS calls      *)
(* jsc_module_loader for each module they import that it has not met yet.    *)
(* A module loaded while another is compiled is written to the C file first. *)
(* cname_list records what was written; main of the generated program loads *)
(* the imported modules and then runs the named files.  The C file is given  *)
(* to cc, which a fork may fail to start and a signal may kill.              *)
(*                                                                         *)
(* A C name is a stem and the numbers that end it, so that a name get_c_name *)
(* makes may be the one find_unique_cname would, which adds a number.         *)
(* Feature bits, byte order, prefix and the verbose flag only change what is *)
(* printed and are left out.                                                *)
(***************************************************************************)
EXTENDS Subsequence, SequencesExt

CONSTANTS Files,     \* every module name and file name
          Imports,   \* what each file imports, in order
          IsModule,  \* the files JS_DetectModule takes for modules
          Readable,  \* the files js_load_file finds
          Broken,    \* those with a syntax error
          Shared,    \* the names that end in .so
          CName,     \* get_c_name of each file
          Options,   \* the options a line may have
          MaxOptions, MaxFiles

(* The modules that are declared without -M *)
SystemModules == {"std", "os"}

CNames == [stem : STRING, numbers : Seq(Nat)]

(* What is assumed of the constants; the module that instantiates this one assumes it. *)
CompilerConstants ==
  /\ SystemModules \subseteq Files /\ Readable \cup IsModule \cup Broken \cup Shared \subseteq Files
  /\ Imports \in [Files -> Seq(Files)] /\ MaxOptions \in Nat /\ MaxFiles \in Nat
  /\ CName \in [Files -> CNames]
  /\ \A o \in Options : /\ o.kind = "name" => o.value \in CNames
                        /\ o.kind \in {"external", "dynamic"} => o.value \in Files

NoName == [stem |-> "", numbers |-> <<>>]   \* a null pointer
Numbered(name, n) == [name EXCEPT !.numbers = Append(@, n)]

VARIABLES phase,      \* "options", "files", "dynamic", "emitted", "cc", "spinning" or "done"
          options,    \* what getopt has left
          output,     \* output_type: "c", "main" or "executable"
          cname,      \* what -N gave, or NoName
          asModule,   \* -m
          cmodules,   \* cmodule_list
          dynamic,    \* dynamic_module_list, from the next one on
          files,      \* the files of the line
          next,       \* the index of the file compile is at
          frames,     \* the modules being compiled, the innermost last
          loaded,     \* the modules QuickJS has met
          code,       \* cname_list: what was written, in order
          inits,      \* init_module_list
          exports,    \* dynamic_export
          cfile,      \* whether the C file is there
          built,      \* whether cc made the executable
          status      \* the exit status, -1 before

setup == <<options, output, cname, asModule, cmodules, files>>
written == <<code, inits, exports>>
vars == <<phase, setup, dynamic, next, frames, loaded, written, cfile, built, status>>

Init ==
  /\ phase = "options"
  /\ options \in UNION {[1..n -> Options] : n \in 0..MaxOptions}
  /\ files \in UNION {[1..n -> Files] : n \in 0..MaxFiles}
  /\ output = "executable" /\ cname = NoName /\ asModule = FALSE
  /\ cmodules = SystemModules /\ dynamic = <<>>
  /\ next = 1 /\ frames = <<>> /\ loaded = {}
  /\ code = <<>> /\ inits = <<>> /\ exports = FALSE
  /\ cfile = FALSE /\ built = FALSE /\ status = -1

(* exit, or the return from main *)
Leave(n) == phase' = "done" /\ status' = n

Exit ==
  /\ Leave(1)
  /\ UNCHANGED <<setup, dynamic, next, frames, loaded, written, cfile, built>>

-----------------------------------------------------------------------------
(* Options.  One that getopt does not know is reported by it and ignored.    *)

ParseOption ==
  /\ phase = "options" /\ options # <<>> /\ Head(options).kind \notin {"help", "nofeature"}
  /\ LET o == Head(options)
     IN /\ output' = IF o.kind = "output" THEN o.value ELSE output
        /\ cname' = IF o.kind = "name" THEN o.value ELSE cname
        /\ asModule' = (asModule \/ o.kind = "module")
        /\ cmodules' = IF o.kind = "external" THEN cmodules \cup {o.value} ELSE cmodules
        /\ dynamic' = IF o.kind = "dynamic" THEN Append(dynamic, o.value) ELSE dynamic
  /\ options' = Tail(options)
  /\ UNCHANGED <<phase, files, next, frames, loaded, written, cfile, built, status>>

(* helpc, also when no file is named, and a feature that does not exist *)
RejectLine ==
  /\ phase = "options"
  /\ IF options = <<>> THEN files = <<>> ELSE Head(options).kind \in {"help", "nofeature"}
  /\ Exit

OpenOutput ==
  /\ phase = "options" /\ options = <<>> /\ files # <<>>
  /\ phase' = "files"
  /\ cfile' = TRUE
  /\ UNCHANGED <<setup, dynamic, next, frames, loaded, written, built, status>>

CannotOpenOutput ==
  /\ phase = "options" /\ options = <<>> /\ files # <<>>
  /\ Exit

-----------------------------------------------------------------------------
(* JS_Eval compiles a file and asks for its imports in order: those it has   *)
(* met are found, the others are loaded before it goes on.                  *)

Frame(f, named, left) == [file |-> f, named |-> named, left |-> left]
Compiling == phase \in {"files", "dynamic"} /\ frames # <<>>
Ready == frames = <<>>
Asked == Head(Last(frames).left)
Waiting == Compiling /\ Last(frames).left # <<>>
Loads(f) == f \in Readable \ Broken

(* compile_file up to JS_Eval; only what is compiled as a module imports *)
StartFile ==
  /\ phase = "files" /\ Ready /\ next <= Len(files) /\ Loads(files[next])
  /\ LET f == files[next]
         module == asModule \/ f \in IsModule
     IN /\ frames' = <<Frame(f, TRUE, IF module THEN Imports[f] ELSE <<>>)>>
        /\ loaded' = IF module THEN loaded \cup {f} ELSE loaded
  /\ UNCHANGED <<phase, setup, dynamic, next, written, cfile, built, status>>

MutImportMetByName ==
  /\ Waiting /\ (Asked \in loaded \/ \E i \in DOMAIN code : code[i].name = CName[Asked])
  /\ frames' = [frames EXCEPT ![Len(frames)].left = Tail(@)]
  /\ UNCHANGED <<phase, setup, dynamic, next, loaded, written, cfile, built, status>>

MutImportMetStays ==
  /\ Waiting /\ Asked \in loaded
  /\ frames' = [frames EXCEPT ![Len(frames)].left = Tail(@) \o <<Head(@)>>]
  /\ UNCHANGED <<phase, setup, dynamic, next, loaded, written, cfile, built, status>>

ImportMet ==
  /\ Waiting /\ Asked \in loaded
  /\ frames' = [frames EXCEPT ![Len(frames)].left = Tail(@)]
  /\ UNCHANGED <<phase, setup, dynamic, next, loaded, written, cfile, built, status>>

(* jsc_module_loader for a declared module *)
LoadDeclared(f) ==
  /\ f \in cmodules
  /\ inits' = Append(inits, f)
  /\ loaded' = loaded \cup {f}
  /\ UNCHANGED <<frames, code, exports>>

(* for a library *)
LoadShared(f) ==
  /\ f \in Shared \ cmodules
  /\ exports' = TRUE
  /\ loaded' = loaded \cup {f}
  /\ UNCHANGED <<frames, code, inits>>

(* and for a file, which is compiled next *)
LoadFile(f) ==
  /\ f \notin Shared \cup cmodules /\ Loads(f)
  /\ frames' = Append(frames, Frame(f, FALSE, Imports[f]))
  /\ loaded' = loaded \cup {f}
  /\ UNCHANGED written

Load(f) == LoadDeclared(f) \/ LoadShared(f) \/ LoadFile(f)

LoadImport ==
  /\ Waiting /\ Asked \notin loaded
  /\ Load(Asked)
  /\ UNCHANGED <<phase, setup, dynamic, next, cfile, built, status>>

(* An import that cannot be loaded fails every compilation around it. *)
CannotLoad(f) == f \notin cmodules \cup Shared /\ ~Loads(f)
LoadFails ==
  /\ \/ Waiting /\ Asked \notin loaded /\ CannotLoad(Asked)
     \/ phase = "files" /\ Ready /\ next <= Len(files) /\ ~Loads(files[next])
     \/ phase = "dynamic" /\ Ready /\ dynamic # <<>> /\ CannotLoad(Head(dynamic))
  /\ Exit

Taken(name) == \E i \in DOMAIN code : code[i].name = name

MutUniqueNameOnce(name) == IF Taken(name) THEN Numbered(name, 1) ELSE name

(* find_unique_cname *)
UniqueName(name) ==
  IF ~Taken(name) THEN name
  ELSE LET free == {n \in 1..(Len(code) + 1) : ~Taken(Numbered(name, n))}
       IN Numbered(name, CHOOSE n \in free : \A m \in free : n <= m)

MutWrittenNamed(f, named, name) == [file |-> f, named |-> TRUE, name |-> name]
Written(f, named, name) == [file |-> f, named |-> named, name |-> name]

(* output_object_code of the innermost file.  A named file takes -N's name if it is the first, *)
(* or its own, whether or not that is taken.                                                   *)
Output ==
  /\ Compiling /\ Last(frames).left = <<>>
  /\ LET f == Last(frames).file
         named == Last(frames).named
         name == IF ~named THEN UniqueName(CName[f])
                 ELSE IF next = 1 /\ cname # NoName THEN cname ELSE CName[f]
     IN /\ code' = Append(code, Written(f, named, name))
        /\ next' = IF named THEN next + 1 ELSE next
  /\ frames' = Front(frames)
  /\ UNCHANGED <<phase, setup, dynamic, loaded, inits, exports, cfile, built, status>>

(* JS_WriteObject finds no memory *)
OutputFails ==
  /\ Compiling /\ Last(frames).left = <<>>
  /\ Exit

FilesDone ==
  /\ phase = "files" /\ Ready /\ next > Len(files)
  /\ phase' = "dynamic"
  /\ UNCHANGED <<setup, dynamic, next, frames, loaded, written, cfile, built, status>>

(* The modules of -D go to the loader, also those QuickJS has met. *)
StartDynamic ==
  /\ phase = "dynamic" /\ Ready /\ dynamic # <<>>
  /\ Load(Head(dynamic))
  /\ dynamic' = Tail(dynamic)
  /\ UNCHANGED <<phase, setup, next, cfile, built, status>>

-----------------------------------------------------------------------------
(* The rest of the C file, and cc                                           *)

Emit ==
  /\ phase = "dynamic" /\ Ready /\ dynamic = <<>>
  /\ IF output = "executable" THEN phase' = "emitted" /\ UNCHANGED status
     ELSE Leave(0)
  /\ UNCHANGED <<setup, dynamic, next, frames, loaded, written, cfile, built>>

Fork ==
  /\ phase = "emitted"
  /\ phase' = "cc"
  /\ UNCHANGED <<setup, dynamic, next, frames, loaded, written, cfile, built, status>>

(* output_executable takes the C file away and returns what exec_cmd returned. *)
CompileReturns(n) ==
  /\ Leave(n)
  /\ cfile' = FALSE
  /\ UNCHANGED <<setup, dynamic, next, frames, loaded, written>>

(* cc and what it exits with: 0 only for a C file without two definitions of one name.  A *)
(* child that cannot run cc exits with 1.                                                 *)
CcExits ==
  /\ phase = "cc"
  /\ \E n \in {0, 1} :
       /\ n = 0 => \A i, j \in DOMAIN code : code[i].name = code[j].name => i = j
       /\ CompileReturns(n)
       /\ built' = (n = 0)

(* exec_cmd waits until its child exits: for one that a signal killed, that is never. *)
CcKilled ==
  /\ phase = "cc"
  /\ phase' = "spinning"
  /\ UNCHANGED <<setup, dynamic, next, frames, loaded, written, cfile, built, status>>

(* fork fails: waitpid answers -1, which is the pid, and status is what the stack held: *)
(* something that looks like an exit, or nothing that ever will.                        *)
ForkFails ==
  /\ phase = "emitted"
  /\ \/ /\ \E n \in {0, 1} : CompileReturns(n)
        /\ UNCHANGED built
     \/ /\ phase' = "spinning"
        /\ UNCHANGED <<setup, dynamic, next, frames, loaded, written, cfile, built, status>>

Next ==
  \/ ParseOption \/ RejectLine \/ OpenOutput \/ CannotOpenOutput
  \/ StartFile \/ ImportMet \/ LoadImport \/ LoadFails \/ Output \/ OutputFails
  \/ FilesDone \/ StartDynamic \/ Emit
  \/ Fork \/ CcExits \/ CcKilled \/ ForkFails

(* The compiler always has a next step to take, or cc does. *)
Spec == Init /\ [][Next]_vars /\ WF_vars(Next)

-----------------------------------------------------------------------------
(* Properties *)

(* What main of the generated program runs *)
Named == Picked(code, {i \in DOMAIN code : code[i].named})
Compiled == phase \in {"emitted", "cc", "spinning"} \/ (phase = "done" /\ status = 0)

(* Main of the generated program runs the files of the line in their order and nothing else,   *)
(* however many of them import each other (JS_NewCustomContext only loads, ptklc.c:645-653).   *)
RunsWhatWasNamed == Compiled => [i \in DOMAIN Named |-> Named[i].file] = files

(* The files that were compiled as modules, and what is there when the program runs the file   *)
(* that was written at place p                                                                *)
AsModule(c) == ~c.named \/ asModule \/ c.file \in IsModule
Available(p) == {code[j].file : j \in 1..p} \cup Range(inits) \cup Shared

(* When it runs a file, what was written up to it has all its imports there: so has the file,  *)
(* and each module that it reaches, through whatever cycles.                                   *)
ImportsAreAvailable ==
  \A p \in DOMAIN code : code[p].named =>
    \A j \in 1..p : AsModule(code[j]) => Range(Imports[code[j].file]) \subseteq Available(p)

(* A module QuickJS loads gets a name that nothing written before it has (the comment over     *)
(* find_unique_cname, ptklc.c:204); named files are not checked.                               *)
LoadedModulesAreNamedApart ==
  \A j \in DOMAIN code : ~code[j].named => \A i \in 1..(j - 1) : code[i].name # code[j].name
=============================================================================
