---------------------------- MODULE RuntimeArgs ----------------------------
(***************************************************************************)
(* parse_runtime_args of src/x/ptklcli.c: the command line of the runtime,    *)
(* read without getopt so that a script gets its own options untouched.      *)
(*                                                                         *)
(* The line is a sequence of elements: a word, a cluster of letters ("-de"), *)
(* a long option, "-" alone, or "--".  What --eval, --include,               *)
(* --memory-limit and --stack-size want is the next element, whatever it     *)
(* looks like; -e takes the rest of its own cluster first.                   *)
(***************************************************************************)
EXTENDS Integers, Sequences, FiniteSets, SequencesExt

CONSTANTS Elements,     \* what a line may hold
          Lines,        \* the lines main may be given
          NumberOf(_),  \* what strtod makes of an element
          MaxIncludes   \* countof (include_list)

(* A cluster has letters: "-" alone is a dash. *)
ASSUME ArgsAssumption ==
  /\ Lines \subseteq Seq(Elements) /\ MaxIncludes \in Nat
  /\ \A e \in Elements :
       NumberOf(e) \in Nat /\ (e.kind = "short" => e.text \in Seq(STRING) \ {<<>>})

Word(w) == [kind |-> "word", text |-> <<w>>]
Cluster(letters) == [kind |-> "short", text |-> letters]
Long(name) == [kind |-> "long", text |-> <<name>>]
Dash == [kind |-> "dash", text |-> <<>>]
Stop == [kind |-> "end", text |-> <<>>]
Nothing == [kind |-> "none", text |-> <<>>]   \* a null pointer

VARIABLES line,     \* argv after argv[0]
          reading,  \* "elements", an option of an element, "parsed", or "exited"
          rest,     \* argv from optind on
          left,     \* what is left of the element that is read
          opts,     \* struct runtime_opts
          exit      \* what exit was called with, -1 before

args == <<line, reading, rest, left, opts, exit>>

ArgsInit ==
  /\ line \in Lines
  /\ reading = "elements" /\ rest = line /\ left = Nothing
  /\ opts = [expr |-> Nothing, module |-> -1, trace |-> FALSE, dump |-> FALSE,
             quit |-> FALSE, rejections |-> FALSE, bignum |-> FALSE,
             limit |-> 0, stack |-> 0, includes |-> <<>>]
  /\ exit = -1

(* The options, by letter; "-?" is help too. *)
Letters ==
  [h |-> "help", e |-> "eval", I |-> "include", m |-> "module", d |-> "dump", T |-> "trace",
   q |-> "quit", v |-> "version"]
LongOnly == {"script", "std", "unhandled-rejection", "bignum", "memory-limit", "stack-size"}
Known == {Letters[l] : l \in DOMAIN Letters} \cup LongOnly

(* The option at hand *)
Named ==
  IF left.kind = "short"
  THEN IF Head(left.text) \in DOMAIN Letters THEN Letters[Head(left.text)]
       ELSE IF Head(left.text) = "?" THEN "help" ELSE "unknown"
  ELSE IF left.text[1] \in Known THEN left.text[1] ELSE "unknown"

(* and the letters behind it in its element *)
Behind == IF left.kind = "short" THEN Tail(left.text) ELSE <<>>

Option(name) == reading = "option" /\ Named = name
GoOn ==
  IF Behind # <<>> THEN left' = Cluster(Behind) /\ UNCHANGED reading
  ELSE left' = Nothing /\ reading' = "elements"

NextElement ==
  /\ reading = "elements" /\ rest # <<>> /\ Head(rest).kind \in {"short", "long"}
  /\ reading' = "option"
  /\ left' = Head(rest)
  /\ rest' = Tail(rest)
  /\ UNCHANGED <<line, opts, exit>>

(* A word, a "-" alone and the end of the line stop the scan, and so does "--", which is      *)
(* skipped.                                                                                   *)
ScanEnds ==
  /\ reading = "elements" /\ (rest # <<>> => Head(rest).kind \in {"word", "dash", "end"})
  /\ reading' = "parsed"
  /\ rest' = IF rest # <<>> /\ Head(rest) = Stop THEN Tail(rest) ELSE rest
  /\ UNCHANGED <<line, left, opts, exit>>

Leave(n) ==
  /\ reading' = "exited" /\ exit' = n
  /\ UNCHANGED <<line, rest, left, opts>>

(* help and version *)
Tell == (Option("help") \/ Option("version")) /\ Leave(0)
Refuse == Option("unknown") /\ Leave(1)

MutTakeEvalFromNext ==
  /\ Option("eval") /\ rest # <<>>
  /\ opts' = [opts EXCEPT !.expr = Head(rest)] /\ rest' = Tail(rest)
  /\ GoOn /\ UNCHANGED <<line, exit>>

TakeEval ==
  /\ Option("eval") /\ (Behind # <<>> \/ rest # <<>>)
  /\ opts' = [opts EXCEPT !.expr = IF Behind # <<>> THEN Cluster(Behind) ELSE Head(rest)]
  /\ rest' = IF Behind # <<>> THEN rest ELSE Tail(rest)
  /\ left' = Nothing /\ reading' = "elements"
  /\ UNCHANGED <<line, exit>>

(* An option that wants the next element stays in its cluster afterwards. *)
TakeInclude ==
  /\ Option("include") /\ rest # <<>> /\ Len(opts.includes) < MaxIncludes
  /\ opts' = [opts EXCEPT !.includes = Append(@, Head(rest))]
  /\ rest' = Tail(rest)
  /\ GoOn
  /\ UNCHANGED <<line, exit>>

TakeNumber ==
  /\ \/ Option("memory-limit") /\ rest # <<>> /\ opts' = [opts EXCEPT !.limit = NumberOf(Head(rest))]
     \/ Option("stack-size") /\ rest # <<>> /\ opts' = [opts EXCEPT !.stack = NumberOf(Head(rest))]
  /\ rest' = Tail(rest)
  /\ GoOn
  /\ UNCHANGED <<line, exit>>

Lacking ==
  /\ \/ \E o \in {"include", "memory-limit", "stack-size"} : Option(o) /\ rest = <<>>
     \/ Option("eval") /\ Behind = <<>> /\ rest = <<>>
     \/ Option("include") /\ Len(opts.includes) >= MaxIncludes
  /\ Leave(1)

SetFlag ==
  /\ reading = "option"
  /\ \/ Named = "module" /\ opts' = [opts EXCEPT !.module = 1]
     \/ Named = "script" /\ opts' = [opts EXCEPT !.module = 0]
     \/ Named \in {"dump", "trace", "quit", "bignum"} /\ opts' = [opts EXCEPT ![Named] = TRUE]
     \/ Named = "unhandled-rejection" /\ opts' = [opts EXCEPT !.rejections = TRUE]
     \/ Named = "std" /\ UNCHANGED opts   \* load_std is 1 from the start.
  /\ GoOn
  /\ UNCHANGED <<line, rest, exit>>

ParseArgs ==
  \/ NextElement \/ ScanEnds \/ Tell \/ Refuse
  \/ TakeEval \/ TakeInclude \/ TakeNumber \/ Lacking \/ SetFlag

-----------------------------------------------------------------------------
(* Properties *)

(* The letter at i takes the next element: nothing before it took the rest of the cluster. *)
TakesNext(text, i) ==
  /\ text[i] = "I" \/ (text[i] = "e" /\ i = Len(text))
  /\ \A j \in 1..(i - 1) : text[j] # "e"

(* How many elements behind it an element uses up *)
Wants(el) ==
  IF el.kind = "short" THEN Cardinality({i \in 1..Len(el.text) : TakesNext(el.text, i)})
  ELSE IF el.text[1] \in {"eval", "include", "memory-limit", "stack-size"} THEN 1 ELSE 0

OptionAt(i) == i <= Len(line) /\ line[i].kind \in {"short", "long"}

(* Where the line goes on after its first n options and what they use up, or all of them *)
After[n \in 0..Len(line)] ==
  IF n = 0 THEN 1
  ELSE IF OptionAt(After[n - 1]) THEN After[n - 1] + 1 + Wants(line[After[n - 1]])
  ELSE After[n - 1]

(* Where the script's part of the line begins: behind "--", if that is where the options end *)
ScriptFrom ==
  LET behind == After[Len(line)]
  IN IF behind <= Len(line) /\ line[behind] = Stop THEN behind + 1 ELSE behind

(* The script and its arguments are the line from the first element that is neither an option    *)
(* nor an option's argument, unchanged, whatever options they hold themselves ("so we can pass    *)
(* command line to scripts", ptklcli.c:80).                                                       *)
ScriptGetsItsLine == reading = "parsed" => rest = SubSeq(line, ScriptFrom, Len(line))

=============================================================================
