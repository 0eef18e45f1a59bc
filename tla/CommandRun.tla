----------------------------- MODULE CommandRun -----------------------------
(***************************************************************************)
(* command_run of src/libcli/src/command.c, from main's call to its exit   *)
(* status: the parse loop over getopt_long, the choice between running the *)
(* command and handing the rest of the line to a subcommand, the flag       *)
(* callbacks and the handler, and the reporting of errors.                  *)
(*                                                                         *)
(* The line is a sequence of elements: a word, a cluster of short flags     *)
(* ("-v", "-xy"), a long flag, or "--".  A flag may want an argument; one   *)
(* written in the same element ("--foo=bar"), an optional argument and an   *)
(* abbreviated long flag are left out.  getopt_long is external: it skips   *)
(* words (glibc moves them behind the flags), and argv[optind - 1] is the   *)
(* element before the one it is reading until that one is finished.         *)
(*                                                                         *)
(* Callbacks and handlers are the program's; what matters here is whether   *)
(* they push an error, and they may.                                        *)
(***************************************************************************)
EXTENDS Integers, Sequences, SequencesExt

CONSTANTS
  CommandNames,  \* the commands, whose names are also words
  Main,          \* the top one
  SubcommandsOf, \* for each command, its subcommands
  FlagsOf,       \* for each command, its flags in the order they were added
  ExpectArgs,    \* for each command, expect_args: -1 is any number
  HasHandler,    \* the commands whose fn is not null
  NoShort,       \* the short_flag 0 of a flag that has a long name only
  Lines          \* the command lines main may be given

(* A flag's name is unlike NoLong, and its commands form a tree below Main. *)
NoLong == ""
FlagSpec(short, long, wants, callback, exits) ==
  [short |-> short, long |-> long, wants |-> wants, callback |-> callback, exits |-> exits]
ASSUME TreeAssumption ==
  /\ Main \in CommandNames /\ HasHandler \subseteq CommandNames
  /\ \A c \in CommandNames : Main \notin SubcommandsOf[c] /\ SubcommandsOf[c] \subseteq CommandNames
  /\ \A c, d \in CommandNames : c # d => SubcommandsOf[c] \cap SubcommandsOf[d] = {}
  /\ \A c \in CommandNames : ExpectArgs[c] \in Nat \cup {-1}
  /\ \A c \in CommandNames : FlagsOf[c] \in Seq({FlagsOf[c][i] : i \in DOMAIN FlagsOf[c]})

Word(w) == [kind |-> "word", text |-> <<w>>]
Short(letters) == [kind |-> "short", text |-> letters]
Long(name) == [kind |-> "long", text |-> <<name>>]
EndOfFlags == [kind |-> "end", text |-> <<>>]

(* A cluster has letters: "-" alone is a word. *)
IsElement(e) ==
  /\ e.kind \in {"word", "short", "long", "end"}
  /\ e.kind = "word" => e = Word(e.text[1])
  /\ e.kind = "short" => e.text \in Seq(STRING) \ {<<>>}
ASSUME LinesAssumption ==
  \A l \in Lines : l \in Seq({l[i] : i \in DOMAIN l}) /\ \A i \in DOMAIN l : IsElement(l[i])

VARIABLES
  line,       \* what main was given, after argv[0]
  pc,         \* where the innermost command_run is
  path,       \* the commands whose command_run is active, the innermost last
  rest,       \* argv from optind on, without the words getopt moved away
  letters,    \* what getopt has left of the cluster at the head of rest
  skipped,    \* the words it moved behind the flags
  previous,   \* the last element it finished that is not a word: argv[0] at first
  unhandled,  \* unhandled_flags of the innermost command_run
  args,       \* its args
  pending,    \* pending_flag_handlers of each command_run, as indexes of FlagsOf
  next,       \* the next pending handler to run
  taken,      \* each command's cmd->args
  errors,     \* each command's error stack
  printed,    \* the errors that were printed, as <<command, error>>
  ran,        \* the handlers that were called, with the args they found
  called,     \* the flags whose callback was called, as <<command, index>>
  ok          \* what the last command_run returned

vars == <<line, pc, path, rest, letters, skipped, previous, unhandled, args, pending, next,
          taken, errors, printed, ran, called, ok>>
scan == <<rest, letters, skipped, previous>>
effects == <<printed, ran, called>>

cmd == Last(path)
Ahead(kind) == rest # <<>> /\ Head(rest).kind = kind
Flag(c, i) == FlagsOf[c][i]

(* The command line starts at main, with argv[0] before it. *)
Init ==
  /\ line \in Lines
  /\ pc = "parse" /\ path = <<Main>>
  /\ rest = line /\ letters = <<>> /\ skipped = <<>> /\ previous = Word(Main)
  /\ unhandled = <<>> /\ args = <<>>
  /\ pending = [c \in CommandNames |-> <<>>] /\ next = 1
  /\ taken = [c \in CommandNames |-> <<>>]
  /\ errors = [c \in CommandNames |-> <<>>]
  /\ printed = <<>> /\ ran = <<>> /\ called = <<>>
  /\ ok = FALSE

-----------------------------------------------------------------------------
(* getopt_long *)

(* The first flag of c with this short name, or with this long one unless it is NoLong; else 0 *)
FindFlag(c, short, long) ==
  SelectInSeq(FlagsOf[c], LAMBDA f : f.short = short \/ (long # NoLong /\ f.long = long))

(* The flag getopt_long finds for a long name *)
LongFlag(c, long) == SelectInSeq(FlagsOf[c], LAMBDA f : f.long = long)

(* What getopt has moved past when the flag it reads is finished: the element, and the next *)
(* one too when that is the flag's argument.                                                *)
Finish(n) ==
  /\ rest' = SubSeq(rest, n + 1, Len(rest))
  /\ letters' = <<>>
  /\ previous' = rest[n]
  /\ UNCHANGED skipped

(* It reads one letter of the cluster and stays on it, *)
ReadLetter(left) ==
  /\ letters' = left
  /\ UNCHANGED <<rest, skipped, previous>>

(* and meanwhile argv[optind - 1] is whatever stands before the cluster. *)
BeforeCluster == IF skipped # <<>> THEN Last(skipped) ELSE previous

SkipWord ==
  /\ pc = "parse" /\ Ahead("word")
  /\ skipped' = Append(skipped, Head(rest))
  /\ rest' = Tail(rest)
  /\ UNCHANGED <<line, pc, path, letters, previous, unhandled, args, pending, next, taken,
                 errors, effects, ok>>

-----------------------------------------------------------------------------
(* The parse loop: what each answer of getopt_long leads to *)

PushError(c, e) == errors' = [errors EXCEPT ![c] = Append(@, e)]

MutFailSucceeds(e) ==
  /\ PushError(cmd, e)
  /\ ok' = TRUE
  /\ pc' = "done"

(* goto done, with ok still false *)
Fail(e) ==
  /\ PushError(cmd, e)
  /\ ok' = FALSE
  /\ pc' = "done"

Pend(f) ==
  /\ pending' = [pending EXCEPT ![cmd] = Append(@, f)]
  /\ UNCHANGED <<pc, unhandled, errors, ok>>

Unhandled(element) ==
  /\ unhandled' = Append(unhandled, element)
  /\ UNCHANGED <<pc, pending, errors, ok>>

Reject(e) ==
  /\ Fail(e)
  /\ UNCHANGED <<unhandled, pending>>

(* A short flag, or a long one that has a short name: pended when it has a callback; the *)
(* switch has no case for one that has none.                                             *)
TakeFlag(f) == IF Flag(cmd, f).callback THEN Pend(f) ELSE Reject("unexpected_flag")

(* A flag that has a long name only is looked up twice, first as the short flag 0. *)
TakeLongOnly(name) ==
  LET first == FindFlag(cmd, NoShort, NoLong)
  IN IF first # 0 /\ Flag(cmd, first).callback THEN Pend(first)
     ELSE Pend(FindFlag(cmd, NoShort, name))

MissingArgument == Reject("missing_argument")

ParseShort ==
  /\ pc = "parse" /\ Ahead("short")
  /\ LET text == IF letters # <<>> THEN letters ELSE Head(rest).text
         left == Tail(text)
         f == FindFlag(cmd, Head(text), NoLong)
         wants == f # 0 /\ Flag(cmd, f).wants
     IN \/ /\ wants /\ left = <<>> /\ Len(rest) = 1
           /\ Finish(1)
           /\ MissingArgument
        \/ /\ wants /\ (left # <<>> \/ Len(rest) > 1)
           /\ Finish(IF left # <<>> THEN 1 ELSE 2)
           /\ TakeFlag(f)
        \/ /\ ~wants
           /\ IF left # <<>> THEN ReadLetter(left) ELSE Finish(1)
           /\ IF f # 0 THEN TakeFlag(f)
              ELSE Unhandled(IF left # <<>> THEN BeforeCluster ELSE Head(rest))
  /\ UNCHANGED <<line, path, args, next, taken, effects>>

ParseLong ==
  /\ pc = "parse" /\ Ahead("long")
  /\ LET name == Head(rest).text[1]
         f == LongFlag(cmd, name)
     IN \/ /\ f = 0
           /\ Finish(1)
           /\ Unhandled(Head(rest))
        \/ /\ f # 0 /\ Flag(cmd, f).wants /\ Len(rest) = 1
           /\ Finish(1)
           /\ MissingArgument
        \/ /\ f # 0 /\ (Flag(cmd, f).wants => Len(rest) > 1)
           /\ Finish(IF Flag(cmd, f).wants THEN 2 ELSE 1)
           /\ IF Flag(cmd, f).short = NoShort THEN TakeLongOnly(name)
              ELSE TakeFlag(FindFlag(cmd, Flag(cmd, f).short, NoLong))
  /\ UNCHANGED <<line, path, args, next, taken, effects>>

(* -1: the words getopt moved away and what follows "--" are the args. *)
CollectArgs ==
  /\ pc = "parse" /\ (rest = <<>> \/ Ahead("end"))
  /\ args' = skipped \o (IF rest = <<>> THEN <<>> ELSE Tail(rest))
  /\ pc' = "decide"
  /\ UNCHANGED <<line, path, scan, unhandled, pending, next, taken, errors, effects, ok>>

-----------------------------------------------------------------------------
(* Whose line is it? *)

HasSubcommands == SubcommandsOf[cmd] # {}
Subcommand == {c \in SubcommandsOf[cmd] : args # <<>> /\ args[1] = Word(c)}

Keep == UNCHANGED <<line, path, scan, unhandled, args, pending, next, effects>>

NothingLeft ==
  /\ pc = "decide" /\ unhandled = <<>> /\ args = <<>>
  /\ pc' = "callbacks"
  /\ Keep /\ UNCHANGED <<taken, errors, ok>>

RejectUnknownFlag ==
  /\ pc = "decide" /\ unhandled # <<>>
  /\ ~HasSubcommands \/ args = <<>>
  /\ Fail("unknown_flag")
  /\ Keep /\ UNCHANGED taken

MutSubArgvFromZero(flags) == args \o flags

(* The subcommand's argv, after argv[0]: the other args, then the flags nobody took. *)
SubArgv(flags) == Tail(args) \o flags

(* The subcommand runs with optind at the start of that argv. *)
RunSubcommand ==
  /\ pc = "decide" /\ Subcommand # {}
  /\ \E c \in Subcommand :
       /\ path' = Append(path, c)
       /\ previous' = Word(c)
  /\ pc' = "parse"
  /\ rest' = SubArgv(unhandled)
  /\ letters' = <<>> /\ skipped' = <<>> /\ unhandled' = <<>> /\ args' = <<>>
  /\ next' = 1
  /\ UNCHANGED <<line, pending, taken, errors, effects, ok>>

NoSubcommand ==
  /\ pc = "decide" /\ args # <<>> /\ Subcommand = {}
  /\ unhandled # <<>> => HasSubcommands

TooMany(n) == ExpectArgs[cmd] >= 0 /\ n > ExpectArgs[cmd]

RejectArgs ==
  /\ NoSubcommand /\ TooMany(Len(args))
  /\ Fail(IF ExpectArgs[cmd] = 0 THEN "unexpected_argument" ELSE "too_many_arguments")
  /\ Keep /\ UNCHANGED taken

TakeArgs ==
  /\ NoSubcommand /\ ~TooMany(Len(args))
  /\ taken' = [taken EXCEPT ![cmd] = @ \o args]
  /\ pc' = "callbacks"
  /\ Keep /\ UNCHANGED <<errors, ok>>

-----------------------------------------------------------------------------
(* run: the pending callbacks, then the handler *)

Same == UNCHANGED <<line, path, scan, unhandled, args, pending, taken, printed>>

(* What the program's own code may do to the command's errors *)
MayPushError(e) == PushError(cmd, e) \/ UNCHANGED errors

RunCallback ==
  /\ pc = "callbacks" /\ next <= Len(pending[cmd])
  /\ LET f == pending[cmd][next]
     IN /\ Flag(cmd, f).callback
        /\ called' = Append(called, <<cmd, f>>)
        /\ MayPushError("callback")
        /\ IF Flag(cmd, f).exits THEN ok' = TRUE /\ pc' = "done" ELSE UNCHANGED <<ok, pc>>
  /\ next' = next + 1
  /\ Same /\ UNCHANGED ran

MutSkipCallbackStays ==
  /\ pc = "callbacks" /\ next <= Len(pending[cmd])
  /\ ~Flag(cmd, pending[cmd][next]).callback
  /\ UNCHANGED vars

SkipCallback ==
  /\ pc = "callbacks" /\ next <= Len(pending[cmd])
  /\ ~Flag(cmd, pending[cmd][next]).callback
  /\ next' = next + 1
  /\ Same /\ UNCHANGED <<pc, errors, ran, called, ok>>

MutCheckNothing(after) ==
  /\ pc' = after
  /\ UNCHANGED ok

(* A command with errors on its stack goes no further. *)
CheckErrors(after) ==
  \/ /\ errors[cmd] = <<>>
     /\ pc' = after
     /\ UNCHANGED ok
  \/ /\ errors[cmd] # <<>>
     /\ pc' = "done"
     /\ ok' = FALSE

CallbacksDone ==
  /\ pc = "callbacks" /\ next > Len(pending[cmd])
  /\ CheckErrors("handler")
  /\ Same /\ UNCHANGED <<errors, next, ran, called>>

RunHandler ==
  /\ pc = "handler"
  /\ \/ /\ cmd \in HasHandler
        /\ ran' = Append(ran, [command |-> cmd, args |-> taken[cmd]])
        /\ MayPushError("handler")
     \/ cmd \notin HasHandler /\ UNCHANGED <<ran, errors>>
  /\ pc' = "handled"
  /\ Same /\ UNCHANGED <<next, called, ok>>

HandlerDone ==
  /\ pc = "handled"
  /\ \/ errors[cmd] = <<>> /\ ok' = TRUE
     \/ errors[cmd] # <<>> /\ ok' = FALSE
  /\ pc' = "done"
  /\ Same /\ UNCHANGED <<errors, next, ran, called>>

-----------------------------------------------------------------------------
(* done, and what the caller does *)

Printed(c) == [i \in DOMAIN errors[c] |-> <<c, errors[c][Len(errors[c]) + 1 - i]>>]

MutPrintNothing(c) == UNCHANGED <<errors, printed>>

(* command_print_errors pops the stack. *)
PrintErrors(c) ==
  /\ printed' = printed \o Printed(c)
  /\ errors' = [errors EXCEPT ![c] = <<>>]

MutReturnRunsParent ==
  /\ pc = "done" /\ Len(path) > 1
  /\ path' = Front(path)
  /\ pc' = "callbacks"
  /\ IF ok THEN UNCHANGED <<errors, printed>> ELSE PrintErrors(cmd)
  /\ UNCHANGED <<line, scan, unhandled, args, pending, next, taken, ran, called, ok>>

(* Back in the parent, which prints the errors of a subcommand that failed and is done too. *)
Return ==
  /\ pc = "done" /\ Len(path) > 1
  /\ path' = Front(path)
  /\ IF ok THEN UNCHANGED <<errors, printed>> ELSE PrintErrors(cmd)
  /\ UNCHANGED <<line, pc, scan, unhandled, args, pending, next, taken, ran, called, ok>>

(* Back in main: command_free prints what it finds, the status is ok. *)
Exit ==
  /\ pc = "done" /\ Len(path) = 1
  /\ PrintErrors(cmd)
  /\ pc' = "exited"
  /\ UNCHANGED <<line, path, scan, unhandled, args, pending, next, taken, ran, called, ok>>

Next ==
  \/ SkipWord \/ ParseShort \/ ParseLong \/ CollectArgs
  \/ NothingLeft \/ RejectUnknownFlag \/ RunSubcommand \/ RejectArgs \/ TakeArgs
  \/ RunCallback \/ SkipCallback \/ CallbacksDone \/ RunHandler \/ HandlerDone
  \/ Return \/ Exit

(* A handler and a callback return. *)
Spec == Init /\ [][Next]_vars /\ WF_vars(Next)

-----------------------------------------------------------------------------
(* Properties *)

(* A run that fails says why, and every error a command pushed is printed by the time main    *)
(* returns: command_run's callers, not command_run, print them (command.c:548-554, ptkl.c:86).    *)
(* A flag that exits may leave one behind in a subcommand: the run then counts as a success.  *)
FailureIsReported ==
  pc = "exited" /\ ~ok => /\ printed # <<>>
                          /\ \A c \in CommandNames : errors[c] = <<>>

ExitFlagCalled == \E i \in DOMAIN called : Flag(called[i][1], called[i][2]).exits

(* A reference for what the handler is due: the words, minus those that are the argument of a *)
(* flag of main's.  A cluster wants the next element if its last letter does, and no letter    *)
(* before took what is behind it.                                                             *)
WantsNext(element) ==
  LET wants(f) == f # 0 /\ Flag(Main, f).wants
      takes(i) == wants(FindFlag(Main, element.text[i], NoLong))
  IN \/ element.kind = "long" /\ wants(LongFlag(Main, element.text[1]))
     \/ /\ element.kind = "short" /\ takes(Len(element.text))
        /\ \A i \in 1..(Len(element.text) - 1) : ~takes(i)
IsArgument[i \in 0..Len(line)] == i > 1 /\ ~IsArgument[i - 1] /\ WantsNext(line[i - 1])
Kept[i \in 0..Len(line)] ==
  IF i = 0 THEN <<>>
  ELSE IF line[i].kind = "word" /\ ~IsArgument[i] THEN Append(Kept[i - 1], line[i]) ELSE Kept[i - 1]
Words == Kept[Len(line)]

(* Main and then what the words name, as far as they name commands *)
Named(k) == IF k = 0 THEN Main ELSE Words[k].text[1]
Selected == {c \in SubcommandsOf[Main] : Words # <<>> /\ Named(1) = c}
Below(c) ==
  {d \in CommandNames :
     \A S \in SUBSET CommandNames :
       c \in S /\ (\A e \in S : SubcommandsOf[e] \subseteq S) => d \in S}

(* A run that succeeds printed no error and ran one handler, unless a flag cut it short or the *)
(* command it came to has none: that is main, or below the subcommand the line names.           *)
SuccessRanOneHandler ==
  pc = "exited" /\ ok /\ ~ExitFlagCalled =>
    /\ printed = <<>>
    /\ \/ Len(ran) = 1
       \/ /\ ran = <<>>
          /\ Main \in HasHandler => \E c \in Selected : ~(Below(c) \subseteq HasHandler)

(* Lines on which the words survive the trip to a subcommand: a cluster has no letter main does *)
(* not know, and behind "--" there are only words.  On the others argv[optind - 1] passes on    *)
(* what stands before the cluster (command.c:418), and what was behind the "--" that the parse   *)
(* drops is read as flags by the subcommand (command.c:533).                                    *)
OfMain(cluster) ==
  \A i \in DOMAIN cluster : LET flag(k) == FindFlag(Main, cluster[k], NoLong)
                           IN flag(i) # 0 \/ \E k \in 1..(i - 1) : flag(k) # 0 /\ Flag(Main, flag(k)).wants
PlainElement(e) == e.kind = "short" => Len(e.text) = 1 \/ OfMain(e.text)
Plain == \A i \in DOMAIN line :
           /\ PlainElement(line[i])
           /\ line[i].kind = "end" => \A j \in (i + 1)..Len(line) : line[j].kind = "word"

(* A handler is due the words behind those that name its command and the ones above it, if the *)
(* next word names no subcommand of it.                                                        *)
Due(r) ==
  LET n == Len(Words) - Len(r.args)
  IN /\ n >= 0 /\ r.args = SubSeq(Words, n + 1, Len(Words))
     /\ \A k \in 1..n : Named(k) \in SubcommandsOf[Named(k - 1)]
     /\ r.command = Named(n)
     /\ n < Len(Words) => Named(n + 1) \notin SubcommandsOf[r.command]

(* Wherever the flags stand in the line, the handler that runs is the one the first words name *)
(* and it finds the other words, in order, in cmd->args: they went through getopt's            *)
(* permutation, the split into args and unhandled_flags, and the subcommand's own parse.       *)
HandlerGetsItsWords == Plain => \A i \in DOMAIN ran : Due(ran[i])

(* command.h:142-143: flag callbacks run before the callback for the command they belong to.  When *)
(* a handler is called every callback pending for its command has been, and none left an error.*)
CallbacksFirst ==
  [][ran' # ran =>
       /\ errors[cmd] = <<>>
       /\ \A i \in DOMAIN pending[cmd] :
            Flag(cmd, pending[cmd][i]).callback =>
              \E j \in DOMAIN called : called[j] = <<cmd, pending[cmd][i]>>]_vars

(* Once a command ran or a flag cut the run short, nothing else runs, at any level. *)
NothingRunsTwice == [][(ran # <<>> \/ ExitFlagCalled) => ran' = ran /\ called' = called]_vars

(* main returns, whatever the line. *)
MainReturns == <>(pc = "exited")

-----------------------------------------------------------------------------
(* What a comment promises and the code does not do *)

(* command.h:140: flags "short circuit normal processing, like printing help and exiting".    *)
ExitFlagStopsTheRun ==
  ran # <<>> => \A c \in CommandNames : \A i \in DOMAIN pending[c] : ~Flag(c, pending[c][i]).exits
=============================================================================
