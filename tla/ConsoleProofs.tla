--------------------------- MODULE ConsoleProofs ---------------------------
(***************************************************************************)
(* For every list of commands of which none abbreviates another, every     *)
(* buffer and every set of signals: the line, the completions and the       *)
(* status bar agree with what was typed, Enter runs what was typed, and a   *)
(* process that ends gives the terminal back but on the ways that are named.*)
(***************************************************************************)
EXTENDS ConsoleSession, DataProofs

Chars == Letters \cup {Junk}
Lines == Seq(Chars)

(* What the texts are *)
TypesOK ==
  /\ typed \in Lines
  /\ cmd \in Lines
  /\ completions \in Seq(Names)

(* An error hides a status that is none itself: what the next key restores is  *)
(* not an error.                                                                *)
NoErrorIsHidden == errorStatus.kind # "error"

TextInv ==
  /\ TypesOK
  /\ LineExtendsTyped
  /\ CompletionsShown
  /\ ErrorHidesStatus
  /\ StatusFollowsTyping
  /\ NoErrorIsHidden

(* A call of panic or of a handler *)
Reasons == Signals \cup {"panic"}
Steps == {"report", "symbols", "print", "exit"}
Frame == [why : Reasons, at : Steps]

(* The terminal is in curses mode only inside the console, unless its last window is missing, *)
(* and what waits for malloc's lock does so inside a handler.                                  *)
TerminalInv ==
  /\ frames \in Seq(Frame)
  /\ outcome \in {"running", "success", "failure", "killed", "hung"}
  /\ phase = "start" => ~curses
  /\ phase = "returned" /\ curses => "cmd" \notin windows
  /\ outcome = "hung" => frames # <<>>
  /\ TerminalIsGivenBack

-----------------------------------------------------------------------------
(* Texts and commands                                                      *)

LEMMA NamesAreLines ==
  ASSUME NEW c \in Names
  PROVE  c \in Lines /\ c # <<>> /\ c \in Seq(Letters)
<1>1. PICK i \in DOMAIN Commands : c = Commands[i]
  BY DEF Names
<1>2. c \in Seq(Letters) \ {<<>>}
  BY <1>1, CommandsAssumption, LenProperties, ElementOfSeq
<1>. QED BY <1>2, SeqMonotonic DEF Lines, Chars

LEMMA AbbreviatesItself ==
  ASSUME NEW t \in Lines
  PROVE  Abbreviates(t, t)
BY SubSeqFull, LenProperties DEF Lines, Abbreviates

(* A prefix, letter by letter *)
LEMMA AbbreviatesByLetter ==
  ASSUME NEW t \in Lines, NEW u \in Lines
  PROVE  Abbreviates(t, u) <=> Len(t) <= Len(u) /\ \A i \in 1..Len(t) : u[i] = t[i]
<1>1. Len(t) \in Nat /\ Len(u) \in Nat
  BY LenProperties DEF Lines
<1>2. ASSUME Len(t) <= Len(u)
      PROVE  /\ SubSeq(u, 1, Len(t)) \in Lines
             /\ Len(SubSeq(u, 1, Len(t))) = Len(t)
             /\ \A i \in 1..Len(t) : SubSeq(u, 1, Len(t))[i] = u[i]
  <2>1. \A i \in 1..Len(t) : u[i] \in Chars
    BY <1>1, <1>2, ElementOfSeq DEF Lines
  <2>. QED BY <1>1, <2>1, SubSeqProperties DEF Lines
<1>3. ASSUME Len(t) <= Len(u), \A i \in 1..Len(t) : u[i] = t[i]
      PROVE  SubSeq(u, 1, Len(t)) = t
  BY <1>2, <1>3, SeqEqual DEF Lines
<1>. QED BY <1>1, <1>2, <1>3 DEF Abbreviates

LEMMA AbbreviatesTransitively ==
  ASSUME NEW t \in Lines, NEW u \in Lines, NEW v \in Lines,
         Abbreviates(t, u), Abbreviates(u, v)
  PROVE  Abbreviates(t, v)
<1>1. Len(t) \in Nat /\ Len(u) \in Nat /\ Len(v) \in Nat
  BY LenProperties DEF Lines
<1>. QED BY <1>1, AbbreviatesByLetter

LEMMA NamesAreFinite == IsFiniteSet(Names)
<1>1. Len(Commands) \in Nat /\ DOMAIN Commands = 1..Len(Commands)
  BY CommandsAssumption, LenProperties
<1>2. IsFiniteSet(DOMAIN Commands)
  BY <1>1, FS_Interval
<1>3. Commands \in [DOMAIN Commands -> Names]
  BY CommandsAssumption, LenProperties DEF Names
<1>4. Commands \in Surjection(DOMAIN Commands, Names)
  BY <1>3 DEF Surjection, Names
<1>. QED BY <1>2, <1>4, FS_Surjection

(* What match_command resolves is a name the input abbreviates, and the only one. *)
LEMMA MatchIsUnique ==
  ASSUME NEW t \in Lines, MatchCommand(t) # <<>>
  PROVE  /\ MatchCommand(t) \in Names
         /\ Abbreviates(t, MatchCommand(t))
         /\ \A c \in Names : Abbreviates(t, c) => c = MatchCommand(t)
<1> DEFINE found == {c \in Names : Abbreviates(t, c)}
<1>1. Cardinality(found) = 1 /\ MatchCommand(t) = CHOOSE c \in found : TRUE
  BY DEF MatchCommand
<1>2. IsFiniteSet(found)
  BY NamesAreFinite, FS_Subset
<1> HIDE DEF found
<1>3. PICK c : found = {c}
  BY <1>1, <1>2, FS_Singleton
<1>4. MatchCommand(t) = c
  BY <1>1, <1>3
<1>. QED BY <1>3, <1>4 DEF found

(* A name in full resolves to itself, because no name abbreviates another. *)
LEMMA NameMatchesItself ==
  ASSUME NEW c \in Names
  PROVE  MatchCommand(c) = c
<1>1. {d \in Names : Abbreviates(c, d)} = {c}
  BY NamesAreLines, AbbreviatesItself, PrefixFree
<1>2. c # <<>>
  BY NamesAreLines
<1>. QED BY <1>1, <1>2, FS_Singleton DEF MatchCommand

(* get_matching_commands lists names, all with the prefix. *)
LEMMA MatchingExtends ==
  ASSUME NEW t \in Lines
  PROVE  /\ Matching(t) \in Seq(Names)
         /\ \A i \in DOMAIN Matching(t) : Abbreviates(t, Matching(t)[i])
<1> DEFINE found == {i \in DOMAIN Commands : Abbreviates(t, Commands[i])}
<1>1. Commands \in Seq(Names) /\ found \in SUBSET (1..Len(Commands))
  <2>1. /\ DOMAIN Commands = 1..Len(Commands) /\ Len(Commands) \in Nat
        /\ Commands \in [1..Len(Commands) -> Seq(Letters) \ {<<>>}]
    BY CommandsAssumption, LenProperties
  <2>2. Commands \in [1..Len(Commands) -> Names]
    BY <2>1 DEF Names
  <2>. QED BY <2>1, <2>2, SeqDef
<1>2. \A i \in found : Abbreviates(t, Commands[i])
  OBVIOUS
<1> HIDE DEF found
<1>3. /\ Picked(Commands, found) \in Seq(Names)
      /\ \A k \in DOMAIN Picked(Commands, found) :
           \E i \in found : Picked(Commands, found)[k] = Commands[i]
  BY <1>1, PickedProperties
<1>4. Matching(t) = Picked(Commands, found)
  BY DEF Matching, found
<1>. QED BY <1>2, <1>3, <1>4

-----------------------------------------------------------------------------
(* The steps of the console                                                *)

(* What the next key restores: the status there was, and no error. *)
LEMMA RestoredStatus ==
  ASSUME TextInv
  PROVE  /\ Restored.kind # "error"
         /\ (typed # <<>> \/ completions # <<>>) => Restored = status
BY DEF TextInv, ErrorHidesStatus, NoErrorIsHidden, Restored

LEMMA TextInitially == Init => TextInv
<1> SUFFICES ASSUME Init PROVE TextInv
  OBVIOUS
<1>1. TypesOK
  BY EmptySeq DEF Init, TypesOK, Lines
<1>2. LineExtendsTyped /\ CompletionsShown
  BY DEF Init, LineExtendsTyped, CompletionsShown
<1>3. ErrorHidesStatus /\ StatusFollowsTyping /\ NoErrorIsHidden
  BY DEF Init, ErrorHidesStatus, StatusFollowsTyping, NoErrorIsHidden, Ready, Null, Text
<1>. QED BY <1>1, <1>2, <1>3 DEF TextInv

(* The answer of the completion handler: names, all with the prefix *)
LEMMA AnswersExtend ==
  ASSUME NEW t \in Lines, NEW matches \in Answers(t)
  PROVE  /\ matches \in Seq(Names)
         /\ \A i \in DOMAIN matches : Abbreviates(t, matches[i])
<1>1. CASE matches = Matching(t)
  BY <1>1, MatchingExtends
<1>2. CASE matches = <<>>
  BY <1>2, EmptySeq, LenProperties
<1>. QED BY <1>1, <1>2 DEF Answers

(* A new text is completed to a name that extends it, or stays as it is. *)
LEMMA CompleteStep ==
  ASSUME TextInv, NEW t \in Lines, NEW matches \in Answers(t), Complete(t, matches)
  PROVE  TextInv'
<1>1. /\ matches \in Seq(Names)
      /\ \A i \in DOMAIN matches : Abbreviates(t, matches[i])
  BY AnswersExtend
<1>2. Len(matches) \in Nat /\ DOMAIN matches = 1..Len(matches)
  BY <1>1, LenProperties
<1>3. typed' = t /\ errorStatus' = Null
  BY DEF Complete
<1>4. CASE /\ Len(matches) = 1
           /\ cmd' = matches[1]
           /\ status' = Null
           /\ FreeCompletions
  <2>1. cmd' \in Names /\ Abbreviates(t, cmd')
    BY <1>1, <1>2, <1>4, ElementOfSeq
  <2>2. completions' = <<>>
    BY <1>4 DEF FreeCompletions
  <2>3. TypesOK'
    BY <1>3, <2>1, <2>2, NamesAreLines, EmptySeq DEF TypesOK
  <2>. QED
    BY <1>3, <1>4, <2>1, <2>2, <2>3
    DEF TextInv, LineExtendsTyped, CompletionsShown, ErrorHidesStatus, StatusFollowsTyping,
        NoErrorIsHidden, Null, Text
<1>5. CASE /\ Len(matches) > 1
           /\ cmd' = t
           /\ status' = ListOf(matches, -1)
           /\ completions' = matches
           /\ current' = -1
  <2>1. TypesOK' /\ matches # <<>>
    BY <1>1, <1>2, <1>3, <1>5, EmptySeq DEF TypesOK
  <2>2. CompletionsShown'
    BY <1>1, <1>2, <1>3, <1>5 DEF CompletionsShown
  <2>. QED
    BY <1>3, <1>5, <2>1, <2>2
    DEF TextInv, LineExtendsTyped, ErrorHidesStatus, StatusFollowsTyping, NoErrorIsHidden,
        Null, Text, ListOf
<1>6. CASE /\ Len(matches) = 0
           /\ cmd' = t
           /\ status' = Invalid(t)
           /\ FreeCompletions
  <2>1. completions' = <<>>
    BY <1>6 DEF FreeCompletions
  <2>2. TypesOK'
    BY <1>3, <1>6, <2>1, EmptySeq DEF TypesOK
  <2>. QED
    BY <1>3, <1>6, <2>1, <2>2
    DEF TextInv, LineExtendsTyped, CompletionsShown, ErrorHidesStatus, StatusFollowsTyping,
        NoErrorIsHidden, Null, Text, Invalid
<1>. QED BY <1>4, <1>5, <1>6 DEF Complete

(* The line starts over: nothing typed, nothing to submit, no completions. *)
LEMMA ClearedLine ==
  ASSUME typed' = <<>>, cmd' = <<>>, completions' = <<>>
  PROVE  TypesOK' /\ LineExtendsTyped' /\ CompletionsShown' /\ StatusFollowsTyping'
BY EmptySeq DEF TypesOK, Lines, LineExtendsTyped, CompletionsShown, StatusFollowsTyping

LEMMA OtherKeyStep ==
  ASSUME TextInv, OtherKey
  PROVE  TextInv'
BY RestoredStatus
DEF TextInv, TypesOK, LineExtendsTyped, CompletionsShown, ErrorHidesStatus,
    StatusFollowsTyping, NoErrorIsHidden, OtherKey, line, Null, Text

LEMMA EscKeyStep ==
  ASSUME TextInv, EscKey
  PROVE  TextInv'
<1>1. typed' = <<>> /\ cmd' = <<>> /\ completions' = <<>>
  BY DEF EscKey, FreeCompletions
<1>2. ErrorHidesStatus' /\ NoErrorIsHidden'
  BY DEF EscKey, ErrorHidesStatus, NoErrorIsHidden, Null, Text
<1>. QED BY <1>1, <1>2, ClearedLine DEF TextInv

LEMMA LetterKeyStep ==
  ASSUME TextInv, NEW ch \in Chars, LetterKey(ch)
  PROVE  TextInv'
<1>1. Append(typed, ch) \in Lines
  BY AppendProperties DEF TextInv, TypesOK, Lines
<1>. QED BY <1>1, CompleteStep DEF LetterKey

LEMMA DeleteKeyStep ==
  ASSUME TextInv, DeleteKey
  PROVE  TextInv'
<1>1. typed \in Lines /\ typed # <<>>
  BY DEF TextInv, TypesOK, DeleteKey
<1>2. SubSeq(typed, 1, Len(typed) - 1) \in Lines
  <2>1. Len(typed) \in Nat /\ \A i \in 1..(Len(typed) - 1) : typed[i] \in Chars
    BY <1>1, LenProperties, ElementOfSeq DEF Lines
  <2>. QED BY <2>1, SubSeqProperties DEF Lines
<1>. QED BY <1>2, CompleteStep DEF DeleteKey

(* The first Tab completes what Enter would submit, which may already extend what was typed. *)
LEMMA FirstTabKeyStep ==
  ASSUME TextInv, FirstTabKey
  PROVE  TextInv'
<1>1. PICK matches \in Answers(cmd) :
        /\ completions' = matches
        /\ status' = IF matches # <<>> THEN ListOf(matches, -1) ELSE Restored
  BY DEF FirstTabKey
<1>2. /\ completions = <<>> /\ current' = -1 /\ errorStatus' = Null
      /\ typed' = typed /\ cmd' = cmd
  BY DEF FirstTabKey
<1>3. typed \in Lines /\ cmd \in Lines
  BY DEF TextInv, TypesOK
<1>4. matches \in Seq(Names) /\ \A i \in DOMAIN matches : Abbreviates(cmd, matches[i])
  BY <1>3, AnswersExtend
<1>5. Len(matches) \in Nat /\ DOMAIN matches = 1..Len(matches)
  BY <1>4, LenProperties
<1>6. \A i \in DOMAIN matches : Abbreviates(typed, matches[i])
  <2> SUFFICES ASSUME NEW i \in DOMAIN matches PROVE Abbreviates(typed, matches[i])
    OBVIOUS
  <2>1. matches[i] \in Lines
    BY <1>4, <1>5, ElementOfSeq, NamesAreLines
  <2>2. Abbreviates(typed, cmd)
    BY <1>3, AbbreviatesItself DEF TextInv, LineExtendsTyped
  <2>. QED BY <1>3, <1>4, <2>1, <2>2, AbbreviatesTransitively
<1>7. TypesOK'
  BY <1>1, <1>2, <1>4 DEF TextInv, TypesOK
<1>8. CompletionsShown'
  BY <1>1, <1>2, <1>5, <1>6 DEF CompletionsShown
<1>9. LineExtendsTyped'
  BY <1>2 DEF TextInv, LineExtendsTyped
<1>10. status'.kind # "error"
  BY <1>1, RestoredStatus DEF ListOf
<1>11. ErrorHidesStatus' /\ NoErrorIsHidden'
  BY <1>2, <1>10 DEF ErrorHidesStatus, NoErrorIsHidden, Null, Text
<1>12. StatusFollowsTyping'
  BY <1>1, <1>2, RestoredStatus DEF TextInv, StatusFollowsTyping, Invalid
<1>. QED BY <1>7, <1>8, <1>9, <1>11, <1>12 DEF TextInv

(* The next ones select one of them after the other. *)
LEMMA NextTabKeyStep ==
  ASSUME TextInv, NextTabKey
  PROVE  TextInv'
<1>1. /\ completions # <<>> /\ completions \in Seq(Names) /\ typed \in Lines
      /\ \A i \in DOMAIN completions : Abbreviates(typed, completions[i])
      /\ current \in -1 .. Len(completions) - 1
  BY DEF NextTabKey, TextInv, TypesOK, CompletionsShown
<1>2. /\ typed' = typed /\ completions' = completions /\ errorStatus' = Null
      /\ cmd' = completions[current' + 1]
      /\ status' = ListOf(completions, current')
      /\ current' = (current + 1) % Len(completions)
  BY DEF NextTabKey
<1>3. Len(completions) \in Nat /\ Len(completions) > 0 /\ DOMAIN completions = 1..Len(completions)
  BY <1>1, EmptySeq, LenProperties
<1>4. current' \in 0 .. Len(completions) - 1
  BY <1>1, <1>2, <1>3
<1>5. cmd' \in Names /\ Abbreviates(typed, cmd')
  BY <1>1, <1>2, <1>3, <1>4, ElementOfSeq
<1>6. TypesOK'
  BY <1>1, <1>2, <1>5, NamesAreLines DEF TypesOK
<1>7. CompletionsShown'
  BY <1>1, <1>2, <1>4 DEF CompletionsShown
<1>. QED
  BY <1>1, <1>2, <1>5, <1>6, <1>7
  DEF TextInv, LineExtendsTyped, ErrorHidesStatus, StatusFollowsTyping, NoErrorIsHidden,
      Null, Text, ListOf

LEMMA EnterKeyStep ==
  ASSUME TextInv, EnterKey
  PROVE  TextInv'
<1>1. typed' = <<>> /\ cmd' = <<>> /\ completions' = <<>>
  BY DEF EnterKey, FreeCompletions
<1>2. ErrorHidesStatus' /\ NoErrorIsHidden'
  BY RestoredStatus DEF EnterKey, ErrorHidesStatus, NoErrorIsHidden, Null, Text
<1>. QED BY <1>1, <1>2, ClearedLine DEF TextInv

(* An error is shown over the status that it hides, which is no error. *)
LEMMA EnterUnknownStep ==
  ASSUME TextInv, EnterUnknown
  PROVE  TextInv'
<1>1. typed' = <<>> /\ cmd' = <<>> /\ completions' = <<>>
  BY DEF EnterUnknown, FreeCompletions
<1>2. ErrorHidesStatus' /\ NoErrorIsHidden'
  BY <1>1, RestoredStatus DEF EnterUnknown, ErrorHidesStatus, NoErrorIsHidden, Error, Text
<1>. QED BY <1>1, <1>2, ClearedLine DEF TextInv

(* Outside the keys the texts stay as they are. *)
LEMMA TextKept ==
  ASSUME TextInv, UNCHANGED <<line, status, errorStatus>>
  PROVE  TextInv'
BY DEF TextInv, TypesOK, LineExtendsTyped, CompletionsShown, ErrorHidesStatus,
       StatusFollowsTyping, NoErrorIsHidden, line

LEMMA ConsoleStep == TextInv /\ Next => TextInv'
<1> SUFFICES ASSUME TextInv, Next PROVE TextInv'
  OBVIOUS
<1>1. CASE OpenRefused
  BY <1>1, TextKept DEF OpenRefused
<1>2. CASE OpenWithoutWindows
  BY <1>2, TextKept DEF OpenWithoutWindows
<1>3. CASE Open
  BY <1>3, TextKept DEF Open
<1>4. CASE Key
  BY <1>4, OtherKeyStep, EscKeyStep, DeleteKeyStep, FirstTabKeyStep, NextTabKeyStep,
     EnterKeyStep, EnterUnknownStep, LetterKeyStep DEF Key, Chars
<1>5. CASE Close
  BY <1>5, TextKept DEF Close
<1>. QED BY <1>1, <1>2, <1>3, <1>4, <1>5 DEF Next

-----------------------------------------------------------------------------
(* The steps of the session                                                *)

LEMMA CallsStep ==
  ASSUME TerminalInv, NEW why \in Reasons, Calls(why)
  PROVE  /\ frames' \in Seq(Frame)
         /\ frames' # <<>> /\ outcome' = outcome
<1>1. [why |-> why, at |-> "report"] \in Frame
  BY DEF Frame, Steps
<1>2. frames \in Seq(Frame)
  BY DEF TerminalInv
<1>. QED BY <1>1, <1>2, AppendProperties DEF Calls

(* What a fault leaves behind: a handler to run, or a process that was killed *)
LEMMA FaultStep ==
  ASSUME TerminalInv, NEW sig \in Signals, NEW inMalloc \in BOOLEAN, Fault(sig, inMalloc)
  PROVE  /\ frames' \in Seq(Frame)
         /\ \/ frames' # <<>> /\ outcome' = outcome
            \/ outcome' = "killed"
BY CallsStep DEF TerminalInv, Fault, Ends, Reasons

(* A handler goes on from its own frame, and it alone can wait for malloc. *)
LEMMA PanicSteps ==
  ASSUME TerminalInv, PanicStep
  PROVE  /\ frames' \in Seq(Frame)
         /\ frames' # <<>>
         /\ outcome' \in {"running", "failure", "hung"}
<1>1. frames \in Seq(Frame) /\ frames # <<>> /\ outcome = "running"
  BY DEF TerminalInv, PanicStep, Report, WaitsForMalloc, GotSymbols, NoSymbols, PrintTrace, Exit, At
<1>2. Len(frames) \in 1..Len(frames)
  BY <1>1, EmptySeq
<1>3. ASSUME NEW step \in Steps, GoesTo(step)
      PROVE  frames' \in Seq(Frame) /\ frames' # <<>> /\ outcome' = "running"
  <2> DEFINE last == [frames[Len(frames)] EXCEPT !.at = step]
  <2>1. last \in Frame
    <3>1. frames[Len(frames)] \in Frame
      BY <1>1, <1>2, ElementOfSeq
    <3>. QED BY <3>1 DEF Frame
  <2>2. frames' = [frames EXCEPT ![Len(frames)] = last]
    BY <1>3 DEF GoesTo
  <2> HIDE DEF last
  <2>3. frames' \in Seq(Frame) /\ Len(frames') = Len(frames)
    BY <1>1, <1>2, <2>1, <2>2, ExceptSeq
  <2>4. frames' # <<>>
    BY <1>2, <2>3, EmptySeq
  <2>. QED BY <1>1, <1>3, <2>3, <2>4 DEF GoesTo
<1>4. ASSUME NEW how \in {"failure", "hung"}, Ends(how)
      PROVE  frames' = frames /\ outcome' \in {"failure", "hung"}
  BY <1>4 DEF Ends
<1>5. CASE Report \/ GotSymbols \/ NoSymbols \/ PrintTrace
  <2>1. PICK step \in Steps : GoesTo(step)
    BY <1>5 DEF Steps, Report, GotSymbols, NoSymbols, PrintTrace
  <2>. QED BY <1>3, <2>1
<1>6. CASE WaitsForMalloc \/ Exit
  BY <1>1, <1>4, <1>6 DEF WaitsForMalloc, Exit
<1>. QED BY <1>5, <1>6 DEF PanicStep

(* The console takes curses mode when it opens and gives it back when it closes, and it closes *)
(* every time but when its last window, cmd, could not be made.                                 *)
LEMMA ConsoleKeepsTerminal ==
  ASSUME Next, phase = "start" => ~curses, phase = "returned" /\ curses => "cmd" \notin windows
  PROVE  /\ (phase = "start" => ~curses)'
         /\ (phase = "returned" /\ curses => "cmd" \notin windows)'
<1>1. CASE OpenWithoutWindows
  BY <1>1 DEF OpenWithoutWindows, FirstWindows, Windows
<1>2. CASE OpenRefused \/ Open \/ Close
  BY <1>2 DEF OpenRefused, Open, Close
<1>3. ASSUME Key PROVE UNCHANGED <<phase, curses, windows>>
  BY <1>3 DEF Key, OtherKey, EscKey, DeleteKey, FirstTabKey, NextTabKey, EnterKey, EnterUnknown,
              LetterKey
<1>. QED BY <1>1, <1>2, <1>3 DEF Next

LEMMA SessionInitially == SessionInit => TextInv /\ TerminalInv
<1>1. SessionInit => TerminalInv
  BY EmptySeq DEF SessionInit, Init, PanicInit, TerminalInv, TerminalIsGivenBack
<1>. QED BY <1>1, TextInitially DEF SessionInit

LEMMA TextStep == TextInv /\ [SessionNext]_sessionVars => TextInv'
<1> SUFFICES ASSUME TextInv, [SessionNext]_sessionVars PROVE TextInv'
  OBVIOUS
<1>1. CASE RunConsole
  BY <1>1, ConsoleStep DEF RunConsole
<1>2. ASSUME SessionNext, ~RunConsole PROVE UNCHANGED <<line, status, errorStatus>>
  BY <1>2 DEF SessionNext, PtklInit, BuildCommands, CannotBuildCommands, ConsoleCrashes,
              EnterUnknownCrashes, MainReturns, Signalled, Interrupt, Handle, vars, line
<1>3. CASE UNCHANGED sessionVars
  BY <1>3, TextKept DEF sessionVars, vars, line
<1>. QED BY <1>1, <1>2, <1>3, TextKept

LEMMA TerminalStep == TerminalInv /\ [SessionNext]_sessionVars => TerminalInv'
<1> SUFFICES ASSUME TerminalInv, [SessionNext]_sessionVars PROVE TerminalInv'
  OBVIOUS
<1>1. CASE PtklInit \/ BuildCommands
  BY <1>1 DEF PtklInit, BuildCommands, Undisturbed, RegisterSignalPanicHandlers, panicVars, vars,
              TerminalInv, TerminalIsGivenBack
<1>2. CASE CannotBuildCommands
  BY <1>2, CallsStep
  DEF Reasons, CannotBuildCommands, Undisturbed, PanicCalled, vars, TerminalInv, TerminalIsGivenBack
<1>3. CASE RunConsole
  BY <1>3, ConsoleKeepsTerminal
  DEF RunConsole, Undisturbed, panicVars, TerminalInv, TerminalIsGivenBack
<1>4. CASE ConsoleCrashes
  BY <1>4, FaultStep, SegvAssumption
  DEF ConsoleCrashes, EnterUnknownCrashes, Undisturbed, TerminalInv, TerminalIsGivenBack
<1>5. CASE MainReturns
  BY <1>5 DEF MainReturns, Undisturbed, Ends, vars, TerminalInv, TerminalIsGivenBack
<1>6. CASE Signalled
  BY <1>6, FaultStep DEF Signalled, Undisturbed, vars, TerminalInv, TerminalIsGivenBack
<1>7. CASE Interrupt
  BY <1>7 DEF Interrupt, Ends, TerminalInv, TerminalIsGivenBack
<1>8. CASE PanicStep /\ UNCHANGED <<vars, main>>
  BY <1>8, PanicSteps DEF vars, TerminalInv, TerminalIsGivenBack
<1>9. CASE FaultInside /\ UNCHANGED <<vars, main>>
  <2>1. PICK sig \in Signals : Fault(sig, Last(frames).at = "symbols")
    BY <1>9 DEF FaultInside
  <2>2. (Last(frames).at = "symbols") \in BOOLEAN
    OBVIOUS
  <2>. QED BY <1>9, <2>1, <2>2, FaultStep DEF FaultInside, vars, TerminalInv, TerminalIsGivenBack
<1>10. CASE UNCHANGED sessionVars
  BY <1>10 DEF sessionVars, vars, panicVars, TerminalInv, TerminalIsGivenBack
<1>. QED
  BY <1>1, <1>2, <1>3, <1>4, <1>5, <1>6, <1>7, <1>8, <1>9, <1>10 DEF SessionNext, Handle

LEMMA SessionInvariant == SessionSpec => [](TextInv /\ TerminalInv)
BY SessionInitially, TextStep, TerminalStep, PTL DEF SessionSpec

-----------------------------------------------------------------------------
(* Theorems                                                                *)

(* The line Enter would submit is what was typed or a command that extends it. *)
THEOREM LineAlwaysExtendsTyped == SessionSpec => []LineExtendsTyped
<1>1. TextInv => LineExtendsTyped
  BY DEF TextInv
<1>. QED BY <1>1, SessionInvariant, PTL

(* While completions are held, line, selection and status bar agree with them. *)
THEOREM CompletionsAlwaysShown == SessionSpec => []CompletionsShown
<1>1. TextInv => CompletionsShown
  BY DEF TextInv
<1>. QED BY <1>1, SessionInvariant, PTL

(* Errors never stack: an error on display hides a status that is none. *)
THEOREM ErrorAlwaysHidesStatus == SessionSpec => [](ErrorHidesStatus /\ NoErrorIsHidden)
<1>1. TextInv => ErrorHidesStatus /\ NoErrorIsHidden
  BY DEF TextInv
<1>. QED BY <1>1, SessionInvariant, PTL

(* While something is typed, the status bar speaks of it. *)
THEOREM StatusAlwaysFollowsTyping == SessionSpec => []StatusFollowsTyping
<1>1. TextInv => StatusFollowsTyping
  BY DEF TextInv
<1>. QED BY <1>1, SessionInvariant, PTL

(* Curses mode outlives the process only on the ways that are named. *)
THEOREM TerminalAlwaysGivenBack == SessionSpec => []TerminalIsGivenBack
<1>1. TerminalInv => TerminalIsGivenBack
  BY DEF TerminalInv
<1>. QED BY <1>1, SessionInvariant, PTL

(* Enter runs a command the typed letters abbreviate, and the only one if there is only one: *)
(* what Tab filled in extends what was typed, and a name in full stands for itself.           *)
THEOREM EnterAlwaysRunsWhatWasTyped == SessionSpec => EnterRunsWhatWasTyped
<1>1. ASSUME TextInv, EnterKey \/ EnterUnknown
      PROVE  /\ ran' # <<>> => Abbreviates(typed, ran')
             /\ MatchCommand(typed) # <<>> => ran' = MatchCommand(typed)
  <2>1. typed \in Lines /\ cmd \in Lines /\ ran' = MatchCommand(cmd)
    BY <1>1 DEF TextInv, TypesOK, EnterKey, EnterUnknown
  <2>2. CASE cmd = typed
    BY <2>1, <2>2, MatchIsUnique
  <2>3. CASE cmd \in Names /\ Abbreviates(typed, cmd)
    BY <2>1, <2>3, MatchIsUnique, NameMatchesItself
  <2>. QED BY <1>1, <2>2, <2>3 DEF TextInv, LineExtendsTyped
<1>2. TextInv => [EnterKey \/ EnterUnknown =>
                   /\ ran' # <<>> => Abbreviates(typed, ran')
                   /\ MatchCommand(typed) # <<>> => ran' = MatchCommand(typed)]_vars
  BY <1>1
<1>3. SessionSpec => []TextInv
  BY SessionInvariant, PTL
<1>. QED BY <1>2, <1>3, PTL DEF EnterRunsWhatWasTyped
=============================================================================
