-------------------------- MODULE CommandRunProofs --------------------------
(***************************************************************************)
(* For every tree of commands, every set of flags and every line: a run that *)
(* fails says why, one that succeeds ran one handler if there was one, the   *)
(* callbacks come before the handler, and nothing runs after it or after a   *)
(* flag that exits.  For the lines CommandRun calls plain: the handler got    *)
(* the words of the line that follow those that name it.                     *)
(***************************************************************************)
EXTENDS CommandRun, DataProofs

IsSeq(s) == \E S : s \in Seq(S)
CalledIn(s, c, f) == \E j \in DOMAIN s : s[j] = <<c, f>>
Over == pc \in {"done", "exited"}

TypeInv ==
  /\ path \in Seq(CommandNames) /\ path # <<>>
  /\ DOMAIN errors = CommandNames /\ \A c \in CommandNames : IsSeq(errors[c])
  /\ DOMAIN pending = CommandNames /\ \A c \in CommandNames : IsSeq(pending[c])
  /\ IsSeq(printed) /\ IsSeq(ran) /\ IsSeq(called)

(* Until a run is over only the innermost command has errors, and nothing is printed.  Then the  *)
(* commands whose command_run is still active have them, and one that failed or what it printed   *)
(* tells why; a subcommand keeps its own only if a flag of it that exits left them there.         *)
ErrorInv ==
  /\ ~Over => printed = <<>> /\ \A c \in CommandNames : c # cmd => errors[c] = <<>>
  /\ pc \in {"parse", "decide", "handler"} => errors[cmd] = <<>>
  /\ \A c \in CommandNames : errors[c] # <<>> => c \in Range(path) \/ (Over /\ ok)
  /\ Over /\ ~ok => errors[cmd] # <<>> \/ printed # <<>>
  /\ Over /\ ok /\ ~ExitFlagCalled => printed = <<>> /\ \A c \in CommandNames : errors[c] = <<>>
  /\ pc = "exited" => Len(path) = 1 /\ errors[cmd] = <<>>

(* The callbacks before next were called, and so were all of them before the handler is. *)
RunInv ==
  /\ ran # <<>> => pc = "handled" \/ Over
  /\ Len(ran) <= 1
  /\ ExitFlagCalled => Over
  /\ pc \in {"parse", "decide"} => next = 1
  /\ pc = "callbacks" =>
       /\ next \in Nat \ {0}
       /\ \A i \in DOMAIN pending[cmd] :
            i < next /\ Flag(cmd, pending[cmd][i]).callback =>
              CalledIn(called, cmd, pending[cmd][i])
  /\ pc = "handler" =>
       \A i \in DOMAIN pending[cmd] :
         Flag(cmd, pending[cmd][i]).callback => CalledIn(called, cmd, pending[cmd][i])

IInv == TypeInv /\ ErrorInv /\ RunInv

LEMMA EmptyIsSeq == IsSeq(<<>>)
BY DEF IsSeq

LEMMA SeqFacts ==
  ASSUME NEW s, IsSeq(s)
  PROVE  /\ Len(s) \in Nat /\ DOMAIN s = 1..Len(s)
         /\ s = <<>> <=> Len(s) = 0
<1>1. PICK S : s \in Seq(S)
  BY DEF IsSeq
<1>. QED BY <1>1, LenProperties, EmptySeq

LEMMA AppendFacts ==
  ASSUME NEW s, IsSeq(s), NEW e
  PROVE  /\ IsSeq(Append(s, e)) /\ Append(s, e) # <<>> /\ Len(Append(s, e)) = Len(s) + 1
         /\ DOMAIN Append(s, e) = 1..(Len(s) + 1)
         /\ Append(s, e)[Len(s) + 1] = e
         /\ \A i \in DOMAIN s : Append(s, e)[i] = s[i]
<1>1. PICK S : s \in Seq(S)
  BY DEF IsSeq
<1> DEFINE T == S \cup {e}
<1>2. s \in Seq(T) /\ e \in T
  BY <1>1
<1> HIDE DEF T
<1>3. /\ Append(s, e) \in Seq(T) /\ Len(Append(s, e)) = Len(s) + 1
      /\ Append(s, e)[Len(s) + 1] = e /\ \A i \in 1..Len(s) : Append(s, e)[i] = s[i]
  BY <1>2, AppendProperties
<1>4. Len(s) \in Nat /\ DOMAIN s = 1..Len(s) /\ DOMAIN Append(s, e) = 1..(Len(s) + 1)
  BY <1>2, <1>3, LenProperties
<1>5. Append(s, e) # <<>>
  BY <1>3, <1>4, EmptySeq
<1>. QED BY <1>3, <1>4, <1>5 DEF IsSeq

LEMMA ConcatFacts ==
  ASSUME NEW s, NEW t, IsSeq(s), IsSeq(t)
  PROVE  IsSeq(s \o t) /\ (s \o t = <<>> <=> s = <<>> /\ t = <<>>)
<1>1. PICK S : s \in Seq(S)
  BY DEF IsSeq
<1>2. PICK T : t \in Seq(T)
  BY DEF IsSeq
<1> DEFINE U == S \cup T
<1>3. s \in Seq(U) /\ t \in Seq(U)
  BY <1>1, <1>2
<1> HIDE DEF U
<1>4. s \o t \in Seq(U) /\ Len(s \o t) = Len(s) + Len(t)
  BY <1>3, ConcatProperties
<1>5. Len(s) \in Nat /\ Len(t) \in Nat
  BY <1>3, LenProperties
<1>6. (s \o t = <<>> <=> Len(s \o t) = 0) /\ (s = <<>> <=> Len(s) = 0) /\ (t = <<>> <=> Len(t) = 0)
  BY <1>3, <1>4, EmptySeq
<1>. QED BY <1>4, <1>5, <1>6 DEF IsSeq

(* The innermost command, and what is left of the path without it *)
LEMMA PathFacts ==
  ASSUME path \in Seq(CommandNames), path # <<>>
  PROVE  /\ cmd \in CommandNames /\ cmd \in Range(path) /\ Len(path) \in Nat \ {0}
         /\ Front(path) \in Seq(CommandNames) /\ Len(Front(path)) = Len(path) - 1
         /\ Range(path) \subseteq Range(Front(path)) \cup {cmd}
<1>1. Len(path) \in Nat \ {0} /\ DOMAIN path = 1..Len(path)
  BY EmptySeq, LenProperties
<1>2. cmd = path[Len(path)] /\ cmd \in CommandNames
  BY <1>1, ElementOfSeq DEF cmd, Last
<1>3. \A k \in 1..(Len(path) - 1) : path[k] \in CommandNames
  BY <1>1, ElementOfSeq
<1>4. /\ Front(path) \in Seq(CommandNames) /\ Len(Front(path)) = Len(path) - 1
      /\ \A k \in 1..(Len(path) - 1) : Front(path)[k] = path[k]
  <2>1. /\ SubSeq(path, 1, Len(path) - 1) \in Seq(CommandNames)
        /\ Len(SubSeq(path, 1, Len(path) - 1)) =
             IF 1 <= Len(path) - 1 THEN Len(path) - 1 - 1 + 1 ELSE 0
        /\ \A k \in 1..(Len(path) - 1 - 1 + 1) :
             SubSeq(path, 1, Len(path) - 1)[k] = path[1 + k - 1]
    BY <1>1, <1>3, SubSeqProperties
  <2>. QED BY <1>1, <2>1 DEF Front
<1>5. DOMAIN Front(path) = 1..(Len(path) - 1)
  BY <1>4, LenProperties
<1>6. \A k \in 1..Len(path) : k = Len(path) \/ k \in 1..(Len(path) - 1)
  <2> DEFINE n == Len(path)
  <2>1. n \in Nat
    BY <1>1
  <2> HIDE DEF n
  <2>2. \A k \in 1..n : k = n \/ k \in 1..(n - 1)
    BY <2>1
  <2>. QED BY <2>2 DEF n
<1>7. \A k \in DOMAIN path : path[k] \in Range(Front(path)) \cup {cmd}
  <2> DEFINE f == Front(path)
  <2>1. \A k \in DOMAIN f : f[k] \in Range(f)
    BY DEF Range
  <2>2. DOMAIN f = 1..(Len(path) - 1) /\ \A k \in 1..(Len(path) - 1) : f[k] = path[k]
    BY <1>4, <1>5
  <2> HIDE DEF f
  <2>3. \A k \in 1..(Len(path) - 1) : path[k] \in Range(f)
    BY <2>1, <2>2
  <2>4. path[Len(path)] = cmd
    BY <1>2
  <2>5. ASSUME NEW k \in 1..Len(path)
        PROVE  path[k] \in Range(f) \cup {cmd}
    <3>1. CASE k = Len(path)
      BY <2>4, <3>1
    <3>2. CASE k \in 1..(Len(path) - 1)
      BY <2>3, <3>2
    <3>. QED BY <1>6, <3>1, <3>2
  <2>. QED BY <1>1, <2>5 DEF f
<1>8. cmd \in Range(path)
  BY <1>1, <1>2 DEF Range
<1>. QED BY <1>1, <1>2, <1>4, <1>7, <1>8 DEF Range

-----------------------------------------------------------------------------
LEMMA Initially == Init => IInv
<1> SUFFICES ASSUME Init PROVE IInv
  OBVIOUS
<1>1. path = <<Main>> /\ Main \in CommandNames
  BY TreeAssumption DEF Init
<1>2. TypeInv
  <2>1. path \in Seq(CommandNames) /\ path # <<>>
    BY <1>1
  <2>. QED BY <2>1, EmptyIsSeq DEF Init, TypeInv
<1>3. cmd \in CommandNames
  BY <1>1, <1>2, PathFacts DEF TypeInv
<1>4. ErrorInv
  BY <1>3 DEF Init, ErrorInv, Over
<1>5. ~ExitFlagCalled
  BY DEF Init, ExitFlagCalled
<1>6. RunInv
  BY <1>5 DEF Init, RunInv
<1>. QED BY <1>2, <1>4, <1>6 DEF IInv

(* One more flag that is pending, or none *)
Pends ==
  \/ pending' = pending
  \/ \E f : pending' = [pending EXCEPT ![cmd] = Append(@, f)]

LEMMA PendsKeepsTypes ==
  ASSUME TypeInv, Pends
  PROVE  DOMAIN pending' = CommandNames /\ \A c \in CommandNames : IsSeq(pending'[c])
<1>1. CASE pending' = pending
  BY <1>1 DEF TypeInv
<1>2. ASSUME NEW f, pending' = [pending EXCEPT ![cmd] = Append(@, f)]
      PROVE  DOMAIN pending' = CommandNames /\ \A c \in CommandNames : IsSeq(pending'[c])
  <2>1. \A c \in CommandNames : pending'[c] = IF c = cmd THEN Append(pending[c], f) ELSE pending[c]
    BY <1>2 DEF TypeInv
  <2>. QED BY <1>2, <2>1, AppendFacts DEF TypeInv
<1>. QED BY <1>1, <1>2 DEF Pends

(* The command goes on reading its line, or to its callbacks. *)
LEMMA ReadOn ==
  ASSUME IInv, pc \in {"parse", "decide"}, pc' \in {"parse", "decide", "callbacks"}, Pends,
         UNCHANGED <<path, next, errors, effects>>
  PROVE  IInv'
<1>1. TypeInv'
  BY PendsKeepsTypes DEF IInv, TypeInv, effects
<1>2. cmd' = cmd /\ cmd \in CommandNames
  BY PathFacts DEF cmd, IInv, TypeInv
<1>3. ExitFlagCalled' <=> ExitFlagCalled
  BY DEF ExitFlagCalled, effects
<1>4. ErrorInv'
  BY <1>2, <1>3 DEF IInv, ErrorInv, Over, effects
<1>5. \A i \in DOMAIN pending'[cmd] : ~(i < 1)
  BY <1>1, <1>2, SeqFacts DEF TypeInv
<1>6. RunInv'
  BY <1>2, <1>3, <1>5 DEF IInv, RunInv, Over, effects
<1>. QED BY <1>1, <1>4, <1>6 DEF IInv

(* goto done, with an error *)
LEMMA FailStep ==
  ASSUME IInv, pc \in {"parse", "decide"}, NEW e, Fail(e), Pends,
         UNCHANGED <<path, next, effects>>
  PROVE  IInv'
<1>1. cmd' = cmd /\ cmd \in CommandNames /\ cmd \in Range(path)
  BY PathFacts DEF cmd, IInv, TypeInv
<1>2. \A c \in CommandNames : errors'[c] = IF c = cmd THEN Append(errors[c], e) ELSE errors[c]
  BY DEF Fail, PushError, IInv, TypeInv
<1>3. errors'[cmd] # <<>> /\ \A c \in CommandNames : IsSeq(errors'[c])
  <2>1. \A c \in CommandNames : IsSeq(errors[c])
    BY DEF IInv, TypeInv
  <2>2. \A c \in CommandNames : IsSeq(Append(errors[c], e)) /\ Append(errors[c], e) # <<>>
    BY <2>1, AppendFacts
  <2>. QED BY <1>1, <1>2, <2>1, <2>2
<1>4. TypeInv'
  <2>1. DOMAIN errors' = CommandNames
    BY DEF Fail, PushError, IInv, TypeInv
  <2>. QED BY <1>3, <2>1, PendsKeepsTypes DEF IInv, TypeInv, effects
<1>5. pc' = "done" /\ ok' = FALSE
  BY DEF Fail
<1>6. ErrorInv'
  <2>1. \A c \in CommandNames : errors'[c] # <<>> => c \in Range(path')
    BY <1>1, <1>2 DEF IInv, ErrorInv, Over
  <2>. QED BY <1>1, <1>3, <1>5, <2>1 DEF ErrorInv, Over
<1>7. RunInv'
  BY <1>5 DEF IInv, RunInv, Over, effects, ExitFlagCalled
<1>. QED BY <1>4, <1>6, <1>7 DEF IInv

(* What getopt answers leads to one of the two. *)
LEMMA ReadStep ==
  ASSUME IInv, ParseShort \/ ParseLong
  PROVE  IInv'
<1>1. pc = "parse" /\ UNCHANGED <<path, next, effects>>
  BY DEF ParseShort, ParseLong
<1>2. \/ \E f : Pend(f)
      \/ \E x : Unhandled(x)
      \/ \E e : Reject(e)
  BY DEF ParseShort, ParseLong, TakeFlag, TakeLongOnly, MissingArgument
<1>3. CASE \E f : Pend(f)
  BY <1>1, <1>3, ReadOn DEF Pend, Pends
<1>4. CASE \E x : Unhandled(x)
  BY <1>1, <1>4, ReadOn DEF Unhandled, Pends
<1>5. CASE \E e : Reject(e)
  BY <1>1, <1>5, FailStep DEF Reject, Pends
<1>. QED BY <1>2, <1>3, <1>4, <1>5

LEMMA DecideStep ==
  ASSUME IInv, SkipWord \/ CollectArgs \/ NothingLeft \/ TakeArgs \/ RejectUnknownFlag \/ RejectArgs
  PROVE  IInv'
<1>1. CASE SkipWord \/ CollectArgs
  BY <1>1, ReadOn DEF SkipWord, CollectArgs, Pends
<1>2. CASE NothingLeft \/ TakeArgs
  BY <1>2, ReadOn DEF NothingLeft, TakeArgs, NoSubcommand, Keep, Pends
<1>3. CASE RejectUnknownFlag \/ RejectArgs
  BY <1>3, FailStep DEF RejectUnknownFlag, RejectArgs, NoSubcommand, Keep, Pends
<1>. QED BY <1>1, <1>2, <1>3

(* No command has an error when a subcommand starts. *)
LEMMA RunSubcommandStep ==
  ASSUME IInv, RunSubcommand
  PROVE  IInv'
<1>1. cmd \in CommandNames
  BY PathFacts DEF IInv, TypeInv
<1>2. PICK c \in CommandNames : path' = Append(path, c)
  <2>1. SubcommandsOf[cmd] \subseteq CommandNames
    BY <1>1, TreeAssumption
  <2>. QED BY <2>1 DEF RunSubcommand, Subcommand
<1>3. pc = "decide" /\ pc' = "parse" /\ next' = 1 /\ UNCHANGED <<pending, errors, effects>>
  BY DEF RunSubcommand
<1>4. path' \in Seq(CommandNames) /\ path' # <<>>
  <2>1. path' \in Seq(CommandNames) /\ Len(path') = Len(path) + 1 /\ Len(path) \in Nat
    BY <1>2, AppendProperties, LenProperties DEF IInv, TypeInv
  <2>. QED BY <2>1, EmptySeq
<1>5. TypeInv'
  BY <1>3, <1>4 DEF IInv, TypeInv, effects
<1>6. \A d \in CommandNames : errors[d] = <<>>
  BY <1>1, <1>3 DEF IInv, ErrorInv, Over
<1>7. cmd' \in CommandNames
  <2>1. cmd' = Last(path') /\ Len(path') \in 1..Len(path')
    BY <1>4, EmptySeq, LenProperties DEF cmd
  <2>. QED BY <1>4, <2>1, ElementOfSeq DEF Last
<1>8. ErrorInv'
  BY <1>3, <1>6, <1>7 DEF IInv, ErrorInv, Over, effects
<1>9. RunInv'
  BY <1>3 DEF IInv, RunInv, Over, effects, ExitFlagCalled
<1>. QED BY <1>5, <1>8, <1>9 DEF IInv

-----------------------------------------------------------------------------
(* The callbacks and the handler                                           *)

(* What the program's code may do to the errors *)
LEMMA PushFacts ==
  ASSUME TypeInv, NEW e, MayPushError(e)
  PROVE  /\ DOMAIN errors' = CommandNames /\ \A c \in CommandNames : IsSeq(errors'[c])
         /\ \A c \in CommandNames : c # cmd => errors'[c] = errors[c]
<1>1. CASE UNCHANGED errors
  BY <1>1 DEF TypeInv
<1>2. CASE PushError(cmd, e)
  <2>1. /\ DOMAIN errors' = CommandNames
        /\ \A c \in CommandNames : errors'[c] = IF c = cmd THEN Append(errors[c], e) ELSE errors[c]
    BY <1>2 DEF PushError, TypeInv
  <2>2. \A c \in CommandNames : IsSeq(Append(errors[c], e))
    BY AppendFacts DEF TypeInv
  <2>. QED BY <2>1, <2>2 DEF TypeInv
<1>. QED BY <1>1, <1>2 DEF MayPushError

LEMMA RunCallbackStep ==
  ASSUME IInv, RunCallback
  PROVE  IInv'
<1> DEFINE f == pending[cmd][next]
           n == Len(called)
<1>1. /\ pc = "callbacks" /\ Flag(cmd, f).callback /\ called' = Append(called, <<cmd, f>>)
      /\ MayPushError("callback") /\ next' = next + 1
      /\ UNCHANGED <<path, pending, printed, ran>>
      /\ IF Flag(cmd, f).exits THEN ok' = TRUE /\ pc' = "done" ELSE UNCHANGED <<ok, pc>>
  BY DEF RunCallback, Same
<1>2. cmd' = cmd /\ cmd \in CommandNames
  BY <1>1, PathFacts DEF cmd, IInv, TypeInv
<1>3. /\ n \in Nat /\ DOMAIN called = 1..n /\ IsSeq(called') /\ DOMAIN called' = 1..(n + 1)
      /\ called'[n + 1] = <<cmd, f>> /\ \A j \in 1..n : called'[j] = called[j]
  <2> DEFINE e == <<cmd, f>>
  <2>1. IsSeq(called) /\ called' = Append(called, e)
    BY <1>1 DEF IInv, TypeInv
  <2> HIDE DEF e
  <2>2. n \in Nat /\ DOMAIN called = 1..n
    BY <2>1, SeqFacts
  <2>3. /\ IsSeq(Append(called, e)) /\ DOMAIN Append(called, e) = 1..(n + 1)
        /\ Append(called, e)[n + 1] = e
        /\ \A j \in DOMAIN called : Append(called, e)[j] = called[j]
    BY <2>1, AppendFacts
  <2>. QED BY <2>1, <2>2, <2>3 DEF e
<1> HIDE DEF f, n
<1>4. \A j \in 1..(n + 1) : j = n + 1 \/ j \in 1..n
  BY <1>3
<1>5. TypeInv'
  BY <1>1, <1>3, PushFacts DEF IInv, TypeInv
<1>6. ~Over /\ ~ExitFlagCalled
  BY <1>1 DEF IInv, RunInv, Over
<1>7. ExitFlagCalled' <=> Flag(cmd, f).exits
  <2>1. \A j \in 1..n : ~Flag(called[j][1], called[j][2]).exits
    BY <1>3, <1>6 DEF ExitFlagCalled
  <2>2. called'[n + 1][1] = cmd /\ called'[n + 1][2] = f
    BY <1>3
  <2>3. n + 1 \in 1..(n + 1)
    BY <1>3
  <2>4. \A j \in 1..n : ~Flag(called'[j][1], called'[j][2]).exits
    BY <1>3, <2>1
  <2>. QED BY <1>3, <1>4, <2>2, <2>3, <2>4 DEF ExitFlagCalled, Flag
<1>8. ErrorInv'
  <2>1. \A c \in CommandNames : c # cmd => errors'[c] = <<>>
    BY <1>1, <1>6, PushFacts DEF IInv, ErrorInv
  <2>2. printed' = <<>>
    BY <1>1, <1>6 DEF IInv, ErrorInv
  <2>3. cmd \in Range(path)
    BY PathFacts DEF IInv, TypeInv
  <2>4. CASE Flag(cmd, f).exits
    BY <1>1, <1>2, <1>7, <2>1, <2>2, <2>3, <2>4 DEF ErrorInv, Over
  <2>5. CASE ~Flag(cmd, f).exits
    BY <1>1, <1>2, <1>7, <2>1, <2>2, <2>3, <2>5 DEF ErrorInv, Over
  <2>. QED BY <2>4, <2>5
<1>9. RunInv'
  <2>1. next \in Nat \ {0} /\ next' \in Nat \ {0}
    BY <1>1 DEF IInv, RunInv
  <2>2. \A c, g : CalledIn(called, c, g) => CalledIn(called', c, g)
    <3>1. \A j \in 1..n : j \in 1..(n + 1)
      BY <1>3
    <3>. QED BY <1>3, <3>1 DEF CalledIn
  <2>3. CalledIn(called', cmd, f)
    <3>1. n + 1 \in 1..(n + 1)
      BY <1>3
    <3>. QED BY <1>2, <1>3, <3>1 DEF CalledIn
  <2>4. ASSUME NEW i \in DOMAIN pending[cmd], i < next', Flag(cmd, pending[cmd][i]).callback
        PROVE  CalledIn(called', cmd, pending[cmd][i])
    <3>1. i \in Nat
      BY <1>2, SeqFacts DEF IInv, TypeInv
    <3>2. i = next \/ i < next
      BY <1>1, <2>1, <2>4, <3>1
    <3>3. CASE i < next
      BY <1>1, <2>2, <2>4, <3>3 DEF IInv, RunInv
    <3>. QED BY <2>3, <3>2, <3>3 DEF f
  <2>5. pc' = "callbacks" \/ pc' = "done"
    BY <1>1
  <2>6. ran' = <<>> /\ Len(ran') <= 1
    BY <1>1 DEF IInv, RunInv, Over
  <2>7. ExitFlagCalled' => pc' = "done"
    BY <1>1, <1>7
  <2>. QED BY <1>1, <1>2, <2>1, <2>4, <2>5, <2>6, <2>7 DEF RunInv, Over
<1>. QED BY <1>5, <1>8, <1>9 DEF IInv

LEMMA SkipCallbackStep ==
  ASSUME IInv, SkipCallback
  PROVE  IInv'
<1>1. /\ pc = "callbacks" /\ ~Flag(cmd, pending[cmd][next]).callback /\ next' = next + 1
      /\ UNCHANGED <<path, pending, printed, pc, errors, ran, called, ok>>
  BY DEF SkipCallback, Same
<1>2. cmd' = cmd /\ cmd \in CommandNames
  BY <1>1, PathFacts DEF cmd, IInv, TypeInv
<1>3. TypeInv'
  BY <1>1 DEF IInv, TypeInv
<1>4. ErrorInv'
  BY <1>1, <1>2 DEF IInv, ErrorInv, Over, ExitFlagCalled
<1>5. next \in Nat \ {0} /\ next' \in Nat \ {0}
  BY <1>1 DEF IInv, RunInv
<1>6. ASSUME NEW i \in DOMAIN pending[cmd], i < next', Flag(cmd, pending[cmd][i]).callback
      PROVE  CalledIn(called, cmd, pending[cmd][i])
  <2>1. i \in Nat
    BY <1>2, SeqFacts DEF IInv, TypeInv
  <2>2. i < next
    BY <1>1, <1>5, <1>6, <2>1
  <2>. QED BY <1>1, <1>6, <2>2 DEF IInv, RunInv
<1>7. RunInv'
  <2>1. \A i \in DOMAIN pending'[cmd'] :
          i < next' /\ Flag(cmd', pending'[cmd'][i]).callback =>
            CalledIn(called', cmd', pending'[cmd'][i])
    BY <1>1, <1>2, <1>6 DEF CalledIn
  <2>. QED BY <1>1, <1>5, <2>1 DEF IInv, RunInv, Over, ExitFlagCalled
<1>. QED BY <1>3, <1>4, <1>7 DEF IInv

LEMMA CallbacksDoneStep ==
  ASSUME IInv, CallbacksDone
  PROVE  IInv'
<1>1. /\ pc = "callbacks" /\ next > Len(pending[cmd]) /\ CheckErrors("handler")
      /\ UNCHANGED <<path, pending, printed, errors, next, ran, called>>
  BY DEF CallbacksDone, Same
<1>2. cmd' = cmd /\ cmd \in CommandNames /\ cmd \in Range(path)
  BY <1>1, PathFacts DEF cmd, IInv, TypeInv
<1>3. TypeInv'
  BY <1>1 DEF IInv, TypeInv
<1>4. ExitFlagCalled' <=> ExitFlagCalled
  BY <1>1 DEF ExitFlagCalled
<1>5. \/ pc' = "handler" /\ errors[cmd] = <<>>
      \/ pc' = "done" /\ ok' = FALSE /\ errors[cmd] # <<>>
  BY <1>1 DEF CheckErrors
<1>6. ErrorInv'
  BY <1>1, <1>2, <1>4, <1>5 DEF IInv, ErrorInv, Over
<1>7. ASSUME NEW i \in DOMAIN pending[cmd], Flag(cmd, pending[cmd][i]).callback
      PROVE  CalledIn(called, cmd, pending[cmd][i])
  <2>1. next \in Nat /\ Len(pending[cmd]) \in Nat /\ i \in 1..Len(pending[cmd])
    BY <1>1, <1>2, SeqFacts DEF IInv, TypeInv, RunInv
  <2>2. i < next
    BY <1>1, <2>1
  <2>. QED BY <1>1, <1>7, <2>2 DEF IInv, RunInv
<1>8. RunInv'
  BY <1>1, <1>2, <1>4, <1>5, <1>7 DEF IInv, RunInv, Over
<1>. QED BY <1>3, <1>6, <1>8 DEF IInv

LEMMA RunHandlerStep ==
  ASSUME IInv, RunHandler
  PROVE  IInv'
<1>1. /\ pc = "handler" /\ pc' = "handled"
      /\ UNCHANGED <<path, pending, printed, next, called, ok>>
      /\ ran' = ran \/ \E r : ran' = Append(ran, r)
      /\ UNCHANGED errors \/ MayPushError("handler")
  BY DEF RunHandler, Same
<1>2. cmd' = cmd /\ cmd \in CommandNames /\ cmd \in Range(path)
  BY <1>1, PathFacts DEF cmd, IInv, TypeInv
<1>3. ran = <<>> /\ Len(ran) = 0
  BY <1>1, SeqFacts DEF IInv, TypeInv, RunInv, Over
<1>4. IsSeq(ran') /\ Len(ran') <= 1
  <2>1. CASE ran' = ran
    BY <1>3, <2>1 DEF IInv, TypeInv
  <2>2. ASSUME NEW r, ran' = Append(ran, r) PROVE IsSeq(ran') /\ Len(ran') <= 1
    <3>1. IsSeq(ran') /\ Len(ran') = Len(ran) + 1
      BY <2>2, AppendFacts DEF IInv, TypeInv
    <3>. QED BY <1>3, <3>1
  <2>. QED BY <1>1, <2>1, <2>2
<1>5. /\ DOMAIN errors' = CommandNames /\ \A c \in CommandNames : IsSeq(errors'[c])
      /\ \A c \in CommandNames : c # cmd => errors'[c] = errors[c]
  BY <1>1, PushFacts DEF IInv, TypeInv
<1>6. TypeInv'
  BY <1>1, <1>4, <1>5 DEF IInv, TypeInv
<1>7. ErrorInv'
  BY <1>1, <1>2, <1>5 DEF IInv, ErrorInv, Over
<1>8. RunInv'
  BY <1>1, <1>4 DEF IInv, RunInv, Over, ExitFlagCalled
<1>. QED BY <1>6, <1>7, <1>8 DEF IInv

LEMMA HandlerDoneStep ==
  ASSUME IInv, HandlerDone
  PROVE  IInv'
<1>1. /\ pc = "handled" /\ pc' = "done"
      /\ UNCHANGED <<path, pending, printed, errors, next, ran, called>>
      /\ (errors[cmd] = <<>> /\ ok' = TRUE) \/ (errors[cmd] # <<>> /\ ok' = FALSE)
  BY DEF HandlerDone, Same
<1>2. cmd' = cmd /\ cmd \in CommandNames /\ cmd \in Range(path)
  BY <1>1, PathFacts DEF cmd, IInv, TypeInv
<1>3. TypeInv'
  BY <1>1 DEF IInv, TypeInv
<1>4. ErrorInv'
  BY <1>1, <1>2 DEF IInv, ErrorInv, Over
<1>5. RunInv'
  BY <1>1 DEF IInv, RunInv, Over
<1>. QED BY <1>3, <1>4, <1>5 DEF IInv

-----------------------------------------------------------------------------
(* The way back to main                                                    *)

(* What is printed is empty only if there was nothing to print. *)
LEMMA PrintFacts ==
  ASSUME TypeInv, NEW c \in CommandNames, PrintErrors(c)
  PROVE  /\ DOMAIN errors' = CommandNames /\ errors'[c] = <<>>
         /\ \A d \in CommandNames : d # c => errors'[d] = errors[d]
         /\ \A d \in CommandNames : IsSeq(errors'[d])
         /\ IsSeq(printed') /\ (printed' = <<>> <=> printed = <<>> /\ errors[c] = <<>>)
<1>1. /\ DOMAIN errors' = CommandNames
      /\ \A d \in CommandNames : errors'[d] = IF d = c THEN <<>> ELSE errors[d]
  BY DEF PrintErrors, TypeInv
<1>2. IsSeq(Printed(c)) /\ (Printed(c) = <<>> <=> errors[c] = <<>>)
  <2> DEFINE n == Len(errors[c])
             p(i) == <<c, errors[c][n + 1 - i]>>
             S == {p(i) : i \in 1..n}
  <2>1. n \in Nat /\ DOMAIN errors[c] = 1..n /\ (errors[c] = <<>> <=> n = 0)
    BY SeqFacts DEF TypeInv
  <2>2. Printed(c) = [i \in 1..n |-> p(i)]
    BY <2>1 DEF Printed
  <2>3. \A i \in 1..n : p(i) \in S
    OBVIOUS
  <2> HIDE DEF S, p, n
  <2>4. Printed(c) \in [1..n -> S]
    BY <2>2, <2>3
  <2>5. Printed(c) \in Seq(S) /\ Len(Printed(c)) = n
    BY <2>1, <2>4
  <2>. QED BY <2>1, <2>5, EmptySeq DEF IsSeq
<1>3. IsSeq(printed') /\ (printed' = <<>> <=> printed = <<>> /\ Printed(c) = <<>>)
  BY <1>2, ConcatFacts DEF PrintErrors, TypeInv
<1>. QED BY <1>1, <1>2, <1>3, EmptyIsSeq DEF TypeInv

(* A subcommand that failed has its errors printed, and its parent is over as it was. *)
LEMMA ReturnStep ==
  ASSUME IInv, Return
  PROVE  IInv'
<1>1. /\ pc = "done" /\ pc' = "done" /\ Len(path) > 1 /\ path' = Front(path)
      /\ IF ok THEN UNCHANGED <<errors, printed>> ELSE PrintErrors(cmd)
      /\ UNCHANGED <<pending, next, ran, called, ok>>
  BY DEF Return
<1>2. /\ cmd \in CommandNames /\ path' \in Seq(CommandNames) /\ path' # <<>>
      /\ Range(path) \subseteq Range(path') \cup {cmd}
  <2>1. /\ cmd \in CommandNames /\ Len(path) \in Nat /\ path' \in Seq(CommandNames)
        /\ Len(path') = Len(path) - 1 /\ Range(path) \subseteq Range(path') \cup {cmd}
    BY <1>1, PathFacts DEF IInv, TypeInv
  <2> DEFINE n == Len(path)
  <2>2. n \in Nat /\ n > 1 /\ Len(path') = n - 1
    BY <1>1, <2>1
  <2> HIDE DEF n
  <2>3. Len(path') # 0
    BY <2>2
  <2>. QED BY <2>1, <2>3, EmptySeq
<1>3. ExitFlagCalled' <=> ExitFlagCalled
  BY <1>1 DEF ExitFlagCalled
<1>4. RunInv'
  BY <1>1, <1>3 DEF IInv, RunInv, Over
<1>5. CASE ok
  <2>1. TypeInv'
    BY <1>1, <1>2, <1>5 DEF IInv, TypeInv
  <2>2. ErrorInv'
    BY <1>1, <1>3, <1>5 DEF IInv, ErrorInv, Over
  <2>. QED BY <1>4, <2>1, <2>2 DEF IInv
<1>6. CASE ~ok
  <2>1. PrintErrors(cmd)
    BY <1>1, <1>6
  <2>2. TypeInv'
    BY <1>1, <1>2, <2>1, PrintFacts DEF IInv, TypeInv
  <2>3. printed' # <<>>
    BY <1>1, <1>2, <1>6, <2>1, PrintFacts DEF IInv, ErrorInv, Over
  <2>4. ASSUME NEW c \in CommandNames, errors'[c] # <<>>
        PROVE  c \in Range(path')
    <3>1. c # cmd /\ errors[c] # <<>>
      BY <1>2, <2>1, <2>4, PrintFacts DEF IInv
    <3>2. c \in Range(path)
      BY <1>6, <3>1 DEF IInv, ErrorInv
    <3>. QED BY <1>2, <3>1, <3>2
  <2>5. ErrorInv'
    BY <1>1, <1>6, <2>3, <2>4 DEF ErrorInv, Over
  <2>. QED BY <1>4, <2>2, <2>5 DEF IInv
<1>. QED BY <1>5, <1>6

LEMMA ExitStep ==
  ASSUME IInv, Exit
  PROVE  IInv'
<1>1. /\ pc = "done" /\ pc' = "exited" /\ Len(path) = 1 /\ PrintErrors(cmd)
      /\ UNCHANGED <<path, pending, next, ran, called, ok>>
  BY DEF Exit
<1>2. cmd \in CommandNames /\ cmd' = cmd /\ cmd \in Range(path)
  BY <1>1, PathFacts DEF IInv, TypeInv, cmd
<1>3. ExitFlagCalled' <=> ExitFlagCalled
  BY <1>1 DEF ExitFlagCalled
<1>4. RunInv'
  BY <1>1, <1>3 DEF IInv, RunInv, Over
<1>5. /\ errors'[cmd] = <<>> /\ \A d \in CommandNames : d # cmd => errors'[d] = errors[d]
      /\ printed' = <<>> <=> printed = <<>> /\ errors[cmd] = <<>>
  BY <1>1, <1>2, PrintFacts DEF IInv
<1>6. TypeInv'
  BY <1>1, <1>2, PrintFacts DEF IInv, TypeInv
<1>7. ErrorInv'
  BY <1>1, <1>2, <1>3, <1>5 DEF IInv, ErrorInv, Over
<1>. QED BY <1>4, <1>6, <1>7 DEF IInv

LEMMA Step == IInv /\ [Next]_vars => IInv'
<1> SUFFICES ASSUME IInv, [Next]_vars
             PROVE  IInv'
  OBVIOUS
<1>1. CASE ParseShort \/ ParseLong
  BY <1>1, ReadStep
<1>2. CASE SkipWord \/ CollectArgs \/ NothingLeft \/ TakeArgs \/ RejectUnknownFlag \/ RejectArgs
  BY <1>2, DecideStep
<1>3. CASE RunSubcommand
  BY <1>3, RunSubcommandStep
<1>4. CASE RunCallback
  BY <1>4, RunCallbackStep
<1>5. CASE SkipCallback
  BY <1>5, SkipCallbackStep
<1>6. CASE CallbacksDone
  BY <1>6, CallbacksDoneStep
<1>7. CASE RunHandler
  BY <1>7, RunHandlerStep
<1>8. CASE HandlerDone
  BY <1>8, HandlerDoneStep
<1>9. CASE Return
  BY <1>9, ReturnStep
<1>10. CASE Exit
  BY <1>10, ExitStep
<1>11. CASE UNCHANGED vars
  BY <1>11 DEF vars, effects, scan, IInv, TypeInv, ErrorInv, RunInv, Over, ExitFlagCalled,
     CalledIn, cmd
<1>. QED BY <1>1, <1>2, <1>3, <1>4, <1>5, <1>6, <1>7, <1>8, <1>9, <1>10, <1>11 DEF Next

LEMMA Invariance == Spec => []IInv
BY Initially, Step, PTL DEF Spec

-----------------------------------------------------------------------------
(* The words of the line                                                   *)

Elements == {line[i] : i \in DOMAIN line}
WordElements == {e \in Elements : e.kind = "word"}
(* The flags a plain line may have that main does not know: no cluster is one. *)
FlagElements ==
  {e \in Elements : e.kind \in {"short", "long"} /\ (e.kind = "short" => Len(e.text) = 1)}

(* A letter is that of a flag of main's that wants an argument. *)
Takes(letter) ==
  LET f == FindFlag(Main, letter, NoLong)
  IN f # 0 /\ Flag(Main, f).wants

(* The words that are left for a command which stands k - 1 levels below main *)
WordsFrom(k) == SubSeq(Words, k, Len(Words))

LEMMA SameLine ==
  ASSUME line' = line
  PROVE  /\ IsArgument' = IsArgument /\ Kept' = Kept /\ Words' = Words
         /\ Elements' = Elements /\ WordElements' = WordElements /\ FlagElements' = FlagElements
         /\ Selected' = Selected /\ (Plain' <=> Plain)
         /\ \A k : Named(k)' = Named(k) /\ WordsFrom(k)' = WordsFrom(k)
         /\ \A r : Due(r)' <=> Due(r)
<1>1. IsArgument' = IsArgument
  BY Zenon DEF IsArgument
<1>2. Kept' = Kept
  BY <1>1, Zenon DEF Kept
<1>3. Words' = Words
  BY <1>2 DEF Words
<1>4. \A k : Named(k)' = Named(k) /\ WordsFrom(k)' = WordsFrom(k)
  BY <1>3 DEF Named, WordsFrom
<1>5. Elements' = Elements /\ WordElements' = WordElements /\ FlagElements' = FlagElements
  BY DEF Elements, WordElements, FlagElements
<1>6. Selected' = Selected
  BY <1>3, <1>4 DEF Selected
<1>7. Plain' <=> Plain
  BY DEF Plain
<1>8. \A r : Due(r)' <=> Due(r)
  BY <1>3, <1>4 DEF Due
<1>. QED BY <1>1, <1>2, <1>3, <1>4, <1>5, <1>6, <1>7, <1>8

LEMMA LineFacts ==
  ASSUME line \in Lines
  PROVE  /\ line \in Seq(Elements) /\ Len(line) \in Nat /\ DOMAIN line = 1..Len(line)
         /\ \A i \in 1..Len(line) : line[i] \in Elements
         /\ \A e \in Elements : IsElement(e)
<1>1. line \in Seq(Elements)
  BY LinesAssumption DEF Elements
<1>2. Len(line) \in Nat /\ DOMAIN line = 1..Len(line)
  BY <1>1, LenProperties
<1>. QED BY <1>1, <1>2, LinesAssumption DEF Elements

LEMMA LeastIsOne ==
  ASSUME NEW T \in SUBSET Nat, T # {}
  PROVE  Min(T) \in T
<1>1. PICK n \in T : \A m \in T : n <= m
  BY LeastNumber
<1>. QED BY <1>1 DEF Min

(* What find_flag and getopt_long find is a flag with the name that was looked for. *)
LEMMA FoundFlag ==
  ASSUME NEW c \in CommandNames, NEW name
  PROVE  /\ \/ FindFlag(c, name, NoLong) = 0
            \/ /\ FindFlag(c, name, NoLong) \in DOMAIN FlagsOf[c]
               /\ Flag(c, FindFlag(c, name, NoLong)).short = name
         /\ \/ LongFlag(c, name) = 0
            \/ /\ LongFlag(c, name) \in DOMAIN FlagsOf[c]
               /\ Flag(c, LongFlag(c, name)).long = name
<1> DEFINE fs == FlagsOf[c]
           N == Len(fs)
           I == {i \in 1..N : fs[i].short = name \/ (NoLong # NoLong /\ fs[i].long = NoLong)}
           J == {i \in 1..N : fs[i].long = name}
<1>1. N \in Nat /\ DOMAIN fs = 1..N
  <2>1. fs \in Seq({fs[i] : i \in DOMAIN fs})
    BY TreeAssumption
  <2> HIDE DEF fs
  <2>. QED BY <2>1, LenProperties
<1>2. FindFlag(c, name, NoLong) = IF I # {} THEN Min(I) ELSE 0
  BY DEF FindFlag, SelectInSeq
<1>3. LongFlag(c, name) = IF J # {} THEN Min(J) ELSE 0
  BY DEF LongFlag, SelectInSeq
<1>4. I \in SUBSET Nat /\ J \in SUBSET Nat
  BY <1>1
<1>5. \A i \in I : i \in DOMAIN fs /\ fs[i].short = name
  BY <1>1
<1>6. \A j \in J : j \in DOMAIN fs /\ fs[j].long = name
  BY <1>1
<1> HIDE DEF I, J, fs
<1>7. (I # {} => Min(I) \in I) /\ (J # {} => Min(J) \in J)
  BY <1>4, LeastIsOne
<1>. QED BY <1>2, <1>3, <1>5, <1>6, <1>7 DEF Flag, fs

(* An element after one that takes it is an argument, unless that one is an argument itself. *)
LEMMA ArgumentIs ==
  ASSUME line \in Lines
  PROVE  \A i \in 0..Len(line) :
           IsArgument[i] <=> i > 1 /\ ~IsArgument[i - 1] /\ WantsNext(line[i - 1])
<1> DEFINE N == Len(line)
           onward(i, x) == IF i > 1 /\ ~x /\ WantsNext(line[i - 1]) THEN TRUE ELSE FALSE
           step == [i \in 1..N |-> [x \in BOOLEAN |-> onward(i, x)]]
<1>1. N \in Nat
  BY LineFacts
<1>2. step \in StepsOver(N, BOOLEAN)
  <2> HIDE DEF N
  <2>. QED BY DEF StepsOver
<1>3. PICK f : Iterates(f, FALSE, step, N, BOOLEAN)
  <2> HIDE DEF N, step
  <2>. QED BY <1>1, <1>2, Recursion
<1>4. \A i \in 1..N : f[i - 1] \in BOOLEAN /\ f[i] = onward(i, f[i - 1])
  <2>1. \A i \in 1..N : f[i - 1] \in BOOLEAN
    <3> HIDE DEF N, step
    <3>. QED BY <1>1, <1>3 DEF Iterates
  <2>2. \A i \in 1..N : f[i] = step[i][f[i - 1]]
    <3> HIDE DEF N, step
    <3>. QED BY <1>3 DEF Iterates
  <2> HIDE DEF onward, N
  <2>. QED BY <2>1, <2>2
<1>5. f = [i \in 0..N |-> i > 1 /\ ~f[i - 1] /\ WantsNext(line[i - 1])]
  <2> HIDE DEF step, N
  <2>1. f[0] = (0 > 1 /\ ~f[0 - 1] /\ WantsNext(line[0 - 1]))
    <3>1. ~(0 > 1)
      OBVIOUS
    <3>2. f[0] = FALSE
      BY <1>3, Zenon DEF Iterates
    <3>. QED BY <3>1, <3>2, Zenon
  <2>2. \A i \in 1..N : f[i] = (i > 1 /\ ~f[i - 1] /\ WantsNext(line[i - 1]))
    BY <1>4
  <2>3. \A i \in 0..N : i = 0 \/ i \in 1..N
    BY <1>1
  <2>4. \A i \in 0..N : f[i] = (i > 1 /\ ~f[i - 1] /\ WantsNext(line[i - 1]))
    BY <2>1, <2>2, <2>3
  <2>5. f \in [0..N -> BOOLEAN]
    BY <1>3 DEF Iterates
  <2>. QED BY <2>4, <2>5
<1> DEFINE argument == IsArgument
<1>6. argument = [i \in 0..N |-> i > 1 /\ ~argument[i - 1] /\ WantsNext(line[i - 1])]
  BY <1>5 DEF IsArgument
<1> HIDE DEF argument, N
<1>7. \A i \in 0..N : argument[i] = (i > 1 /\ ~argument[i - 1] /\ WantsNext(line[i - 1]))
  BY <1>6
<1>. QED BY <1>7 DEF argument, N

LEMMA WantsNextIs ==
  ASSUME NEW e
  PROVE  /\ e.kind = "short" =>
              (WantsNext(e) <=> /\ Takes(e.text[Len(e.text)])
                                /\ \A i \in 1..(Len(e.text) - 1) : ~Takes(e.text[i]))
         /\ e.kind = "long" =>
              (WantsNext(e) <=> /\ LongFlag(Main, e.text[1]) # 0
                                /\ Flag(Main, LongFlag(Main, e.text[1])).wants)
         /\ e.kind \in {"word", "end"} => ~WantsNext(e)
<1> DEFINE wants(f) == f # 0 /\ Flag(Main, f).wants
<1>1. WantsNext(e) <=>
        \/ e.kind = "long" /\ wants(LongFlag(Main, e.text[1]))
        \/ /\ e.kind = "short" /\ Takes(e.text[Len(e.text)])
           /\ \A i \in 1..(Len(e.text) - 1) : ~Takes(e.text[i])
  BY DEF WantsNext, Takes
<1>. QED BY <1>1

(* The words that are kept of the first elements *)
LEMMA KeptIs ==
  ASSUME line \in Lines
  PROVE  /\ Kept[0] = <<>>
         /\ \A i \in 0..Len(line) : Kept[i] \in Seq(WordElements)
         /\ \A i \in 1..Len(line) :
              Kept[i] = IF line[i].kind = "word" /\ ~IsArgument[i] THEN Append(Kept[i - 1], line[i])
                        ELSE Kept[i - 1]
<1> DEFINE N == Len(line)
           X == Seq(WordElements)
           onward(i, x) == IF line[i].kind = "word" /\ ~IsArgument[i] THEN Append(x, line[i]) ELSE x
           step == [i \in 1..N |-> [x \in X |-> onward(i, x)]]
<1>1. N \in Nat /\ <<>> \in X
  BY LineFacts, EmptySeq
<1>2. \A i \in 1..N : \A x \in X : onward(i, x) \in X
  <2> SUFFICES ASSUME NEW i \in 1..N, NEW x \in Seq(WordElements), line[i].kind = "word"
               PROVE  Append(x, line[i]) \in Seq(WordElements)
    OBVIOUS
  <2>1. line[i] \in WordElements
    BY LineFacts DEF WordElements
  <2>. QED BY <2>1, AppendProperties
<1>3. step \in StepsOver(N, X)
  <2> HIDE DEF N, X, onward
  <2>. QED BY <1>2 DEF StepsOver
<1>4. PICK f : Iterates(f, <<>>, step, N, X)
  <2> HIDE DEF N, X, step
  <2>. QED BY <1>1, <1>3, Recursion
<1>5. \A i \in 1..N : f[i] = onward(i, f[i - 1])
  <2>1. \A i \in 1..N : f[i - 1] \in X /\ f[i] = step[i][f[i - 1]]
    <3> HIDE DEF N, X, step
    <3>. QED BY <1>1, <1>4 DEF Iterates
  <2> HIDE DEF onward, X, N
  <2>. QED BY <2>1
<1>6. f = [i \in 0..N |->
             IF i = 0 THEN <<>>
             ELSE IF line[i].kind = "word" /\ ~IsArgument[i] THEN Append(f[i - 1], line[i])
             ELSE f[i - 1]]
  <2> HIDE DEF step, X, N
  <2>1. \A i \in 0..N : i # 0 => i \in 1..N
    BY <1>1
  <2>2. \A i \in 0..N :
          f[i] = IF i = 0 THEN <<>>
                 ELSE IF line[i].kind = "word" /\ ~IsArgument[i] THEN Append(f[i - 1], line[i])
                 ELSE f[i - 1]
    BY <1>4, <1>5, <2>1 DEF Iterates
  <2>. QED BY <1>4, <2>2 DEF Iterates
<1> DEFINE kept == Kept
<1>7. kept = [i \in 0..N |->
                IF i = 0 THEN <<>>
                ELSE IF line[i].kind = "word" /\ ~IsArgument[i] THEN Append(kept[i - 1], line[i])
                ELSE kept[i - 1]]
  BY <1>6 DEF Kept
<1> HIDE DEF kept, N, X
<1>8. \A i \in 0..N :
        kept[i] = IF i = 0 THEN <<>>
                  ELSE IF line[i].kind = "word" /\ ~IsArgument[i] THEN Append(kept[i - 1], line[i])
                  ELSE kept[i - 1]
  BY <1>7
<1>9. /\ 0 \in 0..N /\ \A i \in 1..N : i \in 0..N /\ i # 0
      /\ \A i \in 0..(N - 1) : i \in 0..N /\ i + 1 \in 1..N /\ (i + 1) - 1 = i
  BY <1>1
<1>10. kept[0] = <<>> /\ \A i \in 1..N : kept[i] = onward(i, kept[i - 1])
  BY <1>8, <1>9
<1>11. \A i \in 0..N : kept[i] \in X
  <2> DEFINE S == {i \in 0..N : kept[i] \in X}
  <2>1. 0 \in S
    BY <1>1, <1>9, <1>10
  <2>2. \A i \in 0..(N - 1) : i \in S => i + 1 \in S
    <3> HIDE DEF onward
    <3> SUFFICES ASSUME NEW i \in 0..(N - 1), kept[i] \in X PROVE i + 1 \in S
      OBVIOUS
    <3>1. kept[i + 1] = onward(i + 1, kept[i])
      BY <1>9, <1>10
    <3>2. onward(i + 1, kept[i]) \in X
      BY <1>2, <1>9
    <3>. QED BY <1>9, <3>1, <3>2
  <2>3. 0..N \subseteq S
    <3> HIDE DEF S
    <3>. QED BY <1>1, <2>1, <2>2, Counting
  <2>. QED BY <2>3
<1>. QED BY <1>10, <1>11 DEF kept, N, X

(* What is kept first stays first. *)
LEMMA KeptGrows ==
  ASSUME line \in Lines, NEW n \in 0..Len(line), Kept[n] # <<>>
  PROVE  Words # <<>> /\ Words[1] = Kept[n][1]
<1> DEFINE N == Len(line) - n
           first == Kept[n][1]
           S == {m \in 0..N : Kept[n + m] # <<>> /\ Kept[n + m][1] = first}
<1>1. Len(line) \in Nat /\ N \in Nat /\ n + 0 = n
  BY LineFacts
<1>2. 0 \in S
  <2> HIDE DEF N
  <2>. QED BY <1>1
<1>3. ASSUME NEW m \in 0..(N - 1), m \in S PROVE m + 1 \in S
  <2>1. n + m \in 0..Len(line) /\ n + (m + 1) \in 1..Len(line) /\ n + (m + 1) - 1 = n + m
        /\ m + 1 \in 0..N
    BY <1>1
  <2> DEFINE k == Kept[n + m]
             i == n + (m + 1)
  <2>2. k # <<>> /\ k[1] = first /\ k \in Seq(WordElements)
    BY <1>3, <2>1, KeptIs
  <2>3. Kept[i] = k \/ (Kept[i] = Append(k, line[i]) /\ line[i] \in WordElements)
    <3>1. i \in 1..Len(line) /\ Kept[i - 1] = k
      BY <2>1
    <3> HIDE DEF i, k
    <3>2. Kept[i] = IF line[i].kind = "word" /\ ~IsArgument[i] THEN Append(k, line[i]) ELSE k
      BY <3>1, KeptIs
    <3>3. line[i] \in Elements
      BY <3>1, LineFacts
    <3>. QED BY <3>2, <3>3 DEF WordElements
  <2> HIDE DEF k, first
  <2>4. ASSUME NEW e \in WordElements PROVE Append(k, e) # <<>> /\ Append(k, e)[1] = first
    <3>1. Len(k) \in Nat \ {0}
      BY <2>2, LenProperties, EmptySeq
    <3>2. /\ Append(k, e) \in Seq(WordElements) /\ Len(Append(k, e)) = Len(k) + 1
          /\ Append(k, e)[1] = k[1]
      BY <2>2, <3>1, AppendProperties
    <3>3. Len(k) + 1 # 0
      BY <3>1
    <3>. QED BY <2>2, <3>2, <3>3, EmptySeq
  <2>. QED BY <2>1, <2>2, <2>3, <2>4
<1>4. 0..N \subseteq S
  <2> HIDE DEF S, N
  <2>. QED BY <1>1, <1>2, <1>3, Counting
<1>5. N \in 0..N /\ n + N = Len(line)
  BY <1>1
<1>6. Kept[n + N] # <<>> /\ Kept[n + N][1] = first
  BY <1>4, <1>5
<1>. QED BY <1>5, <1>6 DEF Words

LEMMA WordsFacts ==
  ASSUME line \in Lines
  PROVE  /\ Words \in Seq(WordElements) /\ Len(Words) \in Nat /\ WordsFrom(1) = Words
         /\ \A k \in 1..Len(Words) : Words[k] = Word(Named(k))
         /\ \A k \in 1..(Len(Words) + 1) :
              /\ WordsFrom(k) \in Seq(WordElements) /\ Len(WordsFrom(k)) = Len(Words) + 1 - k
              /\ WordsFrom(k) = <<>> <=> k = Len(Words) + 1
         /\ \A k \in 1..Len(Words) :
              /\ WordsFrom(k) # <<>> /\ WordsFrom(k)[1] = Words[k]
              /\ Tail(WordsFrom(k)) = WordsFrom(k + 1)
<1>1. Words \in Seq(WordElements) /\ Len(Words) \in Nat
  <2>1. Len(line) \in 0..Len(line)
    BY LineFacts
  <2>. QED BY <2>1, KeptIs, LenProperties DEF Words
<1>2. WordsFrom(1) = Words
  BY <1>1, SubSeqFull DEF WordsFrom
<1>3. ASSUME NEW k \in 1..Len(Words) PROVE Words[k] = Word(Named(k))
  <2>1. Words[k] \in WordElements /\ k # 0
    BY <1>1, ElementOfSeq
  <2>2. Words[k] = Word(Words[k].text[1])
    BY <2>1, LineFacts DEF WordElements, IsElement
  <2>. QED BY <2>1, <2>2 DEF Named
<1>4. ASSUME NEW k \in 1..(Len(Words) + 1)
      PROVE  /\ WordsFrom(k) \in Seq(WordElements) /\ Len(WordsFrom(k)) = Len(Words) + 1 - k
             /\ WordsFrom(k) = <<>> <=> k = Len(Words) + 1
  <2>1. \A i \in k..Len(Words) : Words[i] \in WordElements
    BY <1>1, ElementOfSeq
  <2>2. /\ WordsFrom(k) \in Seq(WordElements)
        /\ Len(WordsFrom(k)) = IF k <= Len(Words) THEN Len(Words) - k + 1 ELSE 0
    BY <1>1, <2>1, SubSeqProperties DEF WordsFrom
  <2>3. Len(WordsFrom(k)) = Len(Words) + 1 - k
    BY <1>1, <2>2
  <2>4. WordsFrom(k) = <<>> <=> Len(WordsFrom(k)) = 0
    BY <2>2, EmptySeq
  <2>. QED BY <1>1, <2>2, <2>3, <2>4
<1>5. ASSUME NEW k \in 1..Len(Words)
      PROVE  /\ WordsFrom(k) # <<>> /\ WordsFrom(k)[1] = Words[k]
             /\ Tail(WordsFrom(k)) = WordsFrom(k + 1)
  <2>1. k \in 1..(Len(Words) + 1) /\ k # Len(Words) + 1 /\ Len(Words) \in k..Len(Words)
    BY <1>1
  <2>2. /\ Head(WordsFrom(k)) = Words[k] /\ Tail(WordsFrom(k)) = WordsFrom(k + 1)
    BY <1>1, <2>1, HeadTailOfSubSeq DEF WordsFrom
  <2>3. Head(WordsFrom(k)) = WordsFrom(k)[1]
    OBVIOUS
  <2>. QED BY <1>4, <2>1, <2>2, <2>3
<1>. QED BY <1>1, <1>2, <1>3, <1>4, <1>5

-----------------------------------------------------------------------------
(* Where the words are                                                     *)

(* getopt has the elements of the line from p on, which is not an argument, and main's words *)
(* before it are moved away.  It may be in a cluster there, none of whose letters took what   *)
(* is behind it.                                                                             *)
InCluster(p) ==
  /\ p <= Len(line) /\ line[p].kind = "short"
  /\ \E k \in 1..(Len(line[p].text) - 1) :
       /\ letters = SubSeq(line[p].text, k + 1, Len(line[p].text))
       /\ \A i \in 1..k : ~Takes(line[p].text[i])

At(p) ==
  /\ rest = SubSeq(line, p, Len(line)) /\ skipped = Kept[p - 1]
  /\ p <= Len(line) => ~IsArgument[p]
  /\ letters # <<>> => InCluster(p)

MainInv ==
  /\ pc = "parse" /\ Len(path) = 1 => \E p \in 1..(Len(line) + 1) : At(p)
  /\ pc = "decide" /\ Len(path) = 1 /\ args # <<>> /\ args[1].kind = "word" =>
       Words # <<>> /\ Words[1] = args[1]

(* The commands on the path are each other's subcommands, the second the one the line names. *)
WayInv ==
  ~Over =>
    /\ path[1] = Main
    /\ \A k \in 1..(Len(path) - 1) : path[k + 1] \in SubcommandsOf[path[k]]
    /\ Len(path) > 1 => path[2] \in Selected /\ cmd \in Below(path[2])

(* Why no handler may have run *)
Excused == Main \in HasHandler => \E c \in Selected : ~(Below(c) \subseteq HasHandler)

NoHandlerInv ==
  /\ pc = "handled" /\ ran = <<>> => cmd \notin HasHandler
  /\ Over /\ ok /\ ~ExitFlagCalled /\ ran = <<>> => Excused

TakenInv ==
  /\ DOMAIN taken = CommandNames
  /\ pc \in {"parse", "decide"} => \A c \in CommandNames : taken[c] = <<>>

(* On a plain line the words name the commands on the path, and the others go with it: *)
NamesInv ==
  ~Over => /\ \A k \in 1..Len(path) : Named(k - 1) = path[k]
           /\ Len(path) <= Len(Words) + 1

(* the flags nobody took are passed on as they stand, *)
FlagsInv == pc \in {"parse", "decide"} => unhandled \in Seq(FlagElements)

(* a subcommand gets the words first, and reads no element in part, *)
Parts(ws, fs) == rest = ws \o fs /\ skipped \o ws = WordsFrom(Len(path))
SubInv ==
  pc = "parse" /\ Len(path) > 1 =>
    /\ letters = <<>> /\ skipped \in Seq(WordElements)
    /\ \E ws \in Seq(WordElements), fs \in Seq(FlagElements) : Parts(ws, fs)

(* so its args are the words that are left for it, *)
ArgsInv == pc = "decide" => args = WordsFrom(Len(path))

(* and those its handler finds, unless they name a subcommand. *)
OwnWordsInv ==
  pc \in {"callbacks", "handler"} =>
    /\ taken[cmd] = WordsFrom(Len(path))
    /\ Len(path) <= Len(Words) => Named(Len(path)) \notin SubcommandsOf[cmd]

RanInv == \A i \in DOMAIN ran : Due(ran[i])

PlainInv == NamesInv /\ FlagsInv /\ SubInv /\ ArgsInv /\ OwnWordsInv /\ RanInv

WordsInv ==
  /\ line \in Lines
  /\ MainInv /\ WayInv /\ NoHandlerInv /\ TakenInv
  /\ Plain => PlainInv

LEMMA WordsInitially == Init => WordsInv
<1> SUFFICES ASSUME Init PROVE WordsInv
  OBVIOUS
<1>1. /\ line \in Lines /\ pc = "parse" /\ path = <<Main>> /\ Len(path) = 1 /\ ~Over
      /\ rest = line /\ letters = <<>> /\ skipped = <<>> /\ unhandled = <<>> /\ ran = <<>>
      /\ taken = [c \in CommandNames |-> <<>>]
  BY DEF Init, Over
<1>2. At(1)
  <2>1. rest = SubSeq(line, 1, Len(line))
    BY <1>1, LineFacts, SubSeqFull
  <2>2. Kept[1 - 1] = <<>>
    BY <1>1, KeptIs
  <2>3. 1 <= Len(line) => ~IsArgument[1]
    <3>1. Len(line) \in Nat /\ ~(1 > 1)
      BY <1>1, LineFacts
    <3>2. 1 <= Len(line) => 1 \in 0..Len(line)
      BY <3>1
    <3>. QED BY <1>1, <3>1, <3>2, ArgumentIs
  <2>. QED BY <1>1, <2>1, <2>2, <2>3 DEF At
<1>3. MainInv
  <2>1. 1 \in 1..(Len(line) + 1)
    BY <1>1, LineFacts
  <2>. QED BY <1>1, <1>2, <2>1 DEF MainInv
<1>4. WayInv
  BY <1>1 DEF WayInv
<1>5. NoHandlerInv /\ TakenInv
  BY <1>1 DEF NoHandlerInv, TakenInv, Over
<1>6. PlainInv
  <2>1. NamesInv
    <3>1. \A k \in 1..1 : Named(k - 1) = path[k]
      BY <1>1 DEF Named
    <3>2. 1 <= Len(Words) + 1
      BY <1>1, WordsFacts
    <3>. QED BY <1>1, <3>1, <3>2 DEF NamesInv
  <2>2. FlagsInv
    BY <1>1, EmptySeq DEF FlagsInv
  <2>. QED BY <1>1, <2>1, <2>2 DEF PlainInv, SubInv, ArgsInv, OwnWordsInv, RanInv
<1>. QED BY <1>1, <1>3, <1>4, <1>5, <1>6 DEF WordsInv

(* What a command that reads on, or fails, leaves alone *)
Goes == pc' \in {"parse", "decide", "callbacks"} \/ (pc' = "done" /\ ok' = FALSE)

LEMMA ReadingKeeps ==
  ASSUME IInv, WordsInv, pc \in {"parse", "decide"}, Goes, UNCHANGED <<line, path, ran, called>>
  PROVE  /\ line' \in Lines /\ WayInv' /\ NoHandlerInv' /\ (Plain' <=> Plain)
         /\ Plain => NamesInv' /\ RanInv'
<1>1. cmd' = cmd /\ ~Over
  BY DEF cmd, Over
<1>2. /\ Selected' = Selected /\ (Plain' <=> Plain) /\ Words' = Words
      /\ \A k : Named(k)' = Named(k)
      /\ \A r : Due(r)' <=> Due(r)
  BY SameLine
<1>3. WayInv'
  BY <1>1, <1>2 DEF WordsInv, WayInv
<1>4. NoHandlerInv'
  BY DEF NoHandlerInv, Over, Goes
<1>5. Plain => NamesInv' /\ RanInv'
  BY <1>1, <1>2 DEF WordsInv, PlainInv, NamesInv, RanInv
<1>. QED BY <1>2, <1>3, <1>4, <1>5 DEF WordsInv

LEMMA FailKeepsWords ==
  ASSUME IInv, WordsInv, pc \in {"parse", "decide"}, NEW e, Fail(e),
         UNCHANGED <<line, path, taken, ran, called>>
  PROVE  WordsInv'
<1>1. pc' = "done" /\ ok' = FALSE /\ Goes
  BY DEF Fail, Goes
<1>2. MainInv' /\ TakenInv'
  BY <1>1 DEF MainInv, WordsInv, TakenInv
<1>3. FlagsInv' /\ SubInv' /\ ArgsInv' /\ OwnWordsInv'
  BY <1>1 DEF FlagsInv, SubInv, ArgsInv, OwnWordsInv
<1>. QED BY <1>1, <1>2, <1>3, ReadingKeeps DEF WordsInv, PlainInv

(* The path's last command *)
LEMMA WhoReads ==
  ASSUME IInv, WordsInv, ~Over
  PROVE  /\ Len(path) \in Nat \ {0} /\ cmd \in CommandNames /\ cmd = path[Len(path)]
         /\ Len(path) = 1 \/ Len(path) > 1
         /\ Len(path) = 1 => cmd = Main
         /\ Len(path) > 1 => cmd # Main
<1>1. /\ Len(path) \in Nat \ {0} /\ cmd \in CommandNames /\ cmd = path[Len(path)]
      /\ path \in Seq(CommandNames)
  BY PathFacts DEF IInv, TypeInv, cmd, Last
<1>2. Len(path) = 1 => cmd = Main
  BY <1>1 DEF WordsInv, WayInv
<1>3. ASSUME Len(path) > 1 PROVE cmd # Main
  <2> DEFINE k == Len(path) - 1
  <2>1. k \in 1..(Len(path) - 1) /\ k \in 1..Len(path) /\ k + 1 = Len(path)
    BY <1>1, <1>3
  <2> HIDE DEF k
  <2>2. path[k + 1] \in SubcommandsOf[path[k]]
    BY <2>1 DEF WordsInv, WayInv
  <2>3. path[k] \in CommandNames
    BY <1>1, <2>1, ElementOfSeq
  <2>. QED BY <1>1, <2>1, <2>2, <2>3, TreeAssumption
<1>4. Len(path) = 1 \/ Len(path) > 1
  <2> DEFINE n == Len(path)
  <2>1. n \in Nat \ {0}
    BY <1>1
  <2> HIDE DEF n
  <2>2. n = 1 \/ n > 1
    BY <2>1
  <2>. QED BY <2>2 DEF n
<1>. QED BY <1>1, <1>2, <1>3, <1>4

-----------------------------------------------------------------------------
(* Main reads its line                                                     *)

LEMMA Position ==
  ASSUME line \in Lines, NEW p \in 1..(Len(line) + 1), rest = SubSeq(line, p, Len(line))
  PROVE  /\ rest \in Seq(Elements) /\ Len(rest) = Len(line) + 1 - p /\ Len(rest) \in Nat
         /\ rest = <<>> <=> p = Len(line) + 1
         /\ rest # <<>> =>
              /\ p \in 1..Len(line) /\ Head(rest) = line[p] /\ line[p] \in Elements
              /\ Tail(rest) = SubSeq(line, p + 1, Len(line))
         /\ \A k \in 1..Len(rest) :
              SubSeq(rest, k + 1, Len(rest)) = SubSeq(line, p + k, Len(line))
<1> DEFINE n == Len(line)
<1>1. line \in Seq(Elements) /\ n \in Nat /\ p \in Nat /\ \A i \in 1..n : line[i] \in Elements
  BY LineFacts
<1>2. rest \in Seq(Elements) /\ Len(rest) = n + 1 - p /\ Len(rest) \in Nat
  <2>1. \A i \in p..n : line[i] \in Elements
    BY <1>1
  <2>2. rest \in Seq(Elements) /\ Len(rest) = IF p <= n THEN n - p + 1 ELSE 0
    BY <1>1, <2>1, SubSeqProperties
  <2>. QED BY <1>1, <2>2
<1>3. rest = <<>> <=> p = n + 1
  <2>1. rest = <<>> <=> Len(rest) = 0
    BY <1>2, EmptySeq
  <2>. QED BY <1>1, <1>2, <2>1
<1>4. ASSUME rest # <<>>
      PROVE  /\ p \in 1..n /\ Head(rest) = line[p] /\ line[p] \in Elements
             /\ Tail(rest) = SubSeq(line, p + 1, n)
  <2>1. p \in 1..n /\ n \in p..n
    BY <1>1, <1>3, <1>4
  <2>. QED BY <1>1, <2>1, HeadTailOfSubSeq
<1>5. ASSUME NEW k \in 1..Len(rest)
      PROVE  SubSeq(rest, k + 1, Len(rest)) = SubSeq(line, p + k, n)
  <2> DEFINE l == Len(rest)
  <2>1. l \in Nat /\ l = n + 1 - p /\ k \in 1..l
    BY <1>2
  <2> HIDE DEF l
  <2>2. CASE k = l
    <3>1. l < k + 1 /\ n < p + k
      BY <1>1, <2>1, <2>2
    <3>2. SubSeq(rest, k + 1, l) = <<>> /\ SubSeq(line, p + k, n) = <<>>
      BY <1>1, <2>1, <3>1, SubSeqEmpty
    <3>. QED BY <3>2 DEF l
  <2>3. CASE k # l
    <3>1. /\ p \in 1..n /\ n \in 1..n /\ k + 1 \in 1..(n - p + 1) /\ l \in 1..(n - p + 1)
          /\ p + (k + 1) - 1 = p + k /\ p + l - 1 = n
      BY <1>1, <2>1, <2>3
    <3>2. SubSeq(rest, k + 1, l) = SubSeq(line, p + (k + 1) - 1, p + l - 1)
      BY <1>1, <3>1, SubSeqOfSubSeq
    <3>. QED BY <3>1, <3>2 DEF l
  <2>. QED BY <2>2, <2>3
<1>. QED BY <1>2, <1>3, <1>4, <1>5

(* The next element to read, behind one that takes nothing, and behind one that takes the next *)
LEMMA NextPosition ==
  ASSUME line \in Lines, NEW p \in 1..Len(line), ~IsArgument[p]
  PROVE  /\ ~WantsNext(line[p]) =>
              /\ p + 1 <= Len(line) => ~IsArgument[p + 1]
              /\ p + 1 \in 1..(Len(line) + 1)
              /\ Kept[(p + 1) - 1] = IF line[p].kind = "word" THEN Append(Kept[p - 1], line[p])
                                     ELSE Kept[p - 1]
         /\ WantsNext(line[p]) /\ p + 1 <= Len(line) =>
              /\ p + 2 <= Len(line) => ~IsArgument[p + 2]
              /\ p + 2 \in 1..(Len(line) + 1)
              /\ Kept[(p + 2) - 1] = Kept[p - 1]
<1>1. Len(line) \in Nat /\ p \in Nat /\ p + 1 - 1 = p /\ p + 2 - 1 = p + 1
  BY LineFacts
<1>2. Kept[p] = IF line[p].kind = "word" THEN Append(Kept[p - 1], line[p]) ELSE Kept[p - 1]
  BY KeptIs
<1>3. ASSUME ~WantsNext(line[p]), p + 1 <= Len(line) PROVE ~IsArgument[p + 1]
  <2>1. p + 1 \in 0..Len(line)
    BY <1>1, <1>3
  <2>. QED BY <1>1, <1>3, <2>1, ArgumentIs
<1>4. ASSUME WantsNext(line[p]), p + 1 <= Len(line)
      PROVE  /\ p + 2 <= Len(line) => ~IsArgument[p + 2]
             /\ p + 2 \in 1..(Len(line) + 1)
             /\ Kept[p + 1] = Kept[p - 1]
  <2>1. p + 1 \in 0..Len(line) /\ p + 1 \in 1..Len(line) /\ p + 1 > 1 /\ p + 2 \in 1..(Len(line) + 1)
    BY <1>1, <1>4
  <2>2. IsArgument[p + 1]
    BY <1>1, <1>4, <2>1, ArgumentIs
  <2>3. p + 2 <= Len(line) => ~IsArgument[p + 2]
    <3> SUFFICES ASSUME p + 2 <= Len(line) PROVE ~IsArgument[p + 2]
      OBVIOUS
    <3>1. p + 2 \in 0..Len(line)
      BY <1>1
    <3>. QED BY <1>1, <2>2, <3>1, ArgumentIs
  <2>4. Kept[p + 1] = Kept[p]
    BY <1>1, <2>1, <2>2, KeptIs
  <2>5. line[p].kind # "word"
    BY <1>4, WantsNextIs
  <2>. QED BY <1>2, <2>1, <2>3, <2>4, <2>5
<1>. QED BY <1>1, <1>2, <1>3, <1>4

(* getopt is at q when it starts with the element there. *)
LEMMA StartsAt ==
  ASSUME line' = line, NEW q, q <= Len(line) => ~IsArgument[q],
         rest' = SubSeq(line, q, Len(line)), skipped' = Kept[q - 1], letters' = <<>>
  PROVE  At(q)'
BY SameLine DEF At

(* It has a part of the cluster, and none of the letters before takes anything. *)
LEMMA ClusterText ==
  ASSUME line \in Lines, NEW p \in 1..(Len(line) + 1), At(p), Ahead("short")
  PROVE  /\ p \in 1..Len(line) /\ line[p].kind = "short" /\ line[p].text \in Seq(STRING)
         /\ Len(line[p].text) \in Nat
         /\ \E k \in 0..(Len(line[p].text) - 1) :
              /\ (IF letters # <<>> THEN letters ELSE Head(rest).text)
                   = SubSeq(line[p].text, k + 1, Len(line[p].text))
              /\ \A i \in 1..k : ~Takes(line[p].text[i])
<1>1. p \in 1..Len(line) /\ Head(rest) = line[p] /\ line[p] \in Elements /\ line[p].kind = "short"
  BY Position DEF At, Ahead
<1> DEFINE text == line[p].text
<1>2. text \in Seq(STRING) /\ text # <<>>
  BY <1>1, LineFacts DEF IsElement
<1>3. Len(text) \in Nat /\ Len(text) # 0
  BY <1>2, LenProperties, EmptySeq
<1>4. CASE letters = <<>>
  <2>1. SubSeq(text, 1, Len(text)) = text
    BY <1>2, SubSeqFull
  <2>2. 0 \in 0..(Len(text) - 1) /\ 0 + 1 = 1
    BY <1>3
  <2>3. (IF letters # <<>> THEN letters ELSE Head(rest).text) = SubSeq(text, 0 + 1, Len(text))
    BY <1>1, <1>4, <2>1, <2>2
  <2>4. \A i \in 1..0 : ~Takes(text[i])
    OBVIOUS
  <2> HIDE DEF text
  <2>5. \E k \in 0..(Len(text) - 1) :
          /\ (IF letters # <<>> THEN letters ELSE Head(rest).text) = SubSeq(text, k + 1, Len(text))
          /\ \A i \in 1..k : ~Takes(text[i])
    BY <2>2, <2>3, <2>4
  <2>. QED BY <1>1, <1>2, <1>3, <2>5 DEF text
<1>5. CASE letters # <<>>
  <2>1. PICK k \in 1..(Len(text) - 1) :
          /\ letters = SubSeq(text, k + 1, Len(text))
          /\ \A i \in 1..k : ~Takes(text[i])
    BY <1>5 DEF At, InCluster
  <2>2. k \in 0..(Len(text) - 1)
    BY <1>3
  <2>. QED BY <1>1, <1>2, <1>3, <1>5, <2>1, <2>2
<1>. QED BY <1>4, <1>5

LEMMA MainSkipsWord ==
  ASSUME line \in Lines, NEW p \in 1..(Len(line) + 1), At(p), SkipWord
  PROVE  \E q \in 1..(Len(line) + 1) : At(q)'
<1>1. /\ rest # <<>> /\ Head(rest).kind = "word" /\ skipped' = Append(skipped, Head(rest))
      /\ rest' = Tail(rest) /\ UNCHANGED <<line, letters>>
  BY DEF SkipWord, Ahead
<1>2. /\ p \in 1..Len(line) /\ Head(rest) = line[p] /\ ~IsArgument[p] /\ skipped = Kept[p - 1]
      /\ rest' = SubSeq(line, p + 1, Len(line))
  <2>1. rest = SubSeq(line, p, Len(line)) /\ skipped = Kept[p - 1] /\ (p <= Len(line) => ~IsArgument[p])
    BY DEF At
  <2>2. p \in 1..Len(line) /\ Head(rest) = line[p] /\ Tail(rest) = SubSeq(line, p + 1, Len(line))
    BY <1>1, <2>1, Position
  <2>3. p <= Len(line)
    BY <2>2, LineFacts
  <2>. QED BY <1>1, <2>1, <2>2, <2>3
<1>3. letters' = <<>>
  BY <1>1, <1>2 DEF At, InCluster
<1>4. ~WantsNext(line[p])
  BY <1>1, <1>2, WantsNextIs
<1>5. /\ p + 1 <= Len(line) => ~IsArgument[p + 1]
      /\ p + 1 \in 1..(Len(line) + 1)
      /\ Kept[(p + 1) - 1] = Append(Kept[p - 1], line[p])
  BY <1>1, <1>2, <1>4, NextPosition
<1>. QED BY <1>1, <1>2, <1>3, <1>5, StartsAt

(* It is done with the element at p, or with the next one too. *)
LEMMA MainFinishes ==
  ASSUME line \in Lines, NEW p \in 1..(Len(line) + 1), At(p), rest # <<>>, line[p].kind # "word",
         line' = line, NEW n, Finish(n),
         \/ n = 1 /\ ~WantsNext(line[p])
         \/ n = 2 /\ WantsNext(line[p]) /\ Len(rest) > 1
  PROVE  \E q \in 1..(Len(line) + 1) : At(q)'
<1>1. /\ rest = SubSeq(line, p, Len(line)) /\ skipped = Kept[p - 1] /\ p \in 1..Len(line)
      /\ Len(rest) = Len(line) + 1 - p /\ Len(line) \in Nat /\ ~IsArgument[p]
      /\ \A k \in 1..Len(rest) : SubSeq(rest, k + 1, Len(rest)) = SubSeq(line, p + k, Len(line))
  <2>1. rest = SubSeq(line, p, Len(line)) /\ skipped = Kept[p - 1] /\ (p <= Len(line) => ~IsArgument[p])
    BY DEF At
  <2>2. Len(line) \in Nat /\ p \in 1..Len(line) /\ p <= Len(line)
    BY <2>1, Position, LineFacts
  <2>. QED BY <2>1, <2>2, Position
<1>2. rest' = SubSeq(rest, n + 1, Len(rest)) /\ letters' = <<>> /\ skipped' = Kept[p - 1]
  BY <1>1 DEF Finish
<1>3. CASE n = 1 /\ ~WantsNext(line[p])
  <2>1. 1 \in 1..Len(rest)
    BY <1>1
  <2>2. rest' = SubSeq(line, p + 1, Len(line))
    BY <1>1, <1>2, <1>3, <2>1
  <2>. QED BY <1>1, <1>2, <1>3, <2>2, NextPosition, StartsAt
<1>4. CASE n = 2 /\ WantsNext(line[p]) /\ Len(rest) > 1
  <2>1. 2 \in 1..Len(rest) /\ p + 1 <= Len(line)
    <3> DEFINE l == Len(rest)
    <3>1. l > 1 /\ l = Len(line) + 1 - p /\ Len(line) \in Nat /\ p \in Nat
      BY <1>1, <1>4
    <3> HIDE DEF l
    <3>2. 2 \in 1..l /\ p + 1 <= Len(line)
      BY <3>1
    <3>. QED BY <3>2 DEF l
  <2>2. rest' = SubSeq(line, p + 2, Len(line))
    BY <1>1, <1>2, <1>4, <2>1
  <2>. QED BY <1>1, <1>2, <1>4, <2>1, <2>2, NextPosition, StartsAt
<1>. QED BY <1>3, <1>4

LEMMA MainReadsShort ==
  ASSUME line \in Lines, cmd = Main, NEW p \in 1..(Len(line) + 1), At(p), ParseShort, pc' = "parse"
  PROVE  \E q \in 1..(Len(line) + 1) : At(q)'
<1> DEFINE all == line[p].text
           text == IF letters # <<>> THEN letters ELSE Head(rest).text
           left == Tail(text)
           wants == Takes(Head(text))
<1>1. rest # <<>> /\ Ahead("short") /\ line' = line
  BY DEF ParseShort, Ahead
<1>2. \/ wants /\ Finish(IF left # <<>> THEN 1 ELSE 2) /\ (left # <<>> \/ Len(rest) > 1)
      \/ ~wants /\ left # <<>> /\ ReadLetter(left)
      \/ ~wants /\ left = <<>> /\ Finish(1)
  BY DEF ParseShort, MissingArgument, Reject, Fail, Takes
<1>3. /\ p \in 1..Len(line) /\ line[p].kind = "short" /\ all \in Seq(STRING) /\ Len(all) \in Nat
      /\ \E k \in 0..(Len(all) - 1) :
           text = SubSeq(all, k + 1, Len(all)) /\ \A i \in 1..k : ~Takes(all[i])
  BY <1>1, ClusterText
<1>4. PICK k \in 0..(Len(all) - 1) :
        text = SubSeq(all, k + 1, Len(all)) /\ \A i \in 1..k : ~Takes(all[i])
  BY <1>3
<1>5. Head(text) = all[k + 1] /\ left = SubSeq(all, k + 2, Len(all))
  BY <1>3, <1>4, OneFurther
<1>6. left = <<>> <=> k + 1 = Len(all)
  <2>1. k + 1 \in 0..Len(all) /\ (k + 1) + 1 = k + 2
    BY <1>3
  <2>2. SubSeq(all, (k + 1) + 1, Len(all)) = <<>> <=> k + 1 = Len(all)
    BY <1>3, <2>1, NothingFurther
  <2>. QED BY <1>5, <2>1, <2>2
<1>7. WantsNext(line[p]) <=> Takes(all[Len(all)]) /\ \A i \in 1..(Len(all) - 1) : ~Takes(all[i])
  BY <1>3, WantsNextIs
<1>8. Takes(all[k + 1]) <=> wants
  BY <1>5
<1> HIDE DEF all, text, left, wants
<1>9. CASE wants /\ Finish(IF left # <<>> THEN 1 ELSE 2) /\ (left # <<>> \/ Len(rest) > 1)
  <2>1. CASE left # <<>>
    <3>1. k + 1 \in 1..(Len(all) - 1)
      BY <1>3, <1>6, <2>1
    <3>2. ~WantsNext(line[p])
      BY <1>7, <1>8, <1>9, <3>1
    <3>. QED BY <1>1, <1>3, <1>9, <2>1, <3>2, MainFinishes
  <2>2. CASE left = <<>>
    <3>1. k + 1 = Len(all) /\ \A i \in 1..(Len(all) - 1) : i \in 1..k
      BY <1>3, <1>6, <2>2
    <3>2. WantsNext(line[p])
      BY <1>4, <1>7, <1>8, <1>9, <3>1
    <3>. QED BY <1>1, <1>3, <1>9, <2>2, <3>2, MainFinishes
  <2>. QED BY <2>1, <2>2
<1>10. CASE ~wants /\ left # <<>> /\ ReadLetter(left)
  <2>1. k + 1 \in 1..(Len(all) - 1) /\ (k + 1) + 1 = k + 2 /\ \A i \in 1..(k + 1) : i = k + 1 \/ i \in 1..k
    BY <1>3, <1>6, <1>10
  <2>2. \A i \in 1..(k + 1) : ~Takes(all[i])
    BY <1>4, <1>8, <1>10, <2>1
  <2>3. letters' = SubSeq(all, (k + 1) + 1, Len(all)) /\ UNCHANGED <<rest, skipped>>
    BY <1>5, <1>10, <2>1 DEF ReadLetter
  <2>4. At(p)'
    <3>1. p <= Len(line)
      BY <1>3, LineFacts
    <3>2. InCluster(p)'
      <4>1. \E j \in 1..(Len(all) - 1) :
              letters' = SubSeq(all, j + 1, Len(all)) /\ \A i \in 1..j : ~Takes(all[i])
        BY <2>1, <2>2, <2>3
      <4>. QED BY <1>1, <1>3, <3>1, <4>1 DEF InCluster, all, Takes
    <3>. QED BY <1>1, <2>3, <3>2, SameLine DEF At
  <2>. QED BY <2>4
<1>11. CASE ~wants /\ left = <<>> /\ Finish(1)
  <2>1. ~WantsNext(line[p])
    BY <1>6, <1>7, <1>8, <1>11
  <2>. QED BY <1>1, <1>3, <1>11, <2>1, MainFinishes
<1>. QED BY <1>2, <1>9, <1>10, <1>11

LEMMA MainReadsLong ==
  ASSUME line \in Lines, cmd = Main, NEW p \in 1..(Len(line) + 1), At(p), ParseLong, pc' = "parse"
  PROVE  \E q \in 1..(Len(line) + 1) : At(q)'
<1> DEFINE f == LongFlag(Main, Head(rest).text[1])
<1>1. rest # <<>> /\ Head(rest).kind = "long" /\ line' = line
  BY DEF ParseLong, Ahead
<1>2. \/ f = 0 /\ Finish(1)
      \/ /\ f # 0 /\ (Flag(Main, f).wants => Len(rest) > 1)
         /\ Finish(IF Flag(Main, f).wants THEN 2 ELSE 1)
  BY DEF ParseLong, MissingArgument, Reject, Fail
<1>3. Head(rest) = line[p]
  BY <1>1, Position DEF At
<1>4. WantsNext(line[p]) <=> f # 0 /\ Flag(Main, f).wants
  BY <1>1, <1>3, WantsNextIs
<1> HIDE DEF f
<1>5. CASE WantsNext(line[p])
  <2>1. Finish(2) /\ Len(rest) > 1
    BY <1>2, <1>4, <1>5
  <2>. QED BY <1>1, <1>3, <1>5, <2>1, MainFinishes
<1>6. CASE ~WantsNext(line[p])
  <2>1. Finish(1)
    BY <1>2, <1>4, <1>6
  <2>. QED BY <1>1, <1>3, <1>6, <2>1, MainFinishes
<1>. QED BY <1>5, <1>6

-----------------------------------------------------------------------------
(* A subcommand reads what it is handed                                    *)

(* The words come first: *)
LEMMA WordsFirst ==
  ASSUME NEW ws \in Seq(WordElements), NEW fs \in Seq(FlagElements), rest = ws \o fs
  PROVE  /\ rest # <<>> /\ Head(rest).kind = "word" => ws # <<>> /\ Head(rest) = Head(ws)
         /\ rest = <<>> => ws = <<>>
         /\ rest # <<>> /\ Head(rest).kind # "word" => ws = <<>> /\ rest = fs
<1>1. ws \in Seq(Elements) /\ fs \in Seq(Elements)
  BY SeqMonotonic DEF WordElements, FlagElements
<1>2. ws # <<>> => rest # <<>> /\ Head(rest) = Head(ws)
  BY <1>1, HeadOfConcat
<1>3. ws # <<>> => Head(ws) \in WordElements
  BY HeadTailProperties
<1>4. ws = <<>> => rest = fs
  BY <1>1, ConcatEmptySeq
<1>5. fs # <<>> => Head(fs) \in FlagElements
  BY HeadTailProperties
<1>. QED BY <1>2, <1>3, <1>4, <1>5 DEF WordElements, FlagElements

(* On a plain line what getopt reads is a plain element of the line, and in a subcommand it is    *)
(* whole and no cluster.                                                                          *)
LEMMA PlainAhead ==
  ASSUME IInv, WordsInv, Plain, pc = "parse", rest # <<>>
  PROVE  /\ rest \in Seq(Elements) /\ Head(rest) \in Elements /\ PlainElement(Head(rest))
         /\ Len(path) > 1 /\ Head(rest).kind # "word" => letters = <<>> /\ Head(rest) \in FlagElements
<1>1. \A e \in Elements : PlainElement(e)
  BY DEF Plain, Elements
<1>2. (Len(path) = 1 \/ Len(path) > 1) /\ line \in Lines
  BY WhoReads DEF Over, WordsInv
<1>3. CASE Len(path) = 1
  <2>1. PICK p \in 1..(Len(line) + 1) : At(p)
    BY <1>3 DEF WordsInv, MainInv
  <2>2. rest \in Seq(Elements) /\ Head(rest) = line[p] /\ line[p] \in Elements
    BY <1>2, <2>1, Position DEF At
  <2>. QED BY <1>1, <1>3, <2>2
<1>4. CASE Len(path) > 1
  <2>1. letters = <<>>
    BY <1>4 DEF WordsInv, PlainInv, SubInv
  <2>2. PICK ws \in Seq(WordElements), fs \in Seq(FlagElements) : Parts(ws, fs)
    BY <1>4 DEF WordsInv, PlainInv, SubInv
  <2>3. rest \in Seq(Elements)
    <3>1. ws \in Seq(Elements) /\ fs \in Seq(Elements)
      BY SeqMonotonic DEF WordElements, FlagElements
    <3>. QED BY <2>2, <3>1, ConcatProperties DEF Parts
  <2>4. Head(rest) \in Elements
    BY <2>3, HeadTailProperties
  <2>5. ASSUME Head(rest).kind # "word" PROVE Head(rest) \in FlagElements
    <3>1. rest = fs
      BY <2>2, <2>5, WordsFirst DEF Parts
    <3>. QED BY <3>1, HeadTailProperties
  <2>. QED BY <1>1, <2>1, <2>3, <2>4, <2>5
<1>. QED BY <1>2, <1>3, <1>4

LEMMA SubSkipsWord ==
  ASSUME line \in Lines, SubInv, Len(path) > 1, SkipWord
  PROVE  SubInv'
<1>1. /\ pc = "parse" /\ rest # <<>> /\ Head(rest).kind = "word"
      /\ skipped' = Append(skipped, Head(rest)) /\ rest' = Tail(rest)
      /\ UNCHANGED <<line, letters, path>>
  BY DEF SkipWord, Ahead
<1>2. letters = <<>> /\ skipped \in Seq(WordElements)
  BY <1>1 DEF SubInv
<1>3. PICK ws \in Seq(WordElements), fs \in Seq(FlagElements) : Parts(ws, fs)
  BY <1>1 DEF SubInv
<1>4. rest = ws \o fs /\ skipped \o ws = WordsFrom(Len(path))
  BY <1>3 DEF Parts
<1>5. ws # <<>> /\ Head(rest) = Head(ws)
  BY <1>1, <1>4, WordsFirst
<1>6. rest' = Tail(ws) \o fs
  <2>1. ws \in Seq(Elements) /\ fs \in Seq(Elements)
    BY SeqMonotonic DEF WordElements, FlagElements
  <2>. QED BY <1>1, <1>4, <1>5, <2>1, HeadOfConcat
<1>7. Tail(ws) \in Seq(WordElements) /\ skipped' \in Seq(WordElements) /\ skipped' \o Tail(ws) = skipped \o ws
  BY <1>1, <1>2, <1>5, HeadMoves
<1> DEFINE r == Tail(ws)
<1>8. /\ r \in Seq(WordElements)' /\ fs \in Seq(FlagElements)' /\ skipped' \in Seq(WordElements)'
      /\ rest' = r \o fs /\ skipped' \o r = WordsFrom(Len(path))'
  BY <1>1, <1>4, <1>6, <1>7, SameLine
<1> HIDE DEF r
<1>9. Parts(r, fs)'
  BY <1>8 DEF Parts
<1>. QED BY <1>1, <1>2, <1>8, <1>9 DEF SubInv

LEMMA SubFinishes ==
  ASSUME line \in Lines, SubInv, Len(path) > 1, pc = "parse", rest # <<>>, Head(rest).kind # "word",
         NEW n \in {1, 2}, n <= Len(rest), Finish(n), UNCHANGED <<line, path>>
  PROVE  SubInv'
<1>1. letters' = <<>> /\ skipped' = skipped /\ rest' = SubSeq(rest, n + 1, Len(rest))
  BY DEF Finish
<1>2. skipped \in Seq(WordElements)
  BY DEF SubInv
<1>3. PICK ws \in Seq(WordElements), fs \in Seq(FlagElements) : Parts(ws, fs)
  BY DEF SubInv
<1>4. rest = ws \o fs /\ skipped \o ws = WordsFrom(Len(path))
  BY <1>3 DEF Parts
<1>5. ws = <<>> /\ rest = fs
  BY <1>4, WordsFirst
<1> DEFINE r == SubSeq(fs, n + 1, Len(fs))
<1>6. r \in Seq(FlagElements)
  <2>1. Len(fs) \in Nat /\ n + 1 \in Int /\ \A i \in (n + 1)..Len(fs) : i \in 1..Len(fs)
    BY LenProperties
  <2>2. \A i \in (n + 1)..Len(fs) : fs[i] \in FlagElements
    BY <2>1, ElementOfSeq
  <2>. QED BY <2>1, <2>2, SubSeqProperties
<1>7. rest' = r
  BY <1>1, <1>5
<1>8. <<>> \o r = r
  BY <1>6, ConcatEmptySeq
<1> HIDE DEF r
<1>9. /\ <<>> \in Seq(WordElements)' /\ r \in Seq(FlagElements)' /\ skipped' \in Seq(WordElements)'
      /\ rest' = <<>> \o r /\ skipped' \o <<>> = WordsFrom(Len(path))'
  BY <1>1, <1>2, <1>4, <1>5, <1>6, <1>7, <1>8, EmptySeq, SameLine
<1>10. Parts(<<>>, r)'
  BY <1>9 DEF Parts
<1>. QED BY <1>1, <1>9, <1>10 DEF SubInv

(* A letter of a plain element that main does not know is all there is of it: *)
LEMMA UnknownLetter ==
  ASSUME line \in Lines, NEW p \in 1..(Len(line) + 1), At(p), Ahead("short"), PlainElement(Head(rest)),
         FindFlag(Main, Head(IF letters # <<>> THEN letters ELSE Head(rest).text), NoLong) = 0
  PROVE  Head(rest) \in FlagElements /\ Tail(IF letters # <<>> THEN letters ELSE Head(rest).text) = <<>>
<1> DEFINE all == line[p].text
           text == IF letters # <<>> THEN letters ELSE Head(rest).text
<1>1. /\ p \in 1..Len(line) /\ line[p].kind = "short" /\ all \in Seq(STRING) /\ Len(all) \in Nat
      /\ \E k \in 0..(Len(all) - 1) :
           text = SubSeq(all, k + 1, Len(all)) /\ \A i \in 1..k : ~Takes(all[i])
  BY ClusterText
<1>2. Head(rest) = line[p] /\ line[p] \in Elements /\ FindFlag(Main, Head(text), NoLong) = 0
  BY Position DEF At, Ahead
<1>3. PICK k \in 0..(Len(all) - 1) :
        text = SubSeq(all, k + 1, Len(all)) /\ \A i \in 1..k : ~Takes(all[i])
  BY <1>1
<1>4. Head(text) = all[k + 1] /\ Tail(text) = SubSeq(all, k + 2, Len(all)) /\ k + 1 \in 1..Len(all)
  <2> HIDE DEF text, all
  <2>1. k + 1 \in 1..Len(all)
    BY <1>1
  <2>. QED BY <1>1, <1>3, <2>1, OneFurther
<1>5. DOMAIN all = 1..Len(all)
  BY <1>1, LenProperties
<1>6. ~OfMain(all)
  <2> SUFFICES ASSUME OfMain(all) PROVE FALSE
    OBVIOUS
  <2> DEFINE i == k + 1
  <2>1. i \in DOMAIN all /\ FindFlag(Main, all[i], NoLong) = 0 /\ \A j \in 1..(i - 1) : j \in 1..k
    BY <1>2, <1>4, <1>5
  <2> HIDE DEF i, all, text
  <2>2. \E j \in 1..(i - 1) : Takes(all[j])
    BY <2>1 DEF OfMain, Takes
  <2>. QED BY <1>3, <2>1, <2>2
<1>7. Len(all) = 1
  BY <1>1, <1>2, <1>6 DEF PlainElement
<1>8. Tail(text) = <<>>
  <2>1. k + 2 \in Int /\ Len(all) \in Int /\ Len(all) < k + 2
    BY <1>7
  <2> HIDE DEF all, text
  <2>2. SubSeq(all, k + 2, Len(all)) = <<>>
    BY <2>1, SubSeqEmpty
  <2>. QED BY <1>4, <2>2
<1>. QED BY <1>1, <1>2, <1>7, <1>8 DEF FlagElements

(* What a flag that is read leaves behind on a plain line *)
LEMMA FlagsPassedOn ==
  ASSUME IInv, WordsInv, Plain, ParseShort \/ ParseLong, pc' = "parse"
  PROVE  FlagsInv' /\ (Len(path) > 1 => \E n \in {1, 2} : n <= Len(rest) /\ Finish(n))
<1> DEFINE e == Head(rest)
<1>1. /\ pc = "parse" /\ rest # <<>> /\ e.kind \in {"short", "long"} /\ UNCHANGED <<line, path>>
      /\ ParseShort => e.kind = "short"
      /\ ParseLong => e.kind = "long"
  BY DEF ParseShort, ParseLong, Ahead
<1>2. /\ e \in Elements /\ PlainElement(e)
      /\ Len(path) > 1 => letters = <<>> /\ e \in FlagElements
  BY <1>1, PlainAhead
<1>3. /\ line \in Lines /\ unhandled \in Seq(FlagElements) /\ IsElement(e)
      /\ \A x \in FlagElements : Append(unhandled, x) \in Seq(FlagElements)
  <2>1. line \in Lines /\ unhandled \in Seq(FlagElements)
    BY <1>1 DEF WordsInv, PlainInv, FlagsInv
  <2>. QED BY <1>2, <2>1, LineFacts, AppendProperties
<1>4. FlagElements' = FlagElements
  BY <1>1, SameLine
<1>5. /\ Len(path) = 1 \/ Len(path) > 1
      /\ Len(path) = 1 => cmd = Main
      /\ Len(rest) \in Nat /\ Len(rest) # 0
  <2>1. rest \in Seq(Elements)
    BY <1>1, PlainAhead
  <2>. QED BY <1>1, <2>1, WhoReads, LenProperties, EmptySeq DEF Over
<1>6. 1 <= Len(rest) /\ (Len(rest) > 1 => 2 <= Len(rest))
  <2> DEFINE l == Len(rest)
  <2>1. l \in Nat /\ l # 0
    BY <1>5
  <2> HIDE DEF l
  <2>2. 1 <= l /\ (l > 1 => 2 <= l)
    BY <2>1
  <2>. QED BY <2>2 DEF l
<1> HIDE DEF e
<1>7. CASE ParseLong
  <2> DEFINE f == LongFlag(cmd, e.text[1])
  <2>1. Finish(1) \/ (Len(rest) > 1 /\ Finish(2))
    BY <1>7 DEF ParseLong, MissingArgument, Reject, Fail, e
  <2>2. unhandled' = unhandled \/ unhandled' = Append(unhandled, e)
    BY <1>7 DEF ParseLong, MissingArgument, Reject, TakeLongOnly, TakeFlag, Pend, Unhandled, e
  <2>3. e \in FlagElements
    BY <1>1, <1>2, <1>7 DEF FlagElements
  <2>. QED BY <1>3, <1>4, <1>6, <2>1, <2>2, <2>3 DEF FlagsInv
<1>8. CASE ParseShort /\ Len(path) = 1
  <2> DEFINE text == IF letters # <<>> THEN letters ELSE Head(rest).text
             f == FindFlag(Main, Head(text), NoLong)
  <2>1. PICK p \in 1..(Len(line) + 1) : At(p)
    BY <1>1, <1>8 DEF WordsInv, MainInv
  <2>2. f # 0 => unhandled' = unhandled
    BY <1>5, <1>8 DEF ParseShort, MissingArgument, Reject, TakeFlag, Pend
  <2>3. f = 0 => e \in FlagElements /\ Tail(text) = <<>>
    <3>1. Ahead("short")
      BY <1>8 DEF ParseShort
    <3>. QED BY <1>2, <1>3, <2>1, <3>1, UnknownLetter DEF e
  <2>4. f = 0 /\ Tail(text) = <<>> => unhandled' = Append(unhandled, e)
    BY <1>5, <1>8 DEF ParseShort, Unhandled, e
  <2> HIDE DEF f, text
  <2>. QED BY <1>3, <1>4, <1>8, <2>2, <2>3, <2>4 DEF FlagsInv
<1>9. CASE ParseShort /\ Len(path) > 1
  <2>1. letters = <<>> /\ e \in FlagElements /\ Len(e.text) = 1
    BY <1>1, <1>2, <1>9 DEF FlagElements
  <2>2. Tail(e.text) = <<>>
    <3> DEFINE text == e.text
    <3>1. text \in Seq(STRING) /\ text # <<>> /\ Len(text) = 1
      BY <1>1, <1>3, <1>9, <2>1 DEF IsElement
    <3> HIDE DEF text
    <3>2. Tail(text) \in Seq(STRING) /\ Len(Tail(text)) = 0
      BY <3>1, HeadTailProperties
    <3>3. Tail(text) = <<>>
      BY <3>2, EmptySeq
    <3>. QED BY <3>3 DEF text
  <2>3. Finish(1) \/ (Len(rest) > 1 /\ Finish(2))
    BY <1>9, <2>1, <2>2 DEF ParseShort, MissingArgument, Reject, Fail, e
  <2>4. unhandled' = unhandled \/ unhandled' = Append(unhandled, e)
    BY <1>9, <2>1, <2>2 DEF ParseShort, MissingArgument, Reject, TakeFlag, Pend, Unhandled, e
  <2>. QED BY <1>3, <1>4, <1>6, <2>1, <2>3, <2>4 DEF FlagsInv
<1>. QED BY <1>5, <1>7, <1>8, <1>9

LEMMA ReadKeepsWords ==
  ASSUME IInv, WordsInv, SkipWord \/ ParseShort \/ ParseLong
  PROVE  WordsInv'
<1>1. pc = "parse" /\ UNCHANGED <<line, path, taken, ran, called>>
  BY DEF SkipWord, ParseShort, ParseLong, effects
<1>2. \/ pc' = "parse"
      \/ \E e : Fail(e)
  BY <1>1 DEF SkipWord, ParseShort, ParseLong, TakeFlag, TakeLongOnly, MissingArgument, Pend,
     Unhandled, Reject
<1>3. CASE \E e : Fail(e)
  BY <1>1, <1>3, FailKeepsWords
<1>4. CASE pc' = "parse"
  <2>1. line \in Lines /\ TakenInv'
    BY <1>1, <1>4 DEF WordsInv, TakenInv
  <2>2. /\ line' \in Lines /\ WayInv' /\ NoHandlerInv' /\ (Plain' <=> Plain)
        /\ Plain => NamesInv' /\ RanInv'
    BY <1>1, <1>4, ReadingKeeps DEF Goes
  <2>3. MainInv'
    <3> SUFFICES ASSUME Len(path) = 1 PROVE \E q \in 1..(Len(line) + 1) : At(q)'
      BY <1>1, <1>4 DEF MainInv
    <3>1. PICK p \in 1..(Len(line) + 1) : At(p)
      BY <1>1 DEF WordsInv, MainInv
    <3>2. cmd = Main
      BY <1>1, WhoReads DEF Over
    <3>. QED BY <1>4, <2>1, <3>1, <3>2, MainSkipsWord, MainReadsShort, MainReadsLong
  <2>4. ASSUME Plain PROVE FlagsInv' /\ SubInv'
    <3>1. FlagsInv /\ SubInv
      BY <2>4 DEF WordsInv, PlainInv
    <3>2. CASE SkipWord
      <4>1. FlagsInv'
        BY <1>1, <3>1, <3>2, SameLine DEF FlagsInv, SkipWord
      <4>2. Len(path) > 1 => SubInv'
        BY <2>1, <3>1, <3>2, SubSkipsWord
      <4>. QED BY <1>1, <4>1, <4>2 DEF SubInv
    <3>3. CASE ParseShort \/ ParseLong
      <4>1. FlagsInv' /\ (Len(path) > 1 => \E n \in {1, 2} : n <= Len(rest) /\ Finish(n))
        BY <1>4, <2>4, <3>3, FlagsPassedOn
      <4>2. rest # <<>> /\ Head(rest).kind # "word"
        BY <3>3 DEF ParseShort, ParseLong, Ahead
      <4>3. Len(path) > 1 => SubInv'
        BY <1>1, <2>1, <3>1, <4>1, <4>2, SubFinishes
      <4>. QED BY <1>1, <4>1, <4>3 DEF SubInv
    <3>. QED BY <3>2, <3>3
  <2>5. ArgsInv' /\ OwnWordsInv'
    BY <1>4 DEF ArgsInv, OwnWordsInv
  <2>. QED BY <2>1, <2>2, <2>3, <2>4, <2>5 DEF WordsInv, PlainInv
<1>. QED BY <1>2, <1>3, <1>4

(* Behind "--" a plain line has only words, and none of them is an argument. *)
LEMMA WordsBehindEnd ==
  ASSUME line \in Lines, Plain, NEW p \in 1..Len(line), line[p].kind = "end"
  PROVE  Kept[p - 1] \o SubSeq(line, p + 1, Len(line)) = Words
<1> DEFINE n == Len(line)
           N == n - p
           whole == Kept[p - 1] \o SubSeq(line, p + 1, n)
           S == {m \in 0..N : Kept[p + m] \o SubSeq(line, p + m + 1, n) = whole}
<1>1. /\ n \in Nat /\ N \in Nat /\ p + 0 = p /\ p + 0 + 1 = p + 1 /\ line \in Seq(Elements)
      /\ DOMAIN line = 1..n
  BY LineFacts
<1>2. \A i \in (p + 1)..n : line[i].kind = "word"
  BY <1>1 DEF Plain
<1>3. 0 \in S
  <2>1. Kept[p] = Kept[p - 1]
    BY KeptIs
  <2>2. Kept[p + 0] \o SubSeq(line, p + 0 + 1, n) = whole
    BY <1>1, <2>1
  <2>3. 0 \in 0..N
    BY <1>1
  <2> HIDE DEF whole, N, n
  <2>. QED BY <2>2, <2>3, Zenon
<1>4. ASSUME NEW m \in 0..(N - 1), m \in S PROVE m + 1 \in S
  <2> DEFINE q == p + m
  <2>1. /\ q \in 1..n /\ q \in 0..(n - 1) /\ q + 1 \in 1..n /\ q + 1 \in (p + 1)..n
        /\ q + 1 \in 0..n /\ q \in 0..n /\ (q + 1) - 1 = q /\ q + 1 > 1 /\ (q = p \/ q \in (p + 1)..n)
        /\ p + (m + 1) = q + 1 /\ p + (m + 1) + 1 = q + 2 /\ p + m + 1 = q + 1 /\ m + 1 \in 0..N
    BY <1>1
  <2> HIDE DEF q, n, N
  <2>2. line[q].kind \in {"word", "end"}
    BY <1>2, <2>1
  <2>3. ~IsArgument[q + 1]
    BY <2>1, <2>2, ArgumentIs, WantsNextIs DEF n
  <2>4. Kept[q + 1] = Append(Kept[q], line[q + 1])
    BY <1>2, <2>1, <2>3, KeptIs DEF n
  <2> DEFINE t == SubSeq(line, q + 1, n)
  <2>5. t # <<>> /\ Head(t) = line[q + 1] /\ Tail(t) = SubSeq(line, q + 2, n) /\ t \in Seq(Elements)
    <3>1. t # <<>> /\ Head(t) = line[q + 1] /\ Tail(t) = SubSeq(line, q + 2, n)
      BY <1>1, <2>1, OneFurther DEF n
    <3>2. \A i \in (q + 1)..n : line[i] \in Elements
      BY <1>1, <2>1, LineFacts DEF n
    <3>3. t \in Seq(Elements)
      BY <1>1, <2>1, <3>2, SubSeqProperties
    <3>. QED BY <3>1, <3>3
  <2>6. Kept[q] \in Seq(Elements)
    BY <2>1, KeptIs, SeqMonotonic DEF WordElements, n
  <2>7. Append(Kept[q], Head(t)) \o Tail(t) = Kept[q] \o t
    BY <2>5, <2>6, HeadMoves
  <2>8. Kept[q] \o t = whole
    BY <1>4, <2>1 DEF q
  <2>9. Kept[p + (m + 1)] \o SubSeq(line, p + (m + 1) + 1, n) = whole
    BY <2>1, <2>4, <2>5, <2>7, <2>8
  <2>. QED BY <2>1, <2>9
<1>5. 0..N \subseteq S
  <2> HIDE DEF S, N
  <2>. QED BY <1>1, <1>3, <1>4, Counting
<1>6. N \in 0..N /\ p + N = n /\ p + N + 1 = n + 1 /\ n \in 0..n
  BY <1>1
<1>7. Kept[n] \o SubSeq(line, n + 1, n) = whole
  <2> HIDE DEF whole, N, n
  <2>1. N \in S
    BY <1>5, <1>6
  <2>. QED BY <1>6, <2>1
<1>8. SubSeq(line, n + 1, n) = <<>>
  BY <1>1, SubSeqEmpty
<1>9. Kept[n] \o <<>> = Kept[n]
  BY <1>6, KeptIs, ConcatEmptySeq
<1>. QED BY <1>7, <1>8, <1>9 DEF Words

LEMMA CollectKeepsWords ==
  ASSUME IInv, WordsInv, CollectArgs
  PROVE  WordsInv'
<1> DEFINE behind == IF rest = <<>> THEN <<>> ELSE Tail(rest)
<1>1. /\ pc = "parse" /\ pc' = "decide" /\ args' = skipped \o behind
      /\ rest # <<>> => Head(rest).kind = "end"
      /\ UNCHANGED <<line, path, unhandled, taken, ran, called>>
  BY DEF CollectArgs, Ahead, effects
<1>2. /\ line \in Lines
      /\ line' \in Lines /\ WayInv' /\ NoHandlerInv' /\ (Plain' <=> Plain)
      /\ Plain => NamesInv' /\ RanInv'
  BY <1>1, ReadingKeeps DEF Goes, WordsInv
<1>3. TakenInv'
  BY <1>1 DEF WordsInv, TakenInv
<1>4. ASSUME Len(path) = 1, args' # <<>>, args'[1].kind = "word"
      PROVE  Words # <<>> /\ Words[1] = args'[1]
  <2>1. PICK p \in 1..(Len(line) + 1) : At(p)
    BY <1>1, <1>4 DEF WordsInv, MainInv
  <2>2. /\ rest = SubSeq(line, p, Len(line)) /\ skipped = Kept[p - 1]
        /\ p <= Len(line) => ~IsArgument[p]
    BY <2>1 DEF At
  <2>3. Len(line) \in Nat /\ p \in Nat /\ p - 1 \in 0..Len(line)
    BY <1>2, LineFacts
  <2>4. skipped \in Seq(WordElements) /\ behind \in Seq(Elements)
    <3>1. rest \in Seq(Elements)
      BY <1>2, <2>2, Position
    <3>. QED BY <1>2, <2>2, <2>3, <3>1, KeptIs, HeadTailProperties, EmptySeq
  <2>5. skipped \in Seq(Elements)
    BY <2>4, SeqMonotonic DEF WordElements
  <2>6. CASE skipped # <<>>
    <3> DEFINE a == skipped \o behind
    <3>1. Head(a) = Head(skipped)
      BY <2>4, <2>5, <2>6, HeadOfConcat
    <3>2. args'[1] = skipped[1]
      <4>1. args' = a
        BY <1>1
      <4> HIDE DEF a
      <4>. QED BY <3>1, <4>1
    <3>. QED BY <1>2, <2>2, <2>3, <2>6, <3>2, KeptGrows
  <2>7. CASE skipped = <<>>
    <3>1. args' = behind
      BY <1>1, <2>4, <2>7, ConcatEmptySeq
    <3>2. rest # <<>> /\ args' = Tail(rest) /\ Head(rest).kind = "end"
      BY <1>1, <1>4, <3>1
    <3>3. p \in 1..Len(line) /\ Head(rest) = line[p] /\ args' = SubSeq(line, p + 1, Len(line))
      BY <1>2, <2>2, <3>2, Position
    <3>4. ~WantsNext(line[p])
      BY <3>2, <3>3, WantsNextIs
    <3>5. ~IsArgument[p]
      BY <2>2, <3>3
    <3> DEFINE q == p + 1
    <3>6. /\ q <= Len(line) => ~IsArgument[q]
          /\ q \in 1..(Len(line) + 1) /\ Kept[q - 1] = <<>>
      BY <1>2, <2>2, <2>7, <3>2, <3>3, <3>4, <3>5, NextPosition
    <3>7. q # Len(line) + 1
      <4>1. q = Len(line) + 1 => args' = <<>>
        BY <2>3, <3>3, SubSeqEmpty
      <4>. QED BY <1>4, <4>1
    <3>8. args' = SubSeq(line, q, Len(line))
      BY <3>3
    <3> HIDE DEF q
    <3>9. q \in 1..Len(line) /\ Len(line) \in q..Len(line) /\ q <= Len(line) /\ q \in 0..Len(line)
      BY <2>3, <3>6, <3>7
    <3>10. Head(args') = line[q]
      BY <1>2, <3>8, <3>9, LineFacts, HeadTailOfSubSeq
    <3>11. args'[1] = line[q]
      BY <3>10
    <3>12. Kept[q] = Append(<<>>, line[q])
      BY <1>2, <1>4, <3>6, <3>9, <3>11, KeptIs
    <3>13. Kept[q] # <<>> /\ Kept[q][1] = line[q]
      BY <3>12
    <3>. QED BY <1>2, <3>9, <3>11, <3>13, KeptGrows
  <2>. QED BY <2>6, <2>7
<1>5. MainInv'
  BY <1>1, <1>4, SameLine DEF MainInv
<1>6. ASSUME Plain PROVE args' = WordsFrom(Len(path))
  <2>1. CASE Len(path) = 1
    <3>1. PICK p \in 1..(Len(line) + 1) : At(p)
      BY <1>1, <2>1 DEF WordsInv, MainInv
    <3>2. Words \in Seq(WordElements) /\ WordsFrom(1) = Words
      BY <1>2, WordsFacts
    <3>3. CASE rest = <<>>
      <4>1. p = Len(line) + 1 /\ skipped = Kept[p - 1]
        BY <1>2, <3>1, <3>3, Position DEF At
      <4>2. Len(line) + 1 - 1 = Len(line)
        BY <1>2, LineFacts
      <4>3. skipped = Words
        BY <4>1, <4>2 DEF Words
      <4>. QED BY <1>1, <2>1, <3>2, <3>3, <4>3, ConcatEmptySeq
    <3>4. CASE rest # <<>>
      <4>1. /\ p \in 1..Len(line) /\ line[p].kind = "end" /\ skipped = Kept[p - 1]
            /\ behind = SubSeq(line, p + 1, Len(line))
        BY <1>1, <1>2, <3>1, <3>4, Position DEF At
      <4>2. skipped \o behind = Words
        BY <1>2, <1>6, <4>1, WordsBehindEnd
      <4>. QED BY <1>1, <2>1, <3>2, <4>2
    <3>. QED BY <3>3, <3>4
  <2>2. CASE Len(path) > 1
    <3>1. rest = <<>>
      BY <1>1, <1>6, <2>2, PlainAhead DEF FlagElements
    <3>2. skipped \in Seq(WordElements)
      BY <1>1, <1>6, <2>2 DEF WordsInv, PlainInv, SubInv
    <3>3. PICK ws \in Seq(WordElements), fs \in Seq(FlagElements) : Parts(ws, fs)
      BY <1>1, <1>6, <2>2 DEF WordsInv, PlainInv, SubInv
    <3>4. ws = <<>>
      BY <3>1, <3>3, WordsFirst DEF Parts
    <3>5. skipped \o <<>> = WordsFrom(Len(path))
      BY <3>3, <3>4 DEF Parts
    <3>. QED BY <1>1, <3>1, <3>5
  <2>. QED BY <1>1, <2>1, <2>2, WhoReads DEF Over
<1>7. ASSUME Plain PROVE PlainInv'
  <2>1. ArgsInv'
    BY <1>1, <1>6, <1>7, SameLine DEF ArgsInv
  <2>2. FlagsInv'
    BY <1>1, <1>7, SameLine DEF WordsInv, PlainInv, FlagsInv
  <2>. QED BY <1>1, <1>2, <1>7, <2>1, <2>2 DEF PlainInv, SubInv, OwnWordsInv
<1>. QED BY <1>2, <1>3, <1>5, <1>7 DEF WordsInv

LEMMA TakeKeepsWords ==
  ASSUME IInv, WordsInv, NothingLeft \/ TakeArgs
  PROVE  WordsInv'
<1>1. /\ pc = "decide" /\ pc' = "callbacks" /\ UNCHANGED <<line, path, ran, called>>
      /\ \/ args = <<>> /\ taken' = taken
         \/ args # <<>> /\ Subcommand = {} /\ taken' = [taken EXCEPT ![cmd] = @ \o args]
  BY DEF NothingLeft, TakeArgs, NoSubcommand, Keep, effects
<1>2. /\ line \in Lines
      /\ line' \in Lines /\ WayInv' /\ NoHandlerInv' /\ (Plain' <=> Plain)
      /\ Plain => NamesInv' /\ RanInv'
  BY <1>1, ReadingKeeps DEF Goes, WordsInv
<1>3. MainInv'
  BY <1>1 DEF MainInv
<1>4. TakenInv'
  BY <1>1 DEF WordsInv, TakenInv
<1>5. cmd' = cmd /\ cmd \in CommandNames /\ Len(path) \in Nat \ {0}
  BY <1>1, WhoReads DEF cmd, Over
<1>6. ASSUME Plain PROVE OwnWordsInv'
  <2> DEFINE n == Len(path)
  <2>1. n \in 1..(Len(Words) + 1) /\ args = WordsFrom(n) /\ Len(Words) \in Nat
    <3>1. n <= Len(Words) + 1 /\ args = WordsFrom(n)
      BY <1>1, <1>6 DEF WordsInv, PlainInv, NamesInv, ArgsInv, Over
    <3>. QED BY <1>2, <1>5, <3>1, WordsFacts
  <2>2. args \in Seq(WordElements) /\ taken[cmd] = <<>> /\ DOMAIN taken = CommandNames
    BY <1>1, <1>2, <1>5, <2>1, WordsFacts DEF WordsInv, TakenInv
  <2>3. taken'[cmd] = args
    <3>1. <<>> \o args = args
      BY <2>2, ConcatEmptySeq
    <3>. QED BY <1>1, <1>5, <2>2, <3>1
  <2>4. n <= Len(Words) => Named(n) \notin SubcommandsOf[cmd]
    <3> SUFFICES ASSUME n <= Len(Words), Named(n) \in SubcommandsOf[cmd] PROVE FALSE
      OBVIOUS
    <3> HIDE DEF n
    <3>1. n \in 1..Len(Words)
      BY <2>1
    <3>2. args # <<>> /\ args[1] = Word(Named(n))
      BY <1>2, <2>1, <3>1, WordsFacts
    <3>3. Subcommand # {}
      BY <3>2 DEF Subcommand
    <3>. QED BY <1>1, <3>2, <3>3
  <2>. QED BY <1>1, <1>5, <2>1, <2>3, <2>4, SameLine DEF OwnWordsInv
<1>7. FlagsInv' /\ SubInv' /\ ArgsInv'
  BY <1>1 DEF FlagsInv, SubInv, ArgsInv
<1>. QED BY <1>2, <1>3, <1>4, <1>6, <1>7 DEF WordsInv, PlainInv

(* The subcommand is one below the commands on the path. *)
LEMMA RunSubcommandKeepsWords ==
  ASSUME IInv, WordsInv, RunSubcommand
  PROVE  WordsInv'
<1> DEFINE n == Len(path)
<1>1. PICK c \in SubcommandsOf[cmd] : args # <<>> /\ args[1] = Word(c) /\ path' = Append(path, c)
  BY DEF RunSubcommand, Subcommand
<1>2. /\ pc = "decide" /\ pc' = "parse" /\ ~Over /\ ~Over'
      /\ rest' = Tail(args) \o unhandled /\ letters' = <<>> /\ skipped' = <<>> /\ unhandled' = <<>>
      /\ UNCHANGED <<line, taken, ran, called>>
  BY DEF RunSubcommand, SubArgv, effects, Over
<1>3. /\ n \in Nat \ {0} /\ cmd \in CommandNames /\ cmd = path[n] /\ (n = 1 \/ n > 1)
      /\ (n = 1 => cmd = Main) /\ path \in Seq(CommandNames) /\ line \in Lines
  BY <1>2, WhoReads DEF IInv, TypeInv, WordsInv
<1>4. c \in CommandNames
  <2>1. SubcommandsOf[cmd] \subseteq CommandNames
    BY <1>3, TreeAssumption
  <2>. QED BY <1>1, <2>1
<1>5. /\ Len(path') = n + 1 /\ path'[n + 1] = c /\ path' \in Seq(CommandNames)
      /\ \A k \in 1..n : path'[k] = path[k]
  BY <1>1, <1>3, <1>4, AppendProperties
<1>6. cmd' = c
  BY <1>5 DEF cmd, Last
<1>7. /\ Selected' = Selected /\ (Plain' <=> Plain) /\ Words' = Words
      /\ WordElements' = WordElements /\ FlagElements' = FlagElements
      /\ \A k : Named(k)' = Named(k) /\ WordsFrom(k)' = WordsFrom(k)
      /\ \A r : Due(r)' <=> Due(r)
  BY <1>2, SameLine
<1>8. MainInv'
  BY <1>2, <1>3, <1>5 DEF MainInv
<1>9. n = 1 => c \in Selected
  <2> SUFFICES ASSUME n = 1 PROVE c \in Selected
    OBVIOUS
  <2>1. Words # <<>> /\ Words[1] = Word(c)
    BY <1>1, <1>2 DEF WordsInv, MainInv, Word
  <2>2. Named(1) = c
    BY <2>1 DEF Named, Word
  <2>. QED BY <1>1, <1>3, <2>1, <2>2 DEF Selected
<1>10. WayInv'
  <2>1. path[1] = Main /\ \A k \in 1..(n - 1) : path[k + 1] \in SubcommandsOf[path[k]]
    BY <1>2 DEF WordsInv, WayInv
  <2>2. path'[1] = Main
    BY <1>3, <1>5, <2>1
  <2>3. ASSUME NEW k \in 1..n PROVE path'[k + 1] \in SubcommandsOf[path'[k]]
    <3>1. CASE k = n
      <4> HIDE DEF n
      <4>1. path'[n + 1] = c /\ path'[n] = cmd
        <5>1. n \in 1..n
          BY <1>3
        <5>. QED BY <1>3, <1>5, <5>1
      <4>. QED BY <1>1, <3>1, <4>1
    <3>2. CASE k # n
      <4>1. k \in 1..(n - 1) /\ k + 1 \in 1..n
        BY <1>3, <3>2
      <4> HIDE DEF n
      <4>. QED BY <1>5, <2>1, <4>1
    <3>. QED BY <3>1, <3>2
  <2>4. path'[2] \in Selected /\ c \in Below(path'[2])
    <3>1. CASE n = 1
      <4>1. path'[2] = c
        BY <1>5, <3>1
      <4>2. c \in Below(c)
        BY <1>4 DEF Below
      <4>. QED BY <1>9, <3>1, <4>1, <4>2
    <3>2. CASE n > 1
      <4>1. 2 \in 1..n
        BY <1>3, <3>2
      <4>2. path'[2] = path[2] /\ path[2] \in Selected /\ cmd \in Below(path[2])
        BY <1>2, <1>5, <3>2, <4>1 DEF WordsInv, WayInv
      <4>3. \A S \in SUBSET CommandNames :
              path[2] \in S /\ (\A e \in S : SubcommandsOf[e] \subseteq S) => c \in S
        BY <1>1, <4>2 DEF Below
      <4>. QED BY <1>4, <4>2, <4>3 DEF Below
    <3>. QED BY <1>3, <3>1, <3>2
  <2>5. (Len(path') - 1) = n
    BY <1>3, <1>5
  <2>. QED BY <1>5, <1>6, <1>7, <2>2, <2>3, <2>4, <2>5 DEF WayInv
<1>11. NoHandlerInv' /\ TakenInv'
  BY <1>2 DEF NoHandlerInv, WordsInv, TakenInv, Over
<1>12. ASSUME Plain PROVE PlainInv'
  <2>1. /\ args = WordsFrom(n) /\ unhandled \in Seq(FlagElements) /\ n <= Len(Words) + 1
        /\ \A k \in 1..n : Named(k - 1) = path[k]
        /\ RanInv
    BY <1>2, <1>12 DEF WordsInv, PlainInv, ArgsInv, FlagsInv, NamesInv
  <2>2. n \in 1..Len(Words) /\ n + 1 \in 1..(Len(Words) + 1) /\ Len(Words) \in Nat
    <3>1. Len(Words) \in Nat /\ n \in 1..(Len(Words) + 1)
      BY <1>3, <2>1, WordsFacts
    <3>2. n # Len(Words) + 1
      BY <1>1, <1>3, <2>1, <3>1, WordsFacts
    <3> HIDE DEF n
    <3>. QED BY <3>1, <3>2
  <2>3. /\ args[1] = Word(Named(n)) /\ Tail(args) = WordsFrom(n + 1)
        /\ WordsFrom(n + 1) \in Seq(WordElements)
    BY <1>3, <2>1, <2>2, WordsFacts
  <2>4. Named(n) = c
    BY <1>1, <2>3 DEF Word
  <2>5. NamesInv'
    <3>1. ASSUME NEW k \in 1..(n + 1) PROVE Named(k - 1) = path'[k]
      <4>1. CASE k = n + 1
        <5>1. k - 1 = n
          BY <1>3, <4>1
        <5>. QED BY <1>5, <2>4, <4>1, <5>1
      <4>2. CASE k # n + 1
        <5>1. k \in 1..n
          BY <1>3, <4>2
        <5>. QED BY <1>5, <2>1, <5>1
      <4>. QED BY <4>1, <4>2
    <3>2. n + 1 <= Len(Words) + 1
      BY <2>2
    <3>. QED BY <1>5, <1>7, <3>1, <3>2 DEF NamesInv
  <2>6. FlagsInv'
    BY <1>2, EmptySeq DEF FlagsInv
  <2>7. SubInv'
    <3> DEFINE ws == WordsFrom(n + 1)
    <3>1. rest' = ws \o unhandled /\ <<>> \o ws = ws
      BY <1>2, <2>3, ConcatEmptySeq
    <3>2. skipped' \o ws = WordsFrom(Len(path))'
      <4>1. WordsFrom(Len(path))' = SubSeq(Words, n + 1, Len(Words))
        BY <1>5, <1>7 DEF WordsFrom
      <4>. QED BY <1>2, <3>1, <4>1 DEF WordsFrom
    <3>3. /\ ws \in Seq(WordElements)' /\ unhandled \in Seq(FlagElements)'
          /\ skipped' \in Seq(WordElements)'
      BY <1>2, <1>7, <2>1, <2>3, EmptySeq
    <3> HIDE DEF ws
    <3>4. \E v \in Seq(WordElements)', fs \in Seq(FlagElements)' : Parts(v, fs)'
      BY <3>1, <3>2, <3>3 DEF Parts
    <3>. QED BY <1>2, <3>3, <3>4 DEF SubInv
  <2>8. RanInv'
    BY <1>2, <1>7, <2>1 DEF RanInv
  <2>. QED BY <1>2, <2>5, <2>6, <2>7, <2>8 DEF PlainInv, ArgsInv, OwnWordsInv
<1>. QED BY <1>2, <1>3, <1>7, <1>8, <1>10, <1>11, <1>12 DEF WordsInv

-----------------------------------------------------------------------------
(* The callbacks and the handler, and the words                            *)

LEMMA RunKeepsWords ==
  ASSUME WordsInv, pc \in {"callbacks", "handler", "handled"},
         pc' \in {"callbacks", "handler", "handled", "done"},
         pc' \in {"callbacks", "handler"} => pc \in {"callbacks", "handler"},
         UNCHANGED <<line, path, taken>>
  PROVE  /\ line' \in Lines /\ MainInv' /\ WayInv' /\ TakenInv' /\ (Plain' <=> Plain)
         /\ Plain => NamesInv' /\ FlagsInv' /\ SubInv' /\ ArgsInv' /\ OwnWordsInv'
<1>1. cmd' = cmd /\ ~Over
  BY DEF cmd, Over
<1>2. /\ Selected' = Selected /\ (Plain' <=> Plain) /\ Words' = Words
      /\ \A k : Named(k)' = Named(k) /\ WordsFrom(k)' = WordsFrom(k)
  BY SameLine
<1>3. MainInv' /\ TakenInv'
  BY DEF MainInv, WordsInv, TakenInv
<1>4. WayInv'
  BY <1>1, <1>2 DEF WordsInv, WayInv
<1>5. Plain => NamesInv'
  BY <1>1, <1>2 DEF WordsInv, PlainInv, NamesInv
<1>6. FlagsInv' /\ SubInv' /\ ArgsInv'
  BY DEF FlagsInv, SubInv, ArgsInv
<1>7. Plain => OwnWordsInv'
  <2> SUFFICES ASSUME Plain, pc' \in {"callbacks", "handler"}
               PROVE  /\ taken'[cmd] = WordsFrom(Len(path))'
                      /\ Len(path) <= Len(Words) => Named(Len(path))' \notin SubcommandsOf[cmd]
    BY <1>1, <1>2 DEF OwnWordsInv
  <2>1. /\ taken[cmd] = WordsFrom(Len(path))
        /\ Len(path) <= Len(Words) => Named(Len(path)) \notin SubcommandsOf[cmd]
    BY DEF WordsInv, PlainInv, OwnWordsInv
  <2>. QED BY <1>2, <2>1 DEF WordsFrom, Named
<1>. QED BY <1>2, <1>3, <1>4, <1>5, <1>6, <1>7 DEF WordsInv

LEMMA CallbackKeepsWords ==
  ASSUME IInv, WordsInv, RunCallback \/ SkipCallback \/ CallbacksDone
  PROVE  WordsInv'
<1>1. /\ pc = "callbacks" /\ pc' \in {"callbacks", "handler", "done"}
      /\ UNCHANGED <<line, path, taken, ran>>
  BY DEF RunCallback, SkipCallback, CallbacksDone, CheckErrors, Same
<1>2. /\ line' \in Lines /\ MainInv' /\ WayInv' /\ TakenInv' /\ (Plain' <=> Plain)
      /\ Plain => NamesInv' /\ FlagsInv' /\ SubInv' /\ ArgsInv' /\ OwnWordsInv'
  BY <1>1, RunKeepsWords
<1>3. Plain => RanInv'
  BY <1>1, SameLine DEF WordsInv, PlainInv, RanInv
<1>4. ASSUME RunCallback, Flag(cmd, pending[cmd][next]).exits PROVE ExitFlagCalled'
  <2> DEFINE e == <<cmd, pending[cmd][next]>>
  <2>1. called' = Append(called, e)
    BY <1>4 DEF RunCallback
  <2>2. DOMAIN called' = 1..(Len(called) + 1) /\ called'[Len(called) + 1] = e /\ Len(called) \in Nat
    <3> HIDE DEF e
    <3>. QED BY <2>1, AppendFacts, SeqFacts DEF IInv, TypeInv
  <2>3. Len(called) + 1 \in DOMAIN called'
    BY <2>2
  <2>4. Flag(e[1], e[2]).exits
    BY <1>4
  <2> HIDE DEF e
  <2>5. Flag(called'[Len(called) + 1][1], called'[Len(called) + 1][2]).exits
    BY <2>2, <2>4
  <2>. QED BY <2>3, <2>5 DEF ExitFlagCalled, Flag
<1>5. pc' = "done" => ok' = FALSE \/ (RunCallback /\ Flag(cmd, pending[cmd][next]).exits)
  <2>1. CASE RunCallback
    <3>1. pc' = "done" => Flag(cmd, pending[cmd][next]).exits
      BY <2>1 DEF RunCallback
    <3>. QED BY <2>1, <3>1
  <2>2. CASE SkipCallback \/ CallbacksDone
    BY <2>2 DEF SkipCallback, CallbacksDone, CheckErrors
  <2>. QED BY <2>1, <2>2
<1>6. NoHandlerInv'
  BY <1>1, <1>4, <1>5 DEF NoHandlerInv, Over
<1>. QED BY <1>2, <1>3, <1>6 DEF WordsInv, PlainInv

(* What a handler finds is what it is due. *)
LEMMA HandlerKeepsWords ==
  ASSUME IInv, WordsInv, RunHandler
  PROVE  WordsInv'
<1> DEFINE r == [command |-> cmd, args |-> taken[cmd]]
           n == Len(path)
<1>1. /\ pc = "handler" /\ pc' = "handled" /\ UNCHANGED <<line, path, taken>>
      /\ \/ ran' = Append(ran, r)
         \/ cmd \notin HasHandler /\ ran' = ran
  BY DEF RunHandler, Same
<1>2. /\ line' \in Lines /\ MainInv' /\ WayInv' /\ TakenInv' /\ (Plain' <=> Plain)
      /\ Plain => NamesInv' /\ FlagsInv' /\ SubInv' /\ ArgsInv' /\ OwnWordsInv'
  BY <1>1, RunKeepsWords
<1>3. ran = <<>>
  BY <1>1 DEF IInv, RunInv, Over
<1>4. cmd' = cmd
  BY <1>1 DEF cmd
<1>5. NoHandlerInv'
  <2> HIDE DEF r
  <2>1. Append(ran, r) # <<>>
    BY AppendFacts DEF IInv, TypeInv
  <2>. QED BY <1>1, <1>4, <2>1 DEF NoHandlerInv, Over
<1>6. ASSUME Plain PROVE Due(r)
  <2>1. /\ n \in Nat \ {0} /\ cmd = path[n] /\ line \in Lines
        /\ \A k \in 1..(n - 1) : path[k + 1] \in SubcommandsOf[path[k]]
        /\ \A k \in 1..n : Named(k - 1) = path[k]
        /\ n <= Len(Words) + 1
        /\ taken[cmd] = WordsFrom(n)
        /\ n <= Len(Words) => Named(n) \notin SubcommandsOf[cmd]
    <3>1. ~Over
      BY <1>1 DEF Over
    <3>. QED BY <1>1, <1>6, <3>1, WhoReads
         DEF WordsInv, WayInv, PlainInv, NamesInv, OwnWordsInv
  <2> DEFINE W == Len(Words)
             m == n - 1
  <2>2. W \in Nat /\ n \in 1..(W + 1) /\ Len(taken[cmd]) = W + 1 - n
    <3>1. W \in Nat
      BY <2>1, WordsFacts
    <3>2. n \in 1..(W + 1)
      BY <2>1, <3>1
    <3>. QED BY <2>1, <3>1, <3>2, WordsFacts
  <2>3. W - Len(taken[cmd]) = m /\ m \in Nat /\ m + 1 = n
    <3> DEFINE l == Len(taken[cmd])
    <3>1. l = W + 1 - n
      BY <2>2
    <3> HIDE DEF l, W, n
    <3>2. W - l = n - 1
      BY <2>2, <3>1
    <3>. QED BY <2>2, <3>2 DEF l
  <2> HIDE DEF W, n, m
  <2>4. \A k \in 1..m : Named(k) \in SubcommandsOf[Named(k - 1)]
    <3> SUFFICES ASSUME NEW k \in 1..m PROVE Named(k) \in SubcommandsOf[Named(k - 1)]
      OBVIOUS
    <3>1. k \in 1..n /\ k + 1 \in 1..n /\ (k + 1) - 1 = k /\ k \in 1..(n - 1)
      BY <2>3
    <3>2. Named(k) = path[k + 1] /\ Named(k - 1) = path[k]
      BY <2>1, <3>1
    <3>. QED BY <2>1, <3>1, <3>2
  <2>5. Named(m) = cmd
    <3>1. n \in 1..n /\ n - 1 = m
      BY <2>3
    <3>. QED BY <2>1, <3>1
  <2>6. m < W => n <= W
    BY <2>2, <2>3
  <2>7. r.command = cmd /\ r.args = taken[cmd]
    OBVIOUS
  <2>8. taken[cmd] = SubSeq(Words, m + 1, Len(Words))
    BY <2>1, <2>3 DEF WordsFrom
  <2> HIDE DEF r
  <2>9. Len(Words) - Len(r.args) = m
    BY <2>3, <2>7 DEF W
  <2>10. m < Len(Words) => Named(m + 1) \notin SubcommandsOf[r.command]
    BY <2>1, <2>3, <2>6, <2>7 DEF W
  <2> DEFINE d == Len(Words) - Len(r.args)
  <2>11. d = m
    BY <2>9
  <2> HIDE DEF d
  <2>12. /\ d >= 0 /\ r.args = SubSeq(Words, d + 1, Len(Words))
         /\ \A k \in 1..d : Named(k) \in SubcommandsOf[Named(k - 1)]
         /\ r.command = Named(d)
         /\ d < Len(Words) => Named(d + 1) \notin SubcommandsOf[r.command]
    BY <2>3, <2>4, <2>5, <2>7, <2>8, <2>10, <2>11
  <2>. QED BY <2>12 DEF Due, d
<1>7. Plain => RanInv'
  <2> HIDE DEF r
  <2>1. CASE ran' = ran
    BY <1>1, <2>1, SameLine DEF WordsInv, PlainInv, RanInv
  <2>2. CASE ran' = Append(ran, r)
    <3>1. Len(ran) = 0
      BY <1>3
    <3>2. DOMAIN ran' = 1..1 /\ ran'[1] = r
      BY <2>2, <3>1, AppendFacts DEF IInv, TypeInv
    <3>3. Plain => \A i \in DOMAIN ran' : ran'[i] = r
      BY <3>2
    <3>. QED BY <1>1, <1>6, <3>3, SameLine DEF RanInv
  <2>. QED BY <1>1, <2>1, <2>2
<1>. QED BY <1>2, <1>5, <1>7 DEF WordsInv, PlainInv

(* A command without a handler is main, or below the subcommand the line names. *)
LEMMA HandledKeepsWords ==
  ASSUME IInv, WordsInv, HandlerDone
  PROVE  WordsInv'
<1>1. pc = "handled" /\ pc' = "done" /\ UNCHANGED <<line, path, taken, ran>>
  BY DEF HandlerDone, Same
<1>2. /\ line' \in Lines /\ MainInv' /\ WayInv' /\ TakenInv' /\ (Plain' <=> Plain)
      /\ Plain => NamesInv' /\ FlagsInv' /\ SubInv' /\ ArgsInv' /\ OwnWordsInv'
  BY <1>1, RunKeepsWords
<1>3. Plain => RanInv'
  BY <1>1, SameLine DEF WordsInv, PlainInv, RanInv
<1>4. ASSUME ran = <<>> PROVE Excused
  <2>1. cmd \notin HasHandler /\ ~Over
    BY <1>1, <1>4 DEF WordsInv, NoHandlerInv, Over
  <2>2. Len(path) = 1 => cmd = Main
    BY <2>1, WhoReads
  <2>3. Len(path) > 1 => path[2] \in Selected /\ cmd \in Below(path[2])
    BY <2>1 DEF WordsInv, WayInv
  <2>4. Len(path) = 1 \/ Len(path) > 1
    BY <2>1, WhoReads
  <2>. QED BY <2>1, <2>2, <2>3, <2>4 DEF Excused
<1>5. Excused' <=> Excused
  BY <1>1, SameLine DEF Excused
<1>6. NoHandlerInv'
  BY <1>1, <1>4, <1>5 DEF NoHandlerInv, Over
<1>. QED BY <1>2, <1>3, <1>6 DEF WordsInv, PlainInv

LEMMA EndKeepsWords ==
  ASSUME WordsInv, Return \/ Exit
  PROVE  WordsInv'
<1>1. pc = "done" /\ pc' \in {"done", "exited"} /\ UNCHANGED <<line, taken, ran, called, ok>>
  BY DEF Return, Exit
<1>2. Over /\ Over' /\ (ExitFlagCalled' <=> ExitFlagCalled)
  BY <1>1 DEF Over, ExitFlagCalled
<1>3. Excused' <=> Excused
  BY <1>1, SameLine DEF Excused
<1>4. MainInv' /\ WayInv' /\ NoHandlerInv' /\ TakenInv'
  BY <1>1, <1>2, <1>3 DEF MainInv, WayInv, WordsInv, NoHandlerInv, TakenInv
<1>5. Plain' => PlainInv'
  BY <1>1, <1>2, SameLine
  DEF WordsInv, PlainInv, NamesInv, FlagsInv, SubInv, ArgsInv, OwnWordsInv, RanInv
<1>. QED BY <1>1, <1>4, <1>5 DEF WordsInv

LEMMA WordsStep == IInv /\ WordsInv /\ [Next]_vars => WordsInv'
<1> SUFFICES ASSUME IInv, WordsInv, [Next]_vars
             PROVE  WordsInv'
  OBVIOUS
<1>1. CASE SkipWord \/ ParseShort \/ ParseLong
  BY <1>1, ReadKeepsWords
<1>2. CASE CollectArgs
  BY <1>2, CollectKeepsWords
<1>3. CASE NothingLeft \/ TakeArgs
  BY <1>3, TakeKeepsWords
<1>4. CASE RejectUnknownFlag \/ RejectArgs
  BY <1>4, FailKeepsWords DEF RejectUnknownFlag, RejectArgs, NoSubcommand, Keep, effects
<1>5. CASE RunSubcommand
  BY <1>5, RunSubcommandKeepsWords
<1>6. CASE RunCallback \/ SkipCallback \/ CallbacksDone
  BY <1>6, CallbackKeepsWords
<1>7. CASE RunHandler
  BY <1>7, HandlerKeepsWords
<1>8. CASE HandlerDone
  BY <1>8, HandledKeepsWords
<1>9. CASE Return \/ Exit
  BY <1>9, EndKeepsWords
<1>10. CASE UNCHANGED vars
  <2>1. UNCHANGED <<line, pc, path, rest, letters, skipped, unhandled, args, taken, ran, called, ok>>
    BY <1>10 DEF vars, scan, effects
  <2>2. \A p : At(p)' <=> At(p)
    BY <2>1, SameLine DEF At, InCluster, Takes
  <2>3. Excused' <=> Excused
    BY <2>1, SameLine DEF Excused
  <2>4. MainInv' /\ WayInv' /\ NoHandlerInv' /\ TakenInv'
    BY <2>1, <2>2, <2>3, SameLine
    DEF WordsInv, MainInv, WayInv, NoHandlerInv, TakenInv, Over, cmd, ExitFlagCalled
  <2>5. Plain' => PlainInv'
    <3>1. WordsFrom(Len(path))' = WordsFrom(Len(path)) /\ Named(Len(path))' = Named(Len(path))
      BY <2>1, SameLine DEF WordsFrom, Named
    <3>2. SubInv => SubInv'
      BY <2>1, <3>1, SameLine DEF SubInv, Parts
    <3>3. OwnWordsInv => OwnWordsInv'
      BY <2>1, <3>1, SameLine DEF OwnWordsInv, cmd
    <3>4. NamesInv => NamesInv'
      BY <2>1, SameLine DEF NamesInv, Over
    <3>. QED BY <2>1, <3>1, <3>2, <3>3, <3>4, SameLine DEF WordsInv, PlainInv, FlagsInv, ArgsInv, RanInv
  <2>. QED BY <2>1, <2>4, <2>5 DEF WordsInv
<1>. QED BY <1>1, <1>2, <1>3, <1>4, <1>5, <1>6, <1>7, <1>8, <1>9, <1>10 DEF Next

LEMMA WordsInvariance == Spec => []WordsInv
BY WordsInitially, WordsStep, Invariance, PTL DEF Spec

-----------------------------------------------------------------------------
(* The theorems *)

(* A run that fails says why, and no command keeps an error nobody printed (FailureIsReported): *)
(* the commands with errors are on the path, and at the end only main's is, whose errors        *)
(* command_free printed.                                                                        *)
THEOREM FailureIsAlwaysReported == Spec => []FailureIsReported
<1>1. IInv => FailureIsReported
  <2> SUFFICES ASSUME IInv, pc = "exited", ~ok
               PROVE  printed # <<>> /\ \A c \in CommandNames : errors[c] = <<>>
    BY DEF FailureIsReported
  <2>1. Len(path) = 1 /\ errors[cmd] = <<>> /\ printed # <<>>
    BY DEF IInv, ErrorInv, Over
  <2>2. ASSUME NEW c \in Range(path) PROVE c = cmd
    <3>1. path \in Seq(CommandNames) /\ DOMAIN path = 1..1
      BY <2>1, LenProperties DEF IInv, TypeInv
    <3>2. PICK i \in DOMAIN path : c = path[i]
      BY DEF Range
    <3>3. i = 1 /\ cmd = path[1]
      BY <2>1, <3>1, <3>2 DEF cmd, Last
    <3>. QED BY <3>2, <3>3
  <2>3. \A c \in CommandNames : errors[c] # <<>> => c \in Range(path)
    BY DEF IInv, ErrorInv, Over
  <2>. QED BY <2>1, <2>2, <2>3
<1>. QED BY <1>1, Invariance, PTL

(* A run that succeeds and that no flag cut short printed nothing and ran one handler, or came to *)
(* a command without one: main, or one below the subcommand the line names                        *)
(* (SuccessRanOneHandler).                                                                        *)
THEOREM SuccessAlwaysRanOneHandler == Spec => []SuccessRanOneHandler
<1>1. IInv /\ WordsInv => SuccessRanOneHandler
  <2> SUFFICES ASSUME IInv, WordsInv, pc = "exited", ok, ~ExitFlagCalled
               PROVE  /\ printed = <<>>
                      /\ Len(ran) = 1 \/ (ran = <<>> /\ Excused)
    BY DEF SuccessRanOneHandler, Excused
  <2>1. printed = <<>> /\ Len(ran) <= 1
    BY DEF IInv, ErrorInv, RunInv, Over
  <2>2. ran = <<>> => Excused
    BY DEF WordsInv, NoHandlerInv, Over
  <2>3. Len(ran) \in Nat /\ (ran = <<>> <=> Len(ran) = 0)
    BY SeqFacts DEF IInv, TypeInv
  <2>4. Len(ran) = 0 \/ Len(ran) = 1
    <3> DEFINE n == Len(ran)
    <3>1. n \in Nat /\ n <= 1
      BY <2>1, <2>3
    <3> HIDE DEF n
    <3>2. n = 0 \/ n = 1
      BY <3>1
    <3>. QED BY <3>2 DEF n
  <2>. QED BY <2>1, <2>2, <2>3, <2>4
<1>. QED BY <1>1, Invariance, WordsInvariance, PTL

(* On a plain line, for every tree of commands and whatever the order of words and flags, a       *)
(* handler that runs belongs to the command the first words name and finds the other words, in    *)
(* order (HandlerGetsItsWords).  A line is plain if behind "--" it has only words and each of its *)
(* clusters has only letters main knows, or those behind one that takes them; about the others,   *)
(* where the words do get mixed up, it says nothing.                                              *)
THEOREM HandlerAlwaysGetsItsWords == Spec => []HandlerGetsItsWords
<1>1. WordsInv => HandlerGetsItsWords
  BY DEF WordsInv, PlainInv, RanInv, HandlerGetsItsWords
<1>. QED BY <1>1, WordsInvariance, PTL

(* When a handler is called, every callback pending for its command was called before, and none *)
(* left an error (CallbacksFirst).                                                              *)
THEOREM CallbacksAlwaysFirst == Spec => CallbacksFirst
<1> DEFINE First ==
      ran' # ran =>
        /\ errors[cmd] = <<>>
        /\ \A i \in DOMAIN pending[cmd] :
             Flag(cmd, pending[cmd][i]).callback =>
               \E j \in DOMAIN called : called[j] = <<cmd, pending[cmd][i]>>
<1>1. IInv /\ [Next]_vars => [First]_vars
  <2> SUFFICES ASSUME IInv, [Next]_vars, ran' # ran
               PROVE  First
    OBVIOUS
  <2>1. RunHandler
    BY DEF vars, Next, effects, Keep, Same, SkipWord, ParseShort, ParseLong, CollectArgs,
       NothingLeft, RejectUnknownFlag, RunSubcommand, RejectArgs, TakeArgs, RunCallback,
       SkipCallback, CallbacksDone, HandlerDone, Return, Exit
  <2>2. pc = "handler"
    BY <2>1 DEF RunHandler
  <2>. QED BY <2>2 DEF IInv, ErrorInv, RunInv, CalledIn
<1> HIDE DEF First
<1>2. Spec => [][First]_vars
  BY <1>1, Invariance, PTL DEF Spec
<1>. QED BY <1>2 DEF First, CallbacksFirst

(* After a handler, or after a flag that exits, no handler and no callback is called, in the    *)
(* command or in those above it (NothingRunsTwice).                                             *)
THEOREM NothingEverRunsTwice == Spec => NothingRunsTwice
<1> DEFINE Still == (ran # <<>> \/ ExitFlagCalled) => ran' = ran /\ called' = called
<1>1. IInv /\ [Next]_vars => [Still]_vars
  <2> SUFFICES ASSUME IInv, [Next]_vars, ran # <<>> \/ ExitFlagCalled
               PROVE  ran' = ran /\ called' = called
    OBVIOUS
  <2>1. pc = "handled" \/ Over
    BY DEF IInv, RunInv
  <2>2. ~RunHandler /\ ~RunCallback
    BY <2>1 DEF RunHandler, RunCallback, Over
  <2>. QED BY <2>2 DEF vars, Next, effects, Keep, Same, SkipWord, ParseShort, ParseLong,
       CollectArgs, NothingLeft, RejectUnknownFlag, RunSubcommand, RejectArgs, TakeArgs,
       SkipCallback, CallbacksDone, HandlerDone, Return, Exit
<1> HIDE DEF Still
<1>2. Spec => [][Still]_vars
  BY <1>1, Invariance, PTL DEF Spec
<1>. QED BY <1>2 DEF Still, NothingRunsTwice
=============================================================================
