-------------------------- MODULE CommandHelpProofs --------------------------
(***************************************************************************)
(* For any size of its buffer, any names that leave room for " ..." and any   *)
(* number of arguments, get_command_usage stays within the buffer, and cuts    *)
(* only a usage that does not fit, in one of two ways; for any tree and any     *)
(* options, ptkl_cli_run finds two that clash if there are two.               *)
(***************************************************************************)
EXTENDS CommandHelp, DataProofs

(* The lists a usage is made of hold commands and arguments. *)
Lists ==
  /\ subcommands \in [Commands -> Seq(Commands)]
  /\ args \in [Commands -> Seq(Args)]

(* What help has yet to show: commands, and arguments of the first of them. *)
Showing ==
  /\ phase \in {"help", "usage", "shown"} => pending \in Seq(Commands)
  /\ phase \in {"usage", "shown"} => pending # <<>>
  /\ phase = "usage" => left \in Seq(Args)

IInv == Lists /\ Showing /\ used \in Nat /\ UsageInBuffer

LEMMA Initially == HelpInit => IInv
BY DEF HelpInit, Init, IInv, Lists, Showing, UsageInBuffer

(* Building the tree and scanning it touch no usage. *)
LEMMA NextKeeps == ASSUME IInv, Next, UNCHANGED helpVars PROVE IInv'
<1>1. CASE \E c \in Commands : \E o \in Options : AddOption(c, o)
  BY <1>1 DEF AddOption, IInv, Lists, Showing, UsageInBuffer, helpVars
<1>2. CASE \E c \in Commands : \E s \in Commands : AddSubcommand(c, s)
  <2>1. PICK c \in Commands, s \in Commands : AddSubcommand(c, s)
    BY <1>2
  <2>2. Append(subcommands[c], s) \in Seq(Commands)
    BY AppendProperties DEF IInv, Lists
  <2>. QED BY <2>1, <2>2 DEF AddSubcommand, IInv, Lists, Showing, UsageInBuffer, helpVars
<1>3. CASE Run
  BY <1>3 DEF Run, tree, IInv, Lists, Showing, UsageInBuffer, helpVars
<1>4. CASE Scan
  BY <1>4 DEF Scan, InsertOption, NotUnique, ScanCommand, AllUnique, tree, IInv, Lists, Showing,
              UsageInBuffer, helpVars
<1>. QED BY <1>1, <1>2, <1>3, <1>4 DEF Next

LEMMA AddArgKeeps == ASSUME IInv, NEW c \in Commands, NEW a \in Args, AddArg(c, a) PROVE IInv'
<1>1. Append(args[c], a) \in Seq(Args)
  BY AppendProperties DEF IInv, Lists
<1>. QED BY <1>1 DEF AddArg, vars, tree, IInv, Lists, Showing, UsageInBuffer

LEMMA HelpKeeps == ASSUME IInv, NEW c \in Commands, Help(c) \/ HelpCrashes(c) PROVE IInv'
<1>1. CASE Help(c)
  <2>1. subcommands[c] \o subcommands[c] \in Seq(Commands)
    BY ConcatProperties DEF IInv, Lists
  <2>. QED BY <1>1, <2>1 DEF Help, tree, IInv, Lists, Showing, UsageInBuffer
<1>2. CASE HelpCrashes(c)
  BY <1>2 DEF HelpCrashes, tree, helpVars, IInv, Lists, Showing, UsageInBuffer
<1>. QED BY <1>1, <1>2

(* The command help is at is one, and its name and those of its arguments have a length. *)
LEMMA AtCommand ==
  ASSUME IInv, phase \in {"help", "usage", "shown"}, pending # <<>>
  PROVE  /\ Command \in Commands /\ Width[Command] \in Nat /\ Width[Command] + 4 < Size
         /\ args[Command] \in Seq(Args)
<1>1. Command \in Commands
  BY HeadTailProperties DEF IInv, Showing, Command
<1>. QED BY <1>1, HelpAssumption DEF IInv, Lists

LEMMA ShowArgKeeps == ASSUME IInv, ShowArg PROVE IInv'
<1>1. Head(left) \in Args /\ Tail(left) \in Seq(Args)
  BY HeadTailProperties DEF ShowArg, IInv, Showing
<1>2. Width[Head(left)] \in Nat /\ Size \in Nat
  BY <1>1, HelpAssumption
<1>3. used + 2 + Width[Head(left)] < Size - 1
  BY DEF ShowArg, Room, Capacity
<1>4. used' \in Nat /\ used' < Size
  BY <1>2, <1>3 DEF ShowArg, IInv
<1>. QED BY <1>1, <1>4 DEF ShowArg, tree, IInv, Lists, Showing, UsageInBuffer

LEMMA HelpStepKeeps == ASSUME IInv, HelpStep PROVE IInv'
<1>1. CASE BeginUsage
  <2>1. /\ Command \in Commands /\ Width[Command] \in Nat /\ Width[Command] + 4 < Size
        /\ args[Command] \in Seq(Args)
    BY <1>1, AtCommand DEF BeginUsage
  <2>. QED BY <1>1, <2>1, HelpAssumption DEF BeginUsage, tree, IInv, Lists, Showing, UsageInBuffer
<1>2. CASE ShowArg
  BY <1>2, ShowArgKeeps
<1>3. CASE Elide
  <2>1. Width[Command] \in Nat /\ Width[Command] + 4 < Size
    BY <1>3, AtCommand DEF Elide, IInv, Showing
  <2>. QED BY <1>3, <2>1 DEF Elide, tree, IInv, Lists, Showing, UsageInBuffer
<1>4. CASE EndUsage
  BY <1>4 DEF EndUsage, tree, helpVars, IInv, Lists, Showing, UsageInBuffer
<1>5. CASE NextSubcommand
  <2>1. Tail(pending) \in Seq(Commands)
    BY <1>5, HeadTailProperties DEF NextSubcommand, IInv, Showing
  <2>. QED BY <1>5, <2>1 DEF NextSubcommand, tree, IInv, Lists, Showing, UsageInBuffer
<1>6. CASE HelpReturns
  BY <1>6 DEF HelpReturns, tree, helpVars, IInv, Lists, Showing, UsageInBuffer
<1>. QED BY <1>1, <1>2, <1>3, <1>4, <1>5, <1>6 DEF HelpStep

LEMMA StepKeeps == IInv /\ [HelpNext]_allVars => IInv'
<1> SUFFICES ASSUME IInv, [HelpNext]_allVars PROVE IInv'
  OBVIOUS
<1>1. CASE Next /\ UNCHANGED helpVars
  BY <1>1, NextKeeps
<1>2. CASE \E c \in Commands : \E a \in Args : AddArg(c, a)
  BY <1>2, AddArgKeeps
<1>3. CASE \E c \in Commands : Help(c) \/ HelpCrashes(c)
  BY <1>3, HelpKeeps
<1>4. CASE HelpStep
  BY <1>4, HelpStepKeeps
<1>5. CASE UNCHANGED allVars
  BY <1>5 DEF allVars, vars, tree, helpVars, IInv, Lists, Showing, UsageInBuffer
<1>. QED BY <1>1, <1>2, <1>3, <1>4, <1>5 DEF HelpNext

LEMMA Invariance == HelpSpec => []IInv
BY Initially, StepKeeps, PTL DEF HelpSpec

(* However small the buffer and however many arguments a command has, its usage stays within *)
(* the buffer.                                                                              *)
THEOREM UsageStaysInBuffer == HelpSpec => []UsageInBuffer
<1>1. IInv => UsageInBuffer
  BY DEF IInv
<1>. QED BY <1>1, Invariance, PTL

-----------------------------------------------------------------------------
(* Which usages are cut                                                    *)

(* The length of a usage grows with every argument. *)
LEMMA LengthGrows ==
  ASSUME NEW c \in Commands, args[c] \in Seq(Args)
  PROVE  LET n == Len(args[c])
             length == UsageLength(c)
         IN /\ length \in [0..n -> Nat] /\ length[0] = Width[c]
            /\ \A i \in 1..n : length[i] = length[i - 1] + Width[args[c][i]] + 3
            /\ \A i \in 0..n : \A j \in 0..i : length[j] <= length[i]
<1> DEFINE n == Len(args[c])
           length == UsageLength(c)
           step == [i \in 1..n |-> [m \in Nat |-> m + Width[args[c][i]] + 3]]
           start == Width[c]
<1>1. n \in Nat /\ \A i \in 1..n : args[c][i] \in Args
  BY LenProperties, ElementOfSeq
<1>2. \A i \in 1..n : Width[args[c][i]] \in Nat
  BY <1>1, HelpAssumption
<1>3. step \in StepsOver(n, Nat)
  <2> HIDE DEF n
  <2>. QED BY <1>2 DEF StepsOver
<1>4. PICK f : Iterates(f, start, step, n, Nat)
  <2>1. n \in Nat /\ start \in Nat
    BY <1>1, HelpAssumption
  <2> HIDE DEF n, step, start
  <2>. QED BY <1>3, <2>1, Recursion
<1> HIDE DEF n
<1>5. \A i \in 1..n : step[i][f[i - 1]] = f[i - 1] + Width[args[c][i]] + 3
  <2>1. \A i \in 1..n : f[i - 1] \in Nat
    BY <1>1, <1>4 DEF Iterates
  <2>. QED BY <2>1
<1> HIDE DEF step
<1>6. f = [i \in 0..n |-> IF i = 0 THEN Width[c] ELSE f[i - 1] + Width[args[c][i]] + 3]
  <2>1. \A i \in 0..n : i # 0 => i \in 1..n
    BY <1>1
  <2>2. \A i \in 0..n : f[i] = IF i = 0 THEN Width[c] ELSE f[i - 1] + Width[args[c][i]] + 3
    BY <1>4, <1>5, <2>1 DEF Iterates
  <2>. QED BY <1>4, <2>2 DEF Iterates
<1>7. length = [i \in 0..n |-> IF i = 0 THEN Width[c] ELSE length[i - 1] + Width[args[c][i]] + 3]
  BY <1>6 DEF UsageLength, n
<1> HIDE DEF length, start
<1>8. ASSUME NEW i \in 0..n
      PROVE  length[i] = IF i = 0 THEN Width[c] ELSE length[i - 1] + Width[args[c][i]] + 3
  BY <1>7
<1>9. length[0] = Width[c]
  BY <1>1, <1>8
<1>10. \A i \in 1..n : length[i] = length[i - 1] + Width[args[c][i]] + 3
  BY <1>1, <1>8
<1> DEFINE S == {i \in 0..n : length[i] \in Nat}
<1>11. 0 \in S
  BY <1>1, <1>9, HelpAssumption
<1>12. ASSUME NEW i \in 0..(n - 1), i \in S PROVE i + 1 \in S
  <2>1. i + 1 \in 1..n /\ (i + 1) - 1 = i
    BY <1>1
  <2>2. length[i + 1] = length[i] + Width[args[c][i + 1]] + 3 /\ Width[args[c][i + 1]] \in Nat
    BY <1>2, <1>10, <2>1
  <2>. QED BY <1>12, <2>1, <2>2
<1>13. 0..n \subseteq S
  <2> HIDE DEF S
  <2>. QED BY <1>1, <1>11, <1>12, Counting
<1>14. length \in [0..n -> Nat]
  BY <1>7, <1>13
<1>15. ASSUME NEW i \in 0..n, NEW k \in 0..i PROVE length[k] <= length[i]
  <2> DEFINE D == {j \in 0..i : length[i - j] <= length[i]}
  <2>1. i \in Nat /\ i - 0 = i /\ 0 \in 0..i /\ length[i] \in Nat
    BY <1>1, <1>14
  <2>2. 0 \in D
    BY <2>1
  <2>3. ASSUME NEW j \in 0..(i - 1), j \in D PROVE j + 1 \in D
    <3> DEFINE m == i - j
    <3>1. m \in 1..n /\ m \in 0..n /\ m - 1 \in 0..n /\ i - (j + 1) = m - 1 /\ j + 1 \in 0..i
      BY <1>1
    <3>2. length[m - 1] \in Nat /\ length[m] \in Nat /\ Width[args[c][m]] \in Nat
      BY <1>2, <1>14, <3>1
    <3>3. length[m] = length[m - 1] + Width[args[c][m]] + 3 /\ length[m] <= length[i]
      BY <1>10, <2>3, <3>1
    <3> HIDE DEF m
    <3>4. length[m - 1] <= length[i]
      BY <2>1, <3>2, <3>3
    <3>. QED BY <3>1, <3>4
  <2>4. 0..i \subseteq D
    <3> HIDE DEF D
    <3>. QED BY <2>1, <2>2, <2>3, Counting
  <2>5. i - k \in 0..i /\ i - (i - k) = k
    BY <2>1
  <2>6. i - k \in D
    BY <2>4, <2>5
  <2>. QED BY <2>5, <2>6
<1>. QED BY <1>9, <1>10, <1>14, <1>15 DEF length, n

(* While a usage is put together, used is the length of what is there of it: left is the rest of *)
(* the arguments.                                                                                *)
Written == Len(args[Command]) - Len(left)
CutInv ==
  /\ phase = "usage" =>
       /\ Len(left) <= Len(args[Command])
       /\ \A j \in 1..Len(left) : left[j] = args[Command][Written + j]
       /\ used = UsageLength(Command)[Written]
  /\ UsageIsCutToFit

LEMMA ElsewhereNothingIsCut == ASSUME phase' \notin {"usage", "shown"} PROVE CutInv'
BY DEF CutInv, UsageIsCutToFit

LEMMA SameLengths ==
  ASSUME UNCHANGED <<args, pending>>
  PROVE  /\ Command' = Command /\ UsageLength(Command)' = UsageLength(Command)
         /\ args'[Command'] = args[Command]
BY DEF Command, UsageLength

LEMMA BeginUsageCuts == ASSUME IInv, BeginUsage PROVE CutInv'
<1> DEFINE c == Command
           n == Len(args[c])
<1>1. /\ phase' = "usage" /\ used' = Width[c] /\ left' = args[c] /\ UNCHANGED <<args, pending>>
  BY DEF BeginUsage
<1>2. c \in Commands /\ args[c] \in Seq(Args)
  BY AtCommand DEF BeginUsage
<1>3. n \in Nat /\ UsageLength(c)[0] = Width[c]
  BY <1>2, LengthGrows, LenProperties
<1>4. Command' = c /\ UsageLength(Command)' = UsageLength(c) /\ args'[Command'] = args[c]
  BY <1>1, SameLengths
<1>5. Written' = n - n
  BY <1>1, <1>4 DEF Written
<1>6. n - n = 0 /\ n <= n /\ \A j \in 1..n : 0 + j = j
  BY <1>3
<1> HIDE DEF n, c
<1>7. UsageIsCutToFit'
  BY <1>1 DEF UsageIsCutToFit
<1>. QED BY <1>1, <1>3, <1>4, <1>5, <1>6, <1>7 DEF CutInv, n

(* What is known while the arguments are added one by one *)
LEMMA AtArgument ==
  ASSUME IInv, CutInv, phase = "usage"
  PROVE  LET n == Len(args[Command])
             length == UsageLength(Command)
         IN /\ n \in Nat /\ left \in Seq(Args) /\ Len(left) \in Nat
            /\ Written \in 0..n /\ Written = n - Len(left)
            /\ used = length[Written] /\ used \in Nat /\ length[n] \in Nat
            /\ used < Size /\ Size \in Nat
            /\ left # <<>> =>
                 /\ Written + 1 \in 1..n /\ Head(left) = args[Command][Written + 1]
                 /\ Width[Head(left)] \in Nat
                 /\ length[Written + 1] = used + Width[Head(left)] + 3
                 /\ used + Width[Head(left)] + 3 <= length[n]
<1> DEFINE n == Len(args[Command])
           length == UsageLength(Command)
           k == Written
<1>1. Command \in Commands /\ args[Command] \in Seq(Args) /\ left \in Seq(Args)
  BY AtCommand DEF IInv, Showing
<1>2. n \in Nat /\ Len(left) \in Nat
  BY <1>1, LenProperties
<1>3. Len(left) <= n /\ k = n - Len(left)
  BY DEF CutInv, Written
<1>4. k \in 0..n
  BY <1>2, <1>3
<1>5. used = length[k] /\ used \in Nat /\ used < Size /\ Size \in Nat
  BY HelpAssumption DEF CutInv, IInv, UsageInBuffer
<1>6. /\ length \in [0..n -> Nat]
      /\ \A i \in 1..n : length[i] = length[i - 1] + Width[args[Command][i]] + 3
      /\ \A i \in 0..n : \A j \in 0..i : length[j] <= length[i]
  BY <1>1, LengthGrows
<1>7. length[n] \in Nat
  BY <1>2, <1>6
<1>8. ASSUME left # <<>>
      PROVE  /\ k + 1 \in 1..n /\ Head(left) = args[Command][k + 1]
             /\ Width[Head(left)] \in Nat
             /\ length[k + 1] = used + Width[Head(left)] + 3
             /\ used + Width[Head(left)] + 3 <= length[n]
  <2>1. Len(left) # 0 /\ Head(left) \in Args /\ Head(left) = left[1]
    BY <1>1, <1>8, EmptySeq, HeadTailProperties
  <2>2. 1 \in 1..Len(left) /\ k + 1 \in 1..n /\ k + 1 \in 0..n /\ (k + 1) - 1 = k
    BY <1>2, <1>3, <1>4, <2>1
  <2>3. Head(left) = args[Command][k + 1]
    BY <2>1, <2>2 DEF CutInv
  <2>4. Width[Head(left)] \in Nat
    BY <2>1, HelpAssumption
  <2>5. length[k + 1] = length[k] + Width[args[Command][k + 1]] + 3 /\ length[k + 1] <= length[n]
    <3>1. n \in 0..n /\ k + 1 \in 0..n
      BY <1>2, <2>2
    <3> HIDE DEF k, n, length
    <3>. QED BY <1>6, <2>2, <3>1
  <2>. QED BY <1>5, <2>2, <2>3, <2>4, <2>5
<1>. QED BY <1>1, <1>2, <1>3, <1>4, <1>5, <1>7, <1>8

LEMMA ShowArgCuts == ASSUME IInv, CutInv, ShowArg PROVE CutInv'
<1> DEFINE n == Len(args[Command])
           k == Written
           w == Width[Head(left)]
           length == UsageLength(Command)
<1>1. /\ phase = "usage" /\ phase' = "usage" /\ left # <<>> /\ left' = Tail(left)
      /\ used' = used + w + 3 /\ UNCHANGED <<args, pending>>
  BY DEF ShowArg
<1>2. /\ n \in Nat /\ left \in Seq(Args) /\ Len(left) \in Nat /\ k = n - Len(left) /\ k \in 0..n
      /\ used \in Nat /\ w \in Nat /\ length[k + 1] = used + w + 3
  BY <1>1, AtArgument
<1>3. Command' = Command /\ UsageLength(Command)' = length /\ args'[Command'] = args[Command]
  BY <1>1, SameLengths
<1>4. Len(left') = Len(left) - 1 /\ \A j \in 1..Len(left') : left'[j] = left[j + 1]
  BY <1>1, <1>2, HeadTailProperties
<1>5. Written' = k + 1
  BY <1>2, <1>3, <1>4 DEF Written
<1>6. \A j \in 1..Len(left') : left'[j] = args[Command][(k + 1) + j]
  <2> TAKE j \in 1..Len(left')
  <2>1. j + 1 \in 1..Len(left) /\ k + (j + 1) = (k + 1) + j
    <3> DEFINE m == Len(left)
    <3>1. m \in Nat /\ k \in Nat /\ j \in 1..(m - 1)
      BY <1>2, <1>4
    <3> HIDE DEF k, m
    <3>2. j + 1 \in 1..m /\ k + (j + 1) = (k + 1) + j
      BY <3>1
    <3>. QED BY <3>2 DEF m
  <2>2. left[j + 1] = args[Command][k + (j + 1)]
    BY <1>1, <2>1 DEF CutInv
  <2>. QED BY <1>4, <2>1, <2>2
<1>7. Len(left') <= n
  BY <1>2, <1>4
<1>8. used' = length[k + 1]
  BY <1>1, <1>2
<1>9. UsageIsCutToFit'
  BY <1>1 DEF UsageIsCutToFit
<1> HIDE DEF k, w, length
<1>. QED BY <1>3, <1>5, <1>6, <1>7, <1>8, <1>9 DEF CutInv, length

(* A usage is elided only if it does not fit and no argument ends with the buffer: those shown end *)
(* before its last character, and with the next one it would be past it. It ends at a full buffer *)
(* only if there was another argument.                                                            *)
LEMMA EndsCut == ASSUME IInv, CutInv, Elide \/ EndUsage PROVE CutInv'
<1> DEFINE n == Len(args[Command])
           k == Written
           w == Width[Head(left)]
           length == UsageLength(Command)
<1>1. phase = "usage" /\ phase' = "shown" /\ UNCHANGED <<args, pending>>
  BY DEF Elide, EndUsage, tree, helpVars
<1>2. /\ n \in Nat /\ left \in Seq(Args) /\ k = n - Len(left) /\ k \in 0..n
      /\ used = length[k] /\ used \in Nat /\ length[n] \in Nat /\ used < Size /\ Size \in Nat
      /\ left # <<>> => /\ k + 1 \in 1..n /\ w \in Nat
                        /\ length[k + 1] = used + w + 3 /\ used + w + 3 <= length[n]
  BY <1>1, AtArgument
<1>3. /\ length \in [0..n -> Nat]
      /\ \A i \in 0..n : \A j \in 0..i : length[j] <= length[i]
  BY <1>1, AtCommand, LengthGrows DEF IInv, Showing
<1>4. Command' = Command /\ UsageLength(Command)' = length /\ args'[Command'] = args[Command]
  BY <1>1, SameLengths
<1>5. FullEarly(Command)' <=> \E i \in 0..(n - 1) : length[i] = Size - 1
  BY <1>4 DEF FullEarly, Capacity
<1> SUFFICES used' = IF length[n] < Size THEN length[n]
                     ELSE IF \E i \in 0..(n - 1) : length[i] = Size - 1 THEN Size - 1
                     ELSE Width[Command] + 4
  BY <1>1, <1>4, <1>5 DEF CutInv, UsageIsCutToFit, Capacity
<1>6. CASE Elide
  <2>1. left # <<>> /\ used' = Width[Command] + 4 /\ used < Size - 1 /\ ~(used + 2 + w < Size - 1)
    BY <1>6 DEF Elide, Room, Capacity
  <2>2. /\ w \in Nat /\ used \in Nat /\ Size \in Nat /\ k \in 0..n /\ k + 1 \in 0..n /\ n \in Nat
        /\ length[k] = used /\ length[k + 1] = used + w + 3
        /\ length[k + 1] <= length[n] /\ length[n] \in Nat
    BY <1>2, <2>1
  <2>3. ASSUME NEW i \in 0..(n - 1), length[i] = Size - 1 PROVE FALSE
    <3>1. i \in 0..n /\ (i \in 0..k \/ k + 1 \in 0..i)
      <4> HIDE DEF k, n
      <4>. QED BY <2>2
    <3> HIDE DEF k, n, w, length
    <3>2. length[i] <= length[k] \/ length[k + 1] <= length[i]
      BY <1>3, <2>2, <3>1
    <3>. QED BY <2>1, <2>2, <2>3, <3>2
  <2>4. ~(length[n] < Size)
    <3> HIDE DEF k, n, w, length
    <3>. QED BY <2>1, <2>2
  <2> HIDE DEF n, length
  <2>. QED BY <2>1, <2>3, <2>4
<1>7. CASE EndUsage /\ left = <<>>
  <2>1. used' = used /\ Len(left) = 0
    BY <1>7, EmptySeq DEF EndUsage, helpVars
  <2>2. k = n
    BY <1>2, <2>1
  <2>. QED BY <1>2, <2>1, <2>2
<1>8. CASE EndUsage /\ left # <<>>
  <2>1. used' = used /\ used >= Size - 1
    BY <1>8 DEF EndUsage, helpVars, Capacity
  <2>2. /\ w \in Nat /\ used \in Nat /\ Size \in Nat /\ used < Size /\ n \in Nat /\ k \in 0..n
        /\ k + 1 \in 1..n /\ length[k] = used /\ used + w + 3 <= length[n] /\ length[n] \in Nat
    BY <1>2, <1>8
  <2> HIDE DEF w, k, n, length
  <2>3. ~(length[n] < Size) /\ used = Size - 1
    BY <2>1, <2>2
  <2>4. k \in 0..(n - 1)
    BY <2>2
  <2>. QED BY <2>1, <2>2, <2>3, <2>4
<1>. QED BY <1>6, <1>7, <1>8

LEMMA CutStep == IInv /\ CutInv /\ [HelpNext]_allVars => CutInv'
<1> SUFFICES ASSUME IInv, CutInv, [HelpNext]_allVars PROVE CutInv'
  OBVIOUS
<1>1. CASE Next /\ UNCHANGED helpVars
  <2>1. phase' \in {"build", "scan", "done"}
    BY <1>1 DEF Next, AddOption, AddSubcommand, Run, Scan, InsertOption, NotUnique, ScanCommand,
       AllUnique
  <2>. QED BY <2>1, ElsewhereNothingIsCut
<1>2. CASE \E c \in Commands : Help(c) \/ HelpCrashes(c) \/ \E a \in Args : AddArg(c, a)
  <2>1. phase' \in {"build", "help", "crashed"}
    BY <1>2 DEF Help, HelpCrashes, AddArg, vars
  <2>. QED BY <2>1, ElsewhereNothingIsCut
<1>3. CASE NextSubcommand \/ HelpReturns
  <2>1. phase' \in {"build", "help"}
    BY <1>3 DEF NextSubcommand, HelpReturns
  <2>. QED BY <2>1, ElsewhereNothingIsCut
<1>4. CASE BeginUsage
  BY <1>4, BeginUsageCuts
<1>5. CASE ShowArg
  BY <1>5, ShowArgCuts
<1>6. CASE Elide \/ EndUsage
  BY <1>6, EndsCut
<1>7. CASE UNCHANGED allVars
  BY <1>7 DEF allVars, vars, tree, helpVars, CutInv, Written, UsageIsCutToFit, FullEarly,
     UsageLength, Command
<1>. QED BY <1>1, <1>2, <1>3, <1>4, <1>5, <1>6, <1>7 DEF HelpNext, HelpStep

(* For any buffer and any arguments: a usage that fits is shown whole; another is elided, unless   *)
(* one of its arguments ends with the buffer, when the rest is dropped.                           *)
THEOREM UsageIsAlwaysCutToFit == HelpSpec => []UsageIsCutToFit
<1>1. HelpInit => CutInv
  BY DEF HelpInit, Init, CutInv, UsageIsCutToFit
<1>2. CutInv => UsageIsCutToFit
  BY DEF CutInv
<1>. QED BY <1>1, <1>2, CutStep, Invariance, PTL DEF HelpSpec

-----------------------------------------------------------------------------
(* What is under a command                                                 *)

(* A set of commands that has the subcommands of each *)
Closed(S) == S \subseteq Commands /\ \A d \in S : Range(subcommands[d]) \subseteq S

LEMMA CommandsInRange ==
  ASSUME subcommands \in [Commands -> Seq(Commands)], NEW d \in Commands
  PROVE  Range(subcommands[d]) \subseteq Commands
BY LenProperties, ElementOfSeq DEF Range

(* As many steps as there are commands reach all of it: a step that adds nothing is the last that  *)
(* could. So it is the least set that holds c and with each command its subcommands.               *)
LEMMA UnderIsLeast ==
  ASSUME subcommands \in [Commands -> Seq(Commands)], NEW c \in Commands
  PROVE  /\ c \in Under(c) /\ Closed(Under(c))
         /\ \A S : c \in S /\ Closed(S) => Under(c) \subseteq S
<1> DEFINE N == Cardinality(Commands)
           X == SUBSET Commands
           start == {c}
           grown(D) == D \cup UNION {Range(subcommands[d]) : d \in D}
           step == [n \in 1..N |-> [D \in X |-> grown(D)]]
<1>1. N \in Nat /\ IsFiniteSet(Commands) /\ start \in X
  BY CliAssumption, FS_CardinalityType
<1>2. \A D \in X : grown(D) \in X
  BY CommandsInRange
<1>3. step \in StepsOver(N, X)
  <2> HIDE DEF grown
  <2>. QED BY <1>2 DEF StepsOver
<1>4. PICK f : Iterates(f, start, step, N, X)
  <2>1. N \in Nat /\ start \in X
    BY <1>1
  <2> HIDE DEF N, X, start, step
  <2>. QED BY <1>3, <2>1, Recursion
<1>5. ASSUME NEW n \in 1..N PROVE step[n][f[n - 1]] = grown(f[n - 1])
  <2>1. f[n - 1] \in X
    <3>1. n - 1 \in 0..N
      BY <1>1
    <3> HIDE DEF X, N, step
    <3>. QED BY <1>4, <3>1 DEF Iterates
  <2> HIDE DEF grown, X
  <2>. QED BY <2>1
<1>6. f = [n \in 0..N |-> IF n = 0 THEN {c} ELSE f[n - 1] \cup UNION {Range(subcommands[d]) : d \in f[n - 1]}]
  <2> HIDE DEF step, X
  <2>1. \A n \in 0..N : n # 0 => n \in 1..N
    BY <1>1
  <2>2. \A n \in 0..N : f[n] = IF n = 0 THEN {c} ELSE f[n - 1] \cup UNION {Range(subcommands[d]) : d \in f[n - 1]}
    BY <1>4, <1>5, <2>1 DEF Iterates
  <2>. QED BY <1>4, <2>2 DEF Iterates
<1> DEFINE down == CHOOSE g : g = [n \in 0..N |-> IF n = 0 THEN {c}
                                   ELSE g[n - 1] \cup UNION {Range(subcommands[d]) : d \in g[n - 1]}]
<1>7. down = [n \in 0..N |-> IF n = 0 THEN {c} ELSE down[n - 1] \cup UNION {Range(subcommands[d]) : d \in down[n - 1]}]
  BY <1>6
<1>8. Under(c) = down[N]
  BY DEF Under
<1> HIDE DEF down
<1>9. down[0] = {c} /\ \A n \in 0..(N - 1) : down[n + 1] = grown(down[n])
  <2>1. ASSUME NEW n \in 0..N
        PROVE  down[n] = IF n = 0 THEN {c} ELSE down[n - 1] \cup UNION {Range(subcommands[d]) : d \in down[n - 1]}
    BY <1>7
  <2>2. 0 \in 0..N
    BY <1>1
  <2>3. \A n \in 0..(N - 1) : n + 1 \in 0..N /\ n + 1 # 0 /\ (n + 1) - 1 = n
    BY <1>1
  <2>. QED BY <2>1, <2>2, <2>3
<1> DEFINE Good(n) == /\ down[n] \in X /\ c \in down[n]
                      /\ Closed(down[n]) \/ Cardinality(down[n]) >= n + 1
                      /\ \A S : c \in S /\ Closed(S) => down[n] \subseteq S
           G == {n \in 0..N : Good(n)}
<1>10. 0 \in G
  <2>1. Cardinality({c}) = 1
    BY FS_Singleton
  <2>2. 0 \in 0..N /\ down[0] \in X /\ c \in down[0]
    BY <1>1, <1>9
  <2>3. Cardinality(down[0]) >= 0 + 1
    BY <1>9, <2>1
  <2>4. \A S : c \in S /\ Closed(S) => down[0] \subseteq S
    BY <1>9
  <2>. QED BY <2>2, <2>3, <2>4
<1>11. ASSUME NEW n \in 0..(N - 1), n \in G PROVE n + 1 \in G
  <2> DEFINE D == down[n]
             E == down[n + 1]
  <2>1. E = grown(D) /\ D \in X /\ c \in D /\ D \subseteq E
    BY <1>9, <1>11
  <2>2. E \in X
    <3> HIDE DEF D, E, X, grown
    <3>. QED BY <1>2, <2>1
  <2>3. Closed(E) \/ Cardinality(E) >= (n + 1) + 1
    <3>1. CASE D = E
      <4>1. \A d \in D : Range(subcommands[d]) \subseteq D
        BY <2>1, <3>1
      <4>. QED BY <2>1, <3>1, <4>1 DEF Closed
    <3>2. CASE D # E
      <4>1. ~Closed(D)
        <5> SUFFICES ASSUME Closed(D) PROVE E = D
          BY <3>2
        <5>1. \A d \in D : Range(subcommands[d]) \subseteq D
          BY DEF Closed
        <5> HIDE DEF D, E
        <5>. QED BY <2>1, <5>1
      <4>2. Cardinality(D) >= n + 1
        BY <1>11, <4>1
      <4>3. IsFiniteSet(E)
        BY <1>1, <2>2, FS_Subset
      <4>4. /\ IsFiniteSet(D) /\ Cardinality(D) <= Cardinality(E) /\ Cardinality(D) # Cardinality(E)
        <5> HIDE DEF D, E
        <5>. QED BY <2>1, <3>2, <4>3, FS_Subset
      <4>5. Cardinality(D) \in Nat /\ Cardinality(E) \in Nat
        BY <4>3, <4>4, FS_CardinalityType
      <4> HIDE DEF D, E
      <4>. QED BY <1>1, <4>2, <4>4, <4>5
    <3>. QED BY <3>1, <3>2
  <2>4. ASSUME NEW S, c \in S, Closed(S) PROVE E \subseteq S
    <3>1. D \subseteq S
      BY <1>11, <2>4
    <3>2. \A d \in S : Range(subcommands[d]) \subseteq S
      BY <2>4 DEF Closed
    <3> HIDE DEF D, E
    <3>. QED BY <2>1, <3>1, <3>2
  <2>5. n + 1 \in 0..N
    BY <1>1
  <2>. QED BY <2>1, <2>2, <2>3, <2>4, <2>5
<1>12. N \in G
  <2>1. N \in Nat /\ N \in 0..N
    BY <1>1
  <2> HIDE DEF G, N
  <2>2. 0..N \subseteq G
    BY <1>10, <1>11, <2>1, Counting
  <2>. QED BY <2>1, <2>2
<1>13. Closed(down[N])
  <2> SUFFICES ASSUME Cardinality(down[N]) >= N + 1 PROVE FALSE
    BY <1>12
  <2>1. down[N] \in SUBSET Commands
    BY <1>12
  <2>2. Cardinality(down[N]) <= N
    BY <1>1, <2>1, FS_Subset
  <2>3. Cardinality(down[N]) \in Nat
    BY <1>1, <2>1, FS_Subset, FS_CardinalityType
  <2>. QED BY <1>1, <2>2, <2>3
<1>. QED BY <1>8, <1>12, <1>13
-----------------------------------------------------------------------------
(* Sequences that hold nothing twice                                       *)

LEMMA RangeOfAppend ==
  ASSUME NEW T, NEW s \in Seq(T), NEW x \in T
  PROVE  /\ Append(s, x) \in Seq(T) /\ Range(Append(s, x)) = Range(s) \cup {x}
         /\ IsInjective(s) /\ x \notin Range(s) => IsInjective(Append(s, x))
<1> DEFINE n == Len(s)
           r == Append(s, x)
<1>1. n \in Nat /\ DOMAIN s = 1..n
  BY LenProperties
<1>2. r \in Seq(T) /\ Len(r) = n + 1 /\ r[n + 1] = x /\ \A i \in 1..n : r[i] = s[i]
  BY AppendProperties
<1>3. DOMAIN r = 1..(n + 1)
  BY <1>2, LenProperties
<1> HIDE DEF r, n
<1>4. \A i : i \in 1..(n + 1) <=> i \in 1..n \/ i = n + 1
  BY <1>1
<1>5. Range(r) = Range(s) \cup {x}
  BY <1>1, <1>2, <1>3, <1>4 DEF Range
<1>6. ASSUME IsInjective(s), x \notin Range(s) PROVE IsInjective(r)
  <2>1. \A i \in 1..n : s[i] # x
    BY <1>1, <1>6 DEF Range
  <2>2. \A i, j \in 1..n : s[i] = s[j] => i = j
    BY <1>1, <1>6 DEF IsInjective
  <2>. QED BY <1>2, <1>3, <1>4, <2>1, <2>2 DEF IsInjective
<1>. QED BY <1>2, <1>5, <1>6 DEF r

LEMMA HeadAndTail ==
  ASSUME NEW T, NEW s \in Seq(T), s # <<>>
  PROVE  /\ Head(s) \in T /\ Tail(s) \in Seq(T)
         /\ Range(s) = {Head(s)} \cup Range(Tail(s))
         /\ IsInjective(s) => Head(s) \notin Range(Tail(s)) /\ IsInjective(Tail(s))
<1> DEFINE n == Len(s)
           r == Tail(s)
<1>1. n \in Nat /\ n # 0 /\ DOMAIN s = 1..n /\ Head(s) = s[1]
  BY LenProperties, EmptySeq
<1>2. Head(s) \in T /\ r \in Seq(T) /\ Len(r) = n - 1 /\ \A i \in 1..Len(r) : r[i] = s[i + 1]
  BY HeadTailProperties
<1>3. DOMAIN r = 1..(n - 1)
  BY <1>2, LenProperties
<1> HIDE DEF r, n
<1>4. \A i \in 1..(n - 1) : r[i] = s[i + 1] /\ i + 1 \in 1..n /\ i + 1 # 1
  BY <1>1, <1>2
<1>5. \A i \in 1..n : i = 1 \/ (i - 1 \in 1..(n - 1) /\ (i - 1) + 1 = i)
  BY <1>1
<1>6. Range(s) = {Head(s)} \cup Range(r)
  <2>1. \A i \in 1..(n - 1) : r[i] \in Range(r) /\ r[i] \in Range(s)
    BY <1>1, <1>3, <1>4 DEF Range
  <2>2. \A i \in 1..n : s[i] \in {Head(s)} \cup Range(r)
    <3> TAKE i \in 1..n
    <3>1. CASE i = 1
      BY <1>1, <3>1
    <3>2. CASE i - 1 \in 1..(n - 1) /\ (i - 1) + 1 = i
      BY <1>4, <2>1, <3>2
    <3>. QED BY <1>5, <3>1, <3>2
  <2>3. Range(s) \subseteq {Head(s)} \cup Range(r)
    BY <1>1, <2>2 DEF Range
  <2>4. Head(s) \in Range(s)
    <3>1. 1 \in 1..n
      BY <1>1
    <3>. QED BY <1>1, <3>1 DEF Range
  <2>5. Range(r) \subseteq Range(s)
    BY <1>3, <2>1 DEF Range
  <2>. QED BY <2>3, <2>4, <2>5
<1>7. ASSUME IsInjective(s) PROVE Head(s) \notin Range(r) /\ IsInjective(r)
  <2>1. \A i, j \in 1..n : s[i] = s[j] => i = j
    BY <1>1, <1>7 DEF IsInjective
  <2>2. 1 \in 1..n
    BY <1>1
  <2>3. Head(s) \notin Range(r)
    BY <1>1, <1>3, <1>4, <2>1, <2>2 DEF Range
  <2>4. \A i, j \in 1..(n - 1) : i + 1 = j + 1 => i = j
    BY <1>1
  <2>5. IsInjective(r)
    BY <1>3, <1>4, <2>1, <2>4 DEF IsInjective
  <2>. QED BY <2>3, <2>5
<1>. QED BY <1>2, <1>6, <1>7 DEF r

-----------------------------------------------------------------------------
(* The scan for options that two commands define                           *)

ListsOf(T) == [Commands -> Seq(T)]
With(lists, c, x) == [lists EXCEPT ![c] = Append(@, x)]

(* No list has anything twice, and no two have anything in common. *)
EachOnce(lists) ==
  \A c \in Commands :
    /\ IsInjective(lists[c])
    /\ \A d \in Commands : d # c => Range(lists[c]) \cap Range(lists[d]) = {}

TreeInv ==
  /\ options \in ListsOf(Options) /\ EachOnce(options)
  /\ subcommands \in ListsOf(Commands) /\ EachOnce(subcommands)
  /\ Root \notin Added(subcommands)

(* Outside the scan nothing is left over that Run would start with. *)
IdleInv ==
  /\ phase \in {"build", "help"} => left = <<>>
  /\ phase \in {"build", "help", "usage", "shown"} => set = <<>>

OptionsOf(S) == UNION {Range(options[c]) : c \in S}

Unique(S) == \A o, e \in S : o # e => ~Clash(o, e)

(* S are the commands scanned so far, whose subcommands are pending if they are not scanned     *)
(* themselves. That each command is looked at but once needs no order: one that is pending or    *)
(* was scanned has, unless it is the root, its one parent in S, so what is under a command that  *)
(* is not in S is new.                                                                          *)
Scanned(S) ==
  /\ pending \in Seq(Commands) /\ IsInjective(pending) /\ Range(pending) \cap S = {}
  /\ Root \in S \cup Range(pending) /\ S \cup Range(pending) \subseteq Under(Root)
  /\ \A d \in S : Range(subcommands[d]) \subseteq S \cup Range(pending)
  /\ \A c \in S \cup Range(pending) : c = Root \/ \E d \in S : c \in Range(subcommands[d])

(* Their options are set, or left if they are those of the last. *)
Collected(S) ==
  /\ set \in Seq(Options) /\ left \in Seq(Options) /\ IsInjective(left)
  /\ Range(set) \cup Range(left) = OptionsOf(S) /\ Range(set) \cap Range(left) = {}
  /\ Unique(Range(set))

ScanInv ==
  /\ TreeInv /\ IdleInv
  /\ phase = "scan" => \E S \in SUBSET Commands : Scanned(S) /\ Collected(S)
  /\ AcceptsUniqueOptions

LEMMA AddedOnce ==
  ASSUME NEW T, NEW lists \in ListsOf(T), EachOnce(lists), NEW c \in Commands,
         NEW x \in T, x \notin Added(lists)
  PROVE  /\ With(lists, c, x) \in ListsOf(T) /\ EachOnce(With(lists, c, x))
         /\ Added(With(lists, c, x)) = Added(lists) \cup {x}
<1> DEFINE new == With(lists, c, x)
<1> USE DEF With
<1>1. \A d \in Commands : x \notin Range(lists[d]) /\ lists[d] \in Seq(T)
  BY DEF Added, ListsOf
<1>2. \A d \in Commands : new[d] = IF d = c THEN Append(lists[c], x) ELSE lists[d]
  BY DEF ListsOf
<1>3. /\ Append(lists[c], x) \in Seq(T) /\ Range(Append(lists[c], x)) = Range(lists[c]) \cup {x}
      /\ IsInjective(lists[c]) => IsInjective(Append(lists[c], x))
  BY <1>1, RangeOfAppend
<1>4. new \in ListsOf(T)
  BY <1>3 DEF ListsOf
<1> HIDE DEF new, With
<1>5. \A d \in Commands : Range(new[d]) = IF d = c THEN Range(lists[c]) \cup {x} ELSE Range(lists[d])
  BY <1>2, <1>3
<1>6. \A d \in Commands : IsInjective(new[d])
  BY <1>2, <1>3 DEF EachOnce
<1>7. \A d, e \in Commands : d # e => Range(new[d]) \cap Range(new[e]) = {}
  <2>1. \A d, e \in Commands : d # e => Range(lists[d]) \cap Range(lists[e]) = {}
    BY DEF EachOnce
  <2>. QED BY <1>1, <1>5, <2>1
<1>8. Added(new) = Added(lists) \cup {x}
  BY <1>5 DEF Added
<1>. QED BY <1>4, <1>6, <1>7, <1>8 DEF new, EachOnce

LEMMA ElsewhereNothingIsScanned ==
  ASSUME phase' \notin {"scan", "done"}, TreeInv', IdleInv' PROVE ScanInv'
BY DEF ScanInv, AcceptsUniqueOptions

LEMMA BuildScans ==
  ASSUME ScanInv, NEW c \in Commands,
         \/ \E o \in Options : AddOption(c, o)
         \/ \E s \in Commands : AddSubcommand(c, s)
  PROVE  ScanInv'
<1>1. CASE \E o \in Options : AddOption(c, o)
  <2>1. PICK o \in Options : AddOption(c, o)
    BY <1>1
  <2>2. options' \in ListsOf(Options) /\ EachOnce(options')
    <3>1. /\ o \notin Added(options) /\ options \in ListsOf(Options)
          /\ EachOnce(options) /\ options' = With(options, c, o)
      BY <2>1 DEF AddOption, ScanInv, TreeInv, With
    <3>. QED BY <3>1, AddedOnce
  <2>3. TreeInv' /\ IdleInv'
    BY <2>1, <2>2 DEF AddOption, ScanInv, TreeInv, IdleInv
  <2>. QED BY <2>1, <2>3, ElsewhereNothingIsScanned DEF AddOption
<1>2. CASE \E s \in Commands : AddSubcommand(c, s)
  <2>1. PICK s \in Commands : AddSubcommand(c, s)
    BY <1>2
  <2>2. /\ subcommands' \in ListsOf(Commands) /\ EachOnce(subcommands')
        /\ Added(subcommands') = Added(subcommands) \cup {s}
    <3>1. /\ s \notin Added(subcommands) /\ subcommands \in ListsOf(Commands)
          /\ EachOnce(subcommands) /\ subcommands' = With(subcommands, c, s)
      BY <2>1 DEF AddSubcommand, ScanInv, TreeInv, With
    <3>. QED BY <3>1, AddedOnce
  <2>3. TreeInv' /\ IdleInv'
    BY <2>1, <2>2 DEF AddSubcommand, ScanInv, TreeInv, IdleInv
  <2>. QED BY <2>1, <2>3, ElsewhereNothingIsScanned DEF AddSubcommand
<1>. QED BY <1>1, <1>2

LEMMA SameTree ==
  ASSUME UNCHANGED tree, TreeInv
  PROVE  /\ TreeInv' /\ Under(Root)' = Under(Root)
         /\ \A S : OptionsOf(S)' = OptionsOf(S)
BY DEF tree, TreeInv, ListsOf, Under, OptionsOf, EachOnce, Added

LEMMA UnderRoot ==
  ASSUME TreeInv
  PROVE  /\ Root \in Under(Root) /\ Closed(Under(Root))
         /\ \A S : Root \in S /\ Closed(S) => Under(Root) \subseteq S
BY UnderIsLeast, CliAssumption DEF TreeInv, ListsOf

LEMMA RunScans == ASSUME ScanInv, Run PROVE ScanInv'
<1>1. /\ phase = "build" /\ phase' = "scan" /\ pending' = <<Root>> /\ UNCHANGED <<tree, left, set>>
      /\ set = <<>> /\ left = <<>> /\ TreeInv
  BY DEF Run, ScanInv, IdleInv
<1>2. TreeInv' /\ Under(Root)' = Under(Root) /\ Root \in Under(Root)
  BY <1>1, SameTree, UnderRoot
<1>3. /\ pending' \in Seq(Commands) /\ IsInjective(pending') /\ Range(pending') = {Root}
  BY <1>1, CliAssumption DEF IsInjective, Range
<1>4. Scanned({})'
  BY <1>2, <1>3 DEF Scanned
<1>5. Collected({})'
  BY <1>1 DEF Collected, OptionsOf, Unique, IsInjective, Range
<1>6. IdleInv' /\ AcceptsUniqueOptions'
  BY <1>1 DEF IdleInv, AcceptsUniqueOptions
<1>. QED BY <1>2, <1>4, <1>5, <1>6 DEF ScanInv

LEMMA InsertScans == ASSUME ScanInv, InsertOption PROVE ScanInv'
<1>1. /\ phase = "scan" /\ phase' = "scan" /\ UNCHANGED <<tree, pending>> /\ left # <<>>
      /\ set' = Append(set, Head(left)) /\ left' = Tail(left) /\ TreeInv
      /\ \A e \in Range(set) : ~Clash(Head(left), e)
  BY DEF InsertOption, ScanInv
<1>2. PICK S \in SUBSET Commands : Scanned(S) /\ Collected(S)
  BY <1>1 DEF ScanInv
<1>3. TreeInv' /\ Under(Root)' = Under(Root) /\ OptionsOf(S)' = OptionsOf(S)
  BY <1>1, SameTree
<1>4. Scanned(S)'
  BY <1>1, <1>2, <1>3 DEF Scanned, tree
<1> DEFINE o == Head(left)
<1>5. /\ o \in Options /\ left' \in Seq(Options) /\ Range(left) = {o} \cup Range(left')
      /\ o \notin Range(left') /\ IsInjective(left')
  BY <1>1, <1>2, HeadAndTail DEF Collected
<1>6. set' \in Seq(Options) /\ Range(set') = Range(set) \cup {o}
  BY <1>1, <1>2, <1>5, RangeOfAppend DEF Collected
<1>7. \A e, f : Clash(e, f) <=> Clash(f, e)
  BY DEF Clash
<1> HIDE DEF o
<1>8. Unique(Range(set'))
  BY <1>1, <1>2, <1>6, <1>7 DEF Collected, Unique, o
<1>9. Collected(S)'
  BY <1>2, <1>3, <1>5, <1>6, <1>8 DEF Collected
<1>10. IdleInv' /\ AcceptsUniqueOptions'
  BY <1>1 DEF IdleInv, AcceptsUniqueOptions
<1>. QED BY <1>1, <1>3, <1>4, <1>9, <1>10 DEF ScanInv

LEMMA NotUniqueScans == ASSUME ScanInv, NotUnique PROVE ScanInv'
<1>1. /\ phase = "scan" /\ phase' = "done" /\ status' = 1 /\ UNCHANGED <<tree, pending, left, set>>
      /\ left # <<>> /\ TreeInv
  BY DEF NotUnique, ScanInv
<1>2. PICK S \in SUBSET Commands : Scanned(S) /\ Collected(S)
  BY <1>1 DEF ScanInv
<1>3. TreeInv' /\ Under(Root)' = Under(Root)
  BY <1>1, SameTree
<1> DEFINE o == Head(left)
<1>4. PICK e \in Range(set) : Clash(o, e)
  BY DEF NotUnique
<1>5. o \in Options /\ o \in Range(left)
  BY <1>1, <1>2, HeadAndTail DEF Collected
<1>6. o \in OptionsOf(S) /\ e \in OptionsOf(S) /\ o # e
  BY <1>2, <1>4, <1>5 DEF Collected
<1>7. S \subseteq Under(Root)
  BY <1>2 DEF Scanned
<1> DEFINE defined == UNION {Range(options[c]) : c \in Under(Root)}
<1>8. o \in defined /\ e \in defined
  BY <1>6, <1>7 DEF OptionsOf
<1>9. e \in Options
  <2>1. Range(set) \subseteq Options
    BY <1>2, LenProperties, ElementOfSeq DEF Collected, Range
  <2>. QED BY <1>4, <2>1
<1>10. \/ Short[o] = Short[e] /\ Short[o] # NoLong
       \/ Long[o] = Long[e] /\ Long[o] # NoLong
  BY <1>4, <1>5, CliAssumption DEF Clash
<1> HIDE DEF o
<1>11. AcceptsUniqueOptions'
  <2>1. defined' = defined
    BY <1>1, <1>3 DEF tree
  <2>2. \/ \E p, q \in defined : p # q /\ Short[p] = Short[q] /\ Short[p] # NoLong
        \/ \E p, q \in defined : p # q /\ Long[p] = Long[q] /\ Long[p] # NoLong
    <3> HIDE DEF defined
    <3>. QED BY <1>6, <1>8, <1>10
  <2>. QED BY <1>1, <2>1, <2>2 DEF AcceptsUniqueOptions
<1>12. IdleInv'
  BY <1>1 DEF IdleInv
<1>. QED BY <1>1, <1>3, <1>11, <1>12 DEF ScanInv

LEMMA AllUniqueScans == ASSUME ScanInv, AllUnique PROVE ScanInv'
<1>1. /\ phase = "scan" /\ phase' = "done" /\ status' = 0 /\ UNCHANGED <<tree, pending, left, set>>
      /\ left = <<>> /\ pending = <<>> /\ TreeInv
  BY DEF AllUnique, ScanInv
<1>2. PICK S \in SUBSET Commands : Scanned(S) /\ Collected(S)
  BY <1>1 DEF ScanInv
<1>3. TreeInv' /\ Under(Root)' = Under(Root)
  BY <1>1, SameTree
<1>4. Range(pending) = {} /\ Range(left) = {}
  BY <1>1 DEF Range
<1>5. Closed(S) /\ Root \in S /\ S \subseteq Under(Root)
  BY <1>2, <1>4 DEF Scanned, Closed
<1>6. Under(Root) = S
  BY <1>1, <1>5, UnderRoot
<1> DEFINE defined == UNION {Range(options[c]) : c \in Under(Root)}
<1>7. defined = Range(set)
  BY <1>2, <1>4, <1>6 DEF Collected, OptionsOf
<1>8. \A p, q \in defined : p # q => Short[p] # Short[q] /\ (Long[p] # NoLong => Long[p] # Long[q])
  <2> HIDE DEF defined
  <2>. QED BY <1>2, <1>7 DEF Collected, Unique, Clash
<1>9. AcceptsUniqueOptions'
  <2>1. defined' = defined
    BY <1>1, <1>3 DEF tree
  <2>2. /\ ~\E p, q \in defined : p # q /\ Short[p] = Short[q] /\ Short[p] # NoLong
        /\ ~\E p, q \in defined : p # q /\ Long[p] = Long[q] /\ Long[p] # NoLong
    <3> HIDE DEF defined
    <3>. QED BY <1>8
  <2>. QED BY <1>1, <2>1, <2>2 DEF AcceptsUniqueOptions
<1>10. IdleInv'
  BY <1>1 DEF IdleInv
<1>. QED BY <1>1, <1>3, <1>9, <1>10 DEF ScanInv

LEMMA ScanCommandScans == ASSUME ScanInv, ScanCommand PROVE ScanInv'
<1>0. PICK h : h = Head(pending)
  OBVIOUS
<1> DEFINE rest == Tail(pending)
           under == Range(subcommands[h])
<1>1. /\ phase = "scan" /\ phase' = "scan" /\ left = <<>> /\ pending # <<>> /\ UNCHANGED <<tree, set>>
      /\ left' = options[h] /\ pending' = subcommands[h] \o rest /\ TreeInv
  BY <1>0 DEF ScanCommand, ScanInv
<1>2. PICK S \in SUBSET Commands : Scanned(S) /\ Collected(S)
  BY <1>1 DEF ScanInv
<1>3. /\ h \in Commands /\ rest \in Seq(Commands) /\ Range(pending) = {h} \cup Range(rest)
      /\ h \notin Range(rest) /\ IsInjective(rest) /\ h \notin S
  BY <1>0, <1>1, <1>2, HeadAndTail DEF Scanned
<1>4. /\ subcommands[h] \in Seq(Commands) /\ IsInjective(subcommands[h]) /\ under \subseteq Commands
      /\ options[h] \in Seq(Options) /\ IsInjective(options[h])
  BY <1>1, <1>3, CommandsInRange DEF TreeInv, EachOnce, ListsOf
<1> DEFINE S1 == S \cup {h}
<1> HIDE DEF rest
<1>5. under \cap (S \cup Range(pending)) = {}
  <2> SUFFICES ASSUME NEW s \in under, s \in S \cup Range(pending) PROVE FALSE
    OBVIOUS
  <2>1. s # Root
    BY <1>1, <1>3 DEF TreeInv, Added
  <2>2. PICK d \in S : s \in Range(subcommands[d])
    BY <1>2, <2>1 DEF Scanned
  <2>3. d = h
    BY <1>1, <1>3, <2>2 DEF TreeInv, EachOnce
  <2>. QED BY <1>3, <2>2, <2>3
<1>6. /\ pending' \in Seq(Commands) /\ IsInjective(pending')
      /\ Range(pending') = under \cup Range(rest)
  BY <1>1, <1>3, <1>4, <1>5, Concatenation
<1>7. TreeInv' /\ Under(Root)' = Under(Root) /\ OptionsOf(S1)' = OptionsOf(S1)
  BY <1>1, SameTree
<1>8. Scanned(S1)'
  <2>1. Range(pending') \cap S1 = {}
    BY <1>2, <1>3, <1>5, <1>6 DEF Scanned
  <2>2. S1 \cup Range(pending') = S \cup Range(pending) \cup under
    BY <1>3, <1>6
  <2>3. under \subseteq Under(Root)
    BY <1>1, <1>2, <1>3, UnderRoot DEF Scanned, Closed
  <2>4. Root \in S1 \cup Range(pending') /\ S1 \cup Range(pending') \subseteq Under(Root)
    BY <1>2, <2>2, <2>3 DEF Scanned
  <2>5. \A d \in S1 : Range(subcommands[d]) \subseteq S1 \cup Range(pending')
    BY <1>2, <2>2 DEF Scanned
  <2>6. \A c \in S1 \cup Range(pending') : c = Root \/ \E d \in S1 : c \in Range(subcommands[d])
    BY <1>2, <2>2 DEF Scanned
  <2>. QED BY <1>1, <1>6, <1>7, <2>1, <2>4, <2>5, <2>6 DEF Scanned, tree
<1>9. Collected(S1)'
  <2>1. Range(left) = {}
    BY <1>1 DEF Range
  <2>2. Range(set) = OptionsOf(S) /\ set \in Seq(Options) /\ Unique(Range(set))
    BY <1>2, <2>1 DEF Collected
  <2>3. Range(set) \cup Range(options[h]) = OptionsOf(S1)
    BY <2>2 DEF OptionsOf
  <2>4. Range(set) \cap Range(options[h]) = {}
    BY <1>1, <1>2, <1>3, <2>2 DEF OptionsOf, TreeInv, EachOnce
  <2>. QED BY <1>1, <1>4, <1>7, <2>2, <2>3, <2>4 DEF Collected, Unique, Clash
<1>10. IdleInv' /\ AcceptsUniqueOptions'
  BY <1>1 DEF IdleInv, AcceptsUniqueOptions
<1>11. S1 \in SUBSET Commands
  BY <1>3
<1> HIDE DEF S1
<1>. QED BY <1>1, <1>7, <1>8, <1>9, <1>10, <1>11 DEF ScanInv

(* Nothing help does is seen by a scan. *)
LEMMA HelpScans ==
  ASSUME ScanInv,
         \/ \E c \in Commands : Help(c) \/ HelpCrashes(c) \/ \E a \in Args : AddArg(c, a)
         \/ HelpStep
  PROVE  ScanInv'
<1>1. TreeInv' /\ IdleInv' /\ phase' \notin {"scan", "done"}
  <2>1. UNCHANGED tree /\ TreeInv
    BY DEF Help, HelpCrashes, AddArg, HelpStep, BeginUsage, ShowArg, Elide, EndUsage, NextSubcommand,
           HelpReturns, vars, ScanInv
  <2>2. phase' \notin {"scan", "done"}
    BY DEF Help, HelpCrashes, AddArg, HelpStep, BeginUsage, ShowArg, Elide, EndUsage, NextSubcommand,
           HelpReturns, vars
  <2>3. CASE \E c \in Commands : Help(c) \/ HelpCrashes(c) \/ \E a \in Args : AddArg(c, a)
    <3>1. PICK c \in Commands : Help(c) \/ HelpCrashes(c) \/ \E a \in Args : AddArg(c, a)
      BY <2>3
    <3>2. IdleInv'
      <4>1. CASE Help(c)
        BY <4>1 DEF Help, ScanInv, IdleInv
      <4>2. CASE HelpCrashes(c)
        BY <4>2 DEF HelpCrashes, ScanInv, IdleInv
      <4>3. CASE \E a \in Args : AddArg(c, a)
        BY <4>3 DEF AddArg, vars, ScanInv, IdleInv
      <4>. QED BY <3>1, <4>1, <4>2, <4>3
    <3>. QED BY <2>1, <2>2, <3>2, SameTree
  <2>4. CASE HelpStep
    <3>1. IdleInv'
      BY <2>4 DEF HelpStep, BeginUsage, ShowArg, Elide, EndUsage, NextSubcommand, HelpReturns,
                  ScanInv, IdleInv
    <3>. QED BY <2>1, <2>2, <3>1, SameTree
  <2>. QED BY <2>3, <2>4
<1>. QED BY <1>1, ElsewhereNothingIsScanned

LEMMA ScanStep == ScanInv /\ [HelpNext]_allVars => ScanInv'
<1> SUFFICES ASSUME ScanInv, [HelpNext]_allVars PROVE ScanInv'
  OBVIOUS
<1>1. CASE \E c \in Commands : \/ \E o \in Options : AddOption(c, o)
                               \/ \E s \in Commands : AddSubcommand(c, s)
  BY <1>1, BuildScans
<1>2. CASE Run
  BY <1>2, RunScans
<1>3. CASE Scan
  BY <1>3, InsertScans, NotUniqueScans, ScanCommandScans, AllUniqueScans DEF Scan
<1>4. CASE \/ \E c \in Commands : Help(c) \/ HelpCrashes(c) \/ \E a \in Args : AddArg(c, a)
           \/ HelpStep
  BY <1>4, HelpScans
<1>5. CASE UNCHANGED allVars
  <2>1. UNCHANGED <<tree, phase, pending, left, set, status>>
    BY <1>5 DEF allVars, vars
  <2>2. TreeInv' /\ Under(Root)' = Under(Root) /\ \A S : OptionsOf(S)' = OptionsOf(S)
    BY <2>1, SameTree DEF ScanInv
  <2>3. \A S : Scanned(S) /\ Collected(S) => Scanned(S)' /\ Collected(S)'
    BY <2>1, <2>2 DEF Scanned, Collected, Unique, Clash, tree
  <2>4. IdleInv' /\ AcceptsUniqueOptions'
    BY <2>1, <2>2 DEF ScanInv, IdleInv, AcceptsUniqueOptions, tree
  <2>. QED BY <2>1, <2>2, <2>3, <2>4 DEF ScanInv
<1>. QED BY <1>1, <1>2, <1>3, <1>4, <1>5 DEF HelpNext, Next

(* Whatever tree of commands main builds, ptkl_cli_run accepts it exactly if no two options of the *)
(* commands under the root share a letter or a long name.                                        *)
THEOREM OptionsAreScannedForClashes == HelpSpec => []AcceptsUniqueOptions
<1>1. HelpInit => ScanInv
  <2> SUFFICES ASSUME HelpInit PROVE ScanInv
    OBVIOUS
  <2>1. TreeInv
    <3>1. \A c \in Commands : options[c] = <<>> /\ subcommands[c] = <<>>
      BY DEF HelpInit, Init
    <3>2. IsInjective(<<>>) /\ Range(<<>>) = {}
      BY DEF IsInjective, Range
    <3>3. EachOnce(options) /\ EachOnce(subcommands) /\ Root \notin Added(subcommands)
      BY <3>1, <3>2 DEF EachOnce, Added
    <3>. QED BY <3>3 DEF HelpInit, Init, TreeInv, ListsOf
  <2>. QED BY <2>1 DEF HelpInit, Init, ScanInv, IdleInv, AcceptsUniqueOptions
<1>2. ScanInv => AcceptsUniqueOptions
  BY DEF ScanInv
<1>. QED BY <1>1, <1>2, ScanStep, PTL DEF HelpSpec
=============================================================================
