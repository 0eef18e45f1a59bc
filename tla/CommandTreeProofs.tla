------------------------- MODULE CommandTreeProofs -------------------------
(***************************************************************************)
(* For any number of commands, names and groups, in any order: what          *)
(* command_run can find by name is listed and what is listed can be found,   *)
(* but for what found no memory; help lists each command once and under its  *)
(* group, and settings come from the nearest command above.                  *)
(***************************************************************************)
EXTENDS CommandTree, DataProofs

(* The fields have their types, and until main frees the root no map leads to a struct that is *)
(* not live and no list has one: command_add's new command is one neither knows yet.           *)
Shape ==
  /\ live \subseteq Commands
  /\ parent \in [Commands -> Commands \cup {None}]
  /\ name \in [Commands -> Names \cup {None}]
  /\ group \in [Commands -> Groups \cup {None}]
  /\ commands \in [Commands -> [Names -> Commands \cup {None}]]
  /\ ordered \in [Commands -> Seq(Commands)]
KnownAreLive ==
  ~freed => \A p \in Commands :
    /\ \A n \in Names : commands[p][n] # None => commands[p][n] \in live
    /\ \A i \in DOMAIN ordered[p] : ordered[p][i] \in live
ListedHaveNames == \A p \in Commands : \A i \in DOMAIN ordered[p] : name[ordered[p][i]] \in Names
IInv == Shape /\ KnownAreLive /\ ListedHaveNames /\ FoundIsListed

(* main's command alone has no subcommand to find. *)
LEMMA Initially == Init => IInv
<1> SUFFICES ASSUME Init PROVE IInv
  OBVIOUS
<1>1. <<>> \in Seq(Commands)
  BY EmptySeq
<1>2. Shape
  BY <1>1, TreeAssumption DEF Init, Shape
<1>3. \A p \in Commands : DOMAIN ordered[p] = {} /\ \A n \in Names : commands[p][n] = None
  BY DEF Init
<1>4. KnownAreLive /\ ListedHaveNames /\ FoundIsListed
  BY <1>3 DEF KnownAreLive, ListedHaveNames, FoundIsListed
<1>. QED BY <1>2, <1>4 DEF IInv

(* vector_add leaves the entries a list had where they stand, and puts the new one behind them  *)
(* unless it is refused.                                                                        *)
LEMMA ListGrows ==
  ASSUME Shape, NEW p \in Commands, NEW n \in Names, NEW c \in Commands, Listed(p, n, c)
  PROVE  /\ ordered' \in [Commands -> Seq(Commands)]
         /\ unlisted \subseteq unlisted'
         /\ \A q \in Commands : \A i \in DOMAIN ordered[q] :
              i \in DOMAIN ordered'[q] /\ ordered'[q][i] = ordered[q][i]
         /\ \A q \in Commands : \A i \in DOMAIN ordered'[q] :
              i \in DOMAIN ordered[q] \/ (q = p /\ ordered'[q][i] = c)
         /\ \/ c \in unlisted'
            \/ \E k \in DOMAIN ordered'[p] :
                 ordered'[p][k] = c /\ \A j \in DOMAIN ordered[p] : k > j
<1>1. CASE unlisted' = unlisted \cup {c} /\ ordered' = ordered
  BY <1>1 DEF Shape
<1>2. CASE ordered' = [ordered EXCEPT ![p] = Append(@, c)] /\ unlisted' = unlisted
  <2> DEFINE l == Len(ordered[p])
  <2>1. ordered \in [Commands -> Seq(Commands)] /\ ordered[p] \in Seq(Commands)
    BY DEF Shape
  <2>2. /\ Append(ordered[p], c) \in Seq(Commands) /\ Len(Append(ordered[p], c)) = l + 1
        /\ \A i \in 1..l : Append(ordered[p], c)[i] = ordered[p][i]
        /\ Append(ordered[p], c)[l + 1] = c
    BY <2>1, AppendProperties
  <2>3. ordered'[p] = Append(ordered[p], c) /\ \A q \in Commands : q # p => ordered'[q] = ordered[q]
    BY <1>2, <2>1
  <2>4. /\ l \in Nat /\ DOMAIN ordered[p] = 1..l /\ DOMAIN ordered'[p] = 1..(l + 1)
        /\ \A i \in 1..l : ordered'[p][i] = ordered[p][i]
        /\ ordered'[p][l + 1] = c
    BY <2>1, <2>2, <2>3, LenProperties
  <2>5. ordered' \in [Commands -> Seq(Commands)]
    BY <1>2, <2>1, <2>2
  <2> HIDE DEF l
  <2>6. /\ l + 1 \in 1..(l + 1) /\ \A j \in 1..l : l + 1 > j /\ j \in 1..(l + 1)
        /\ \A i \in 1..(l + 1) : i \in 1..l \/ i = l + 1
    BY <2>4
  <2>7. \E k \in DOMAIN ordered'[p] : ordered'[p][k] = c /\ \A j \in DOMAIN ordered[p] : k > j
    BY <2>4, <2>6
  <2>8. \A i \in DOMAIN ordered[p] : i \in DOMAIN ordered'[p] /\ ordered'[p][i] = ordered[p][i]
    BY <2>4, <2>6
  <2>9. \A i \in DOMAIN ordered'[p] : i \in DOMAIN ordered[p] \/ ordered'[p][i] = c
    BY <2>4, <2>6
  <2>. QED BY <1>2, <2>3, <2>5, <2>7, <2>8, <2>9
<1>. QED BY <1>1, <1>2 DEF Listed

(* map_put changes where the new command's name leads, to it, unless it is refused. *)
LEMMA MapGrows ==
  ASSUME Shape, NEW p \in Commands, NEW n \in Names, NEW c \in Commands, Mapped(p, n, c)
  PROVE  /\ commands' \in [Commands -> [Names -> Commands \cup {None}]]
         /\ unmapped \subseteq unmapped'
         /\ \A q \in Commands, m \in Names :
              \/ commands'[q][m] = commands[q][m]
              \/ q = p /\ m = n /\ commands'[q][m] = c
         /\ c \in unmapped' \/ commands'[p][n] = c
<1>1. commands \in [Commands -> [Names -> Commands \cup {None}]]
  BY DEF Shape
<1>2. CASE unmapped' = unmapped \cup {c} /\ commands' = commands
  BY <1>1, <1>2
<1>3. CASE commands' = [commands EXCEPT ![p][n] = c] /\ unmapped' = unmapped
  <2>1. \A q \in Commands : q # p => commands'[q] = commands[q]
    BY <1>1, <1>3
  <2>2. commands'[p] = [commands[p] EXCEPT ![n] = c]
    BY <1>1, <1>3
  <2>3. [commands[p] EXCEPT ![n] = c] \in [Names -> Commands \cup {None}]
    BY <1>1
  <2>4. commands' \in [Commands -> [Names -> Commands \cup {None}]]
    BY <1>1, <1>3, <2>3
  <2>5. commands'[p][n] = c
    BY <1>1, <2>2
  <2>6. \A q \in Commands, m \in Names :
          commands'[q][m] = commands[q][m] \/ (q = p /\ m = n /\ commands'[q][m] = c)
    BY <1>1, <2>1, <2>2
  <2>. QED BY <1>3, <2>4, <2>5, <2>6
<1>. QED BY <1>2, <1>3 DEF Mapped

(* command_add keeps the invariant, whether map_put and vector_add found memory or not. *)
LEMMA AddKeeps ==
  ASSUME IInv, ~freed, NEW p \in Commands, NEW n \in Names, NEW g \in Groups \cup {None},
         CommandAdd(p, n, g)
  PROVE  IInv'
<1>1. PICK c \in Commands \ live :
        /\ live' = live \cup {c}
        /\ parent' = [parent EXCEPT ![c] = p]
        /\ name' = [name EXCEPT ![c] = n]
        /\ group' = [group EXCEPT ![c] = g]
        /\ Mapped(p, n, c)
        /\ Listed(p, n, c)
  BY DEF CommandAdd
<1>2. Shape /\ c \in Commands /\ c # None /\ c \notin live
  BY TreeAssumption DEF IInv
<1>3. /\ ordered' \in [Commands -> Seq(Commands)]
      /\ unlisted \subseteq unlisted'
      /\ \A q \in Commands : \A i \in DOMAIN ordered[q] :
           i \in DOMAIN ordered'[q] /\ ordered'[q][i] = ordered[q][i]
      /\ \A q \in Commands : \A i \in DOMAIN ordered'[q] :
           i \in DOMAIN ordered[q] \/ (q = p /\ ordered'[q][i] = c)
      /\ \/ c \in unlisted'
         \/ \E k \in DOMAIN ordered'[p] : ordered'[p][k] = c /\ \A j \in DOMAIN ordered[p] : k > j
  BY <1>1, <1>2, ListGrows
<1>4. /\ commands' \in [Commands -> [Names -> Commands \cup {None}]]
      /\ unmapped \subseteq unmapped'
      /\ \A q \in Commands, m \in Names :
           commands'[q][m] = commands[q][m] \/ (q = p /\ m = n /\ commands'[q][m] = c)
      /\ c \in unmapped' \/ commands'[p][n] = c
  BY <1>1, <1>2, MapGrows
<1>5. /\ parent'[c] = p /\ name'[c] = n
      /\ \A d \in live : d # c /\ d \in Commands /\ parent'[d] = parent[d] /\ name'[d] = name[d]
  BY <1>1, <1>2 DEF Shape
<1>6. /\ \A q \in Commands, m \in Names : commands[q][m] # None => commands[q][m] \in live
      /\ \A q \in Commands : \A i \in DOMAIN ordered[q] : ordered[q][i] \in live
  BY DEF IInv, KnownAreLive
<1>7. Shape'
  BY <1>1, <1>2, <1>3, <1>4 DEF Shape
<1>8. KnownAreLive' /\ ListedHaveNames'
  <2>1. KnownAreLive'
    <3>1. ASSUME NEW q \in Commands, NEW m \in Names, commands'[q][m] # None
          PROVE  commands'[q][m] \in live'
      BY <1>1, <1>4, <1>6, <3>1
    <3>2. ASSUME NEW q \in Commands, NEW i \in DOMAIN ordered'[q] PROVE ordered'[q][i] \in live'
      BY <1>1, <1>3, <1>6, <3>2
    <3>. QED BY <3>1, <3>2 DEF KnownAreLive
  <2>2. \A q \in Commands : \A i \in DOMAIN ordered[q] : name[ordered[q][i]] \in Names
    BY DEF IInv, ListedHaveNames
  <2>3. ASSUME NEW q \in Commands, NEW i \in DOMAIN ordered'[q] PROVE name'[ordered'[q][i]] \in Names
    <3>1. CASE i \in DOMAIN ordered[q]
      <4> DEFINE d == ordered[q][i]
      <4>1. ordered'[q][i] = d /\ d \in live /\ name[d] \in Names
        BY <1>3, <1>6, <2>2, <3>1
      <4> HIDE DEF d
      <4>. QED BY <1>5, <4>1
    <3>2. CASE q = p /\ ordered'[q][i] = c
      BY <1>5, <3>2
    <3>. QED BY <1>3, <2>3, <3>1, <3>2
  <2>. QED BY <2>1, <2>3 DEF ListedHaveNames
<1>9. ASSUME NEW q \in Commands, NEW m \in Names, commands'[q][m] # None
      PROVE  /\ parent'[commands'[q][m]] = q /\ name'[commands'[q][m]] = m
             /\ commands'[q][m] \in unlisted' \/ Contains(ordered'[q], commands'[q][m])
  <2>1. /\ \A r \in Commands : DOMAIN ordered[r] = 1..Len(ordered[r])
        /\ \A r \in Commands : DOMAIN ordered'[r] = 1..Len(ordered'[r])
    BY <1>2, <1>3, LenProperties DEF Shape
  <2>2. CASE q = p /\ m = n /\ commands'[q][m] = c
    BY <1>3, <1>5, <2>1, <2>2 DEF Contains
  <2>3. CASE commands'[q][m] = commands[q][m]
    <3> DEFINE d == commands[q][m]
    <3>1. d \in live /\ d # None
      BY <1>6, <1>9, <2>3
    <3>2. parent[d] = q /\ name[d] = m /\ (d \in unlisted \/ Contains(ordered[q], d))
      BY <3>1 DEF IInv, FoundIsListed
    <3> HIDE DEF d
    <3>3. Contains(ordered[q], d) => Contains(ordered'[q], d)
      BY <1>3, <2>1 DEF Contains
    <3>4. parent'[d] = q /\ name'[d] = m /\ (d \in unlisted' \/ Contains(ordered'[q], d))
      BY <1>3, <1>5, <3>1, <3>2, <3>3
    <3>. QED BY <2>3, <3>4 DEF d
  <2>. QED BY <1>4, <2>2, <2>3
<1>10. ASSUME NEW q \in Commands, NEW i \in DOMAIN ordered'[q],
              NEW d, d = ordered'[q][i], NEW found, found = commands'[q][name'[d]]
       PROVE  d \in unmapped' \/ found = d \/ (found # None /\ Later(q, i, found)')
  <2>1. CASE i \in DOMAIN ordered[q]
    <3> DEFINE m == name[d]
    <3>1. d = ordered[q][i] /\ d \in live
      BY <1>3, <1>6, <1>10, <2>1
    <3>2. m \in Names
      BY <2>1, <3>1 DEF IInv, ListedHaveNames
    <3>3. found = commands'[q][m]
      BY <1>5, <1>10, <3>1
    <3>4. \/ d \in unmapped \/ commands[q][m] = d
          \/ commands[q][m] # None /\ Later(q, i, commands[q][m])
      BY <2>1, <3>1 DEF IInv, FoundIsListed
    <3> HIDE DEF m
    <3>5. CASE found = commands[q][m]
      <4>1. Later(q, i, found) => Later(q, i, found)'
        BY <1>3 DEF Later
      <4>. QED BY <1>4, <3>4, <3>5, <4>1
    <3>6. CASE q = p /\ found = c
      <4>1. Later(q, i, found)'
        BY <1>3, <2>1, <3>6 DEF Later
      <4>. QED BY <1>2, <3>6, <4>1
    <3>. QED BY <1>4, <3>2, <3>3, <3>5, <3>6
  <2>2. CASE q = p /\ ordered'[q][i] = c
    <3>1. d = c /\ found = commands'[p][n]
      BY <1>5, <1>10, <2>2
    <3>. QED BY <1>4, <3>1
  <2>. QED BY <1>3, <2>1, <2>2
<1>11. FoundIsListed'
  BY <1>9, <1>10 DEF FoundIsListed
<1>. QED BY <1>7, <1>8, <1>11 DEF IInv

(* The other calls leave the maps and the lists alone. *)
LEMMA Step == IInv /\ [Next]_vars => IInv'
<1> SUFFICES ASSUME IInv, [Next]_vars PROVE IInv'
  OBVIOUS
<1>1. ASSUME ~freed, NEW p \in Commands, NEW n \in Names, NEW g \in Groups \cup {None},
             CommandAdd(p, n, g)
      PROVE  IInv'
  BY <1>1, AddKeeps
<1>2. ASSUME UNCHANGED tree, freed' = freed, live' = live PROVE IInv'
  <2>1. Shape' /\ ListedHaveNames' /\ FoundIsListed'
    BY <1>2 DEF IInv, Shape, ListedHaveNames, FoundIsListed, Later, tree
  <2>2. KnownAreLive'
    BY <1>2 DEF IInv, KnownAreLive, tree
  <2>. QED BY <2>1, <2>2 DEF IInv
<1>3. ASSUME NEW c \in Commands, NEW k \in Keys, NEW v \in Values, CommandSet(c, k, v) PROVE IInv'
  BY <1>2, <1>3 DEF CommandSet
<1>4. CASE CommandFree
  <2>1. freed' = TRUE /\ live' \subseteq live
    BY <1>4 DEF CommandFree
  <2>2. Shape' /\ ListedHaveNames' /\ FoundIsListed'
    BY <1>4, <2>1 DEF CommandFree, IInv, Shape, ListedHaveNames, FoundIsListed, Later, tree
  <2>3. KnownAreLive'
    BY <2>1 DEF KnownAreLive
  <2>. QED BY <2>2, <2>3 DEF IInv
<1>5. CASE UNCHANGED vars
  BY <1>2, <1>5 DEF vars
<1>. QED
  BY <1>1, <1>3, <1>4, <1>5 DEF Next

(* What command_run can find by name is its parent's, has that name, and is listed by help       *)
(* unless vector_add found no memory for it; what help lists answers to its name unless map_put  *)
(* found none, or a command of that name was added after it.  Names may be added twice.          *)
THEOREM LookupIsListed == Spec => []FoundIsListed
<1>1. IInv => FoundIsListed
  BY DEF IInv
<1>. QED BY <1>1, Initially, Step, PTL DEF Spec

-----------------------------------------------------------------------------
(* What help lists                                                         *)

(* A vector holds a command once, as command_add's new command is in none: what is listed is    *)
(* live until main frees the root.                                                             *)
ListInv ==
  /\ \A p \in Commands : \A i, j \in DOMAIN ordered[p] : ordered[p][i] = ordered[p][j] => i = j
  /\ ~freed => \A p \in Commands : \A i \in DOMAIN ordered[p] : ordered[p][i] \in live

LEMMA NothingListed == Init => ListInv
BY DEF Init, ListInv

LEMMA AddLists ==
  ASSUME Shape, ListInv, ~freed, NEW p \in Commands, NEW n \in Names, NEW g \in Groups \cup {None},
         CommandAdd(p, n, g)
  PROVE  ListInv'
<1>1. SUFFICES ASSUME NEW c \in Commands \ live, live' = live \cup {c},
                      ordered' = [ordered EXCEPT ![p] = Append(@, c)]
               PROVE  ListInv'
  <2>1. PICK c \in Commands \ live : live' = live \cup {c} /\ Listed(p, n, c)
    BY DEF CommandAdd
  <2>2. CASE ordered' = ordered
    BY <2>1, <2>2 DEF ListInv
  <2>3. CASE ordered' = [ordered EXCEPT ![p] = Append(@, c)]
    BY <1>1, <2>1, <2>3
  <2>. QED BY <2>1, <2>2, <2>3 DEF Listed
<1>2. /\ \A q \in Commands : ordered[q] \in Seq(Commands)
      /\ \A q \in Commands : q # p => ordered'[q] = ordered[q]
      /\ ordered'[p] = Append(ordered[p], c)
  BY <1>1 DEF Shape
<1>3. \A q \in Commands : \A i \in DOMAIN ordered[q] : ordered[q][i] \in live
  BY DEF ListInv
<1> DEFINE l == Len(ordered[p])
<1>4. /\ l \in Nat /\ DOMAIN ordered[p] = 1..l /\ DOMAIN ordered'[p] = 1..(l + 1)
      /\ \A i \in 1..l : ordered'[p][i] = ordered[p][i]
      /\ ordered'[p][l + 1] = c
  <2>1. /\ Append(ordered[p], c) \in Seq(Commands) /\ Len(Append(ordered[p], c)) = l + 1
        /\ \A i \in 1..l : Append(ordered[p], c)[i] = ordered[p][i]
        /\ Append(ordered[p], c)[l + 1] = c
    BY <1>2, AppendProperties
  <2>. QED BY <1>2, <2>1, LenProperties
<1> HIDE DEF l
<1>5. \A i \in 1..(l + 1) : (i \in 1..l /\ ordered'[p][i] \in live) \/ (i = l + 1 /\ ordered'[p][i] = c)
  BY <1>3, <1>4
<1>6. \A i, j \in 1..(l + 1) : ordered'[p][i] = ordered'[p][j] => i = j
  BY <1>1, <1>4, <1>5 DEF ListInv
<1>7. \A q \in Commands : \A i, j \in DOMAIN ordered'[q] : ordered'[q][i] = ordered'[q][j] => i = j
  <2> TAKE q \in Commands
  <2>1. CASE q = p
    BY <1>4, <1>6, <2>1
  <2>2. CASE q # p
    BY <1>2, <2>2 DEF ListInv
  <2>. QED BY <2>1, <2>2
<1>8. \A q \in Commands : \A i \in DOMAIN ordered'[q] : ordered'[q][i] \in live'
  <2> TAKE q \in Commands
  <2>1. CASE q = p
    BY <1>1, <1>4, <1>5, <2>1
  <2>2. CASE q # p
    BY <1>1, <1>2, <1>3, <2>2
  <2>. QED BY <2>1, <2>2
<1>. QED BY <1>7, <1>8 DEF ListInv

LEMMA ListStep == Shape /\ ListInv /\ [Next]_vars => ListInv'
<1> SUFFICES ASSUME Shape, ListInv, [Next]_vars PROVE ListInv'
  OBVIOUS
<1>1. ASSUME ~freed, NEW p \in Commands, NEW n \in Names, NEW g \in Groups \cup {None},
             CommandAdd(p, n, g)
      PROVE  ListInv'
  BY <1>1, AddLists
<1>2. ASSUME UNCHANGED <<live, ordered, freed>> PROVE ListInv'
  BY <1>2 DEF ListInv
<1>3. ASSUME NEW c \in Commands, NEW k \in Keys, NEW v \in Values, CommandSet(c, k, v) PROVE ListInv'
  BY <1>2, <1>3 DEF CommandSet, tree
<1>4. CASE CommandFree
  BY <1>4 DEF CommandFree, ListInv, tree
<1>5. CASE UNCHANGED vars
  BY <1>2, <1>5 DEF vars, tree
<1>. QED BY <1>1, <1>3, <1>4, <1>5 DEF Next

(* A line of help's text, a group's heading, and a command that stands once, below a heading *)
Line == [heading : Groups \cup {None, "Commands"}, command : Commands \cup {None}]
Title(g) == IF g = None THEN "Commands" ELSE g
Stands(text, c, g) ==
  \E h, a \in DOMAIN text :
    /\ h < a /\ text[h] = Heading(Title(g)) /\ text[a] = Entry(c)
    /\ \A m \in DOMAIN text : text[m] = Entry(c) => m = a
    /\ \A m \in (h + 1)..a : text[m].heading = None
Absent(text, c) == \A m \in DOMAIN text : text[m] # Entry(c)

LEMMA LineFacts ==
  /\ \A g \in Groups \cup {None} : Heading(Title(g)) \in Line
  /\ \A c \in Commands : Entry(c) \in Line /\ Entry(c).heading = None
  /\ \A c \in Commands : \A g : Heading(g) # Entry(c)
  /\ \A c, d \in Commands : Entry(c) = Entry(d) => c = d
<1>1. \A c \in Commands : c # None
  BY TreeAssumption
<1>2. \A c, g : Heading(g).command = None /\ Entry(c).command = c /\ Entry(c).heading = None
  BY DEF Heading, Entry
<1>. QED BY <1>1, <1>2 DEF Heading, Entry, Title, Line

(* A text that goes on keeps what it shows, if the rest does not show it again. *)
LEMMA TextGoesOn ==
  ASSUME NEW t \in Seq(Line), NEW u \in Seq(Line), NEW c, NEW g
  PROVE  /\ t \o u \in Seq(Line)
         /\ Stands(t, c, g) /\ Absent(u, c) => Stands(t \o u, c, g)
         /\ Absent(t, c) /\ Stands(u, c, g) => Stands(t \o u, c, g)
         /\ Absent(t, c) /\ Absent(u, c) => Absent(t \o u, c)
<1> DEFINE w == t \o u
           k == Len(t)
           l == Len(u)
<1>1. /\ w \in Seq(Line) /\ Len(w) = k + l
      /\ \A m \in 1..(k + l) : w[m] = IF m <= k THEN t[m] ELSE u[m - k]
  BY ConcatProperties
<1>2. k \in Nat /\ l \in Nat /\ DOMAIN t = 1..k /\ DOMAIN u = 1..l /\ DOMAIN w = 1..(k + l)
  BY <1>1, LenProperties
<1> HIDE DEF w, k, l
<1>3. /\ \A m \in 1..k : m \in 1..(k + l) /\ w[m] = t[m]
      /\ \A m \in 1..l : m + k \in 1..(k + l) /\ w[m + k] = u[m]
      /\ \A m \in 1..(k + l) : m \in 1..k \/ (m - k \in 1..l /\ (m - k) + k = m)
  <2>1. \A m \in 1..l : m + k \in 1..(k + l) /\ ~(m + k <= k) /\ (m + k) - k = m
    BY <1>2
  <2>2. \A m \in 1..k : m \in 1..(k + l) /\ m <= k
    BY <1>2
  <2>. QED BY <1>1, <1>2, <2>1, <2>2
<1>4. ASSUME Stands(t, c, g), Absent(u, c) PROVE Stands(w, c, g)
  <2>1. PICK h \in 1..k, a \in 1..k :
          /\ h < a /\ t[h] = Heading(Title(g)) /\ t[a] = Entry(c)
          /\ \A m \in 1..k : t[m] = Entry(c) => m = a
          /\ \A m \in (h + 1)..a : t[m].heading = None
    BY <1>2, <1>4 DEF Stands
  <2>2. \A m \in (h + 1)..a : m \in 1..k
    BY <1>2
  <2>3. \A m \in 1..(k + l) : w[m] = Entry(c) => m = a
    <3> TAKE m \in 1..(k + l)
    <3> HAVE w[m] = Entry(c)
    <3>1. m - k \notin 1..l \/ (m - k) + k # m
      <4> DEFINE i == m - k
      <4>1. SUFFICES ASSUME i \in 1..l, i + k = m PROVE FALSE
        OBVIOUS
      <4> HIDE DEF i
      <4>. QED BY <1>2, <1>3, <1>4, <4>1 DEF Absent
    <3>2. m \in 1..k
      BY <1>3, <3>1
    <3>. QED BY <1>3, <2>1, <3>2
  <2>4. \A m \in (h + 1)..a : w[m].heading = None
    BY <1>3, <2>1, <2>2
  <2>5. /\ h \in 1..(k + l) /\ a \in 1..(k + l)
        /\ w[h] = Heading(Title(g)) /\ w[a] = Entry(c)
    BY <1>3, <2>1
  <2>. QED BY <1>2, <2>1, <2>3, <2>4, <2>5 DEF Stands
<1>5. ASSUME Absent(t, c), Stands(u, c, g) PROVE Stands(w, c, g)
  <2>1. PICK h \in 1..l, a \in 1..l :
          /\ h < a /\ u[h] = Heading(Title(g)) /\ u[a] = Entry(c)
          /\ \A m \in 1..l : u[m] = Entry(c) => m = a
          /\ \A m \in (h + 1)..a : u[m].heading = None
    BY <1>2, <1>5 DEF Stands
  <2>2. \A m \in (h + k + 1)..(a + k) : m - k \in (h + 1)..a /\ m - k \in 1..l /\ (m - k) + k = m
    BY <1>2
  <2>3. \A m \in 1..(k + l) : w[m] = Entry(c) => m = a + k
    <3> TAKE m \in 1..(k + l)
    <3> HAVE w[m] = Entry(c)
    <3>1. m \notin 1..k
      BY <1>2, <1>3, <1>5 DEF Absent
    <3>2. m - k \in 1..l /\ (m - k) + k = m
      BY <1>3, <3>1
    <3> DEFINE n == m - k
    <3>3. u[n] = Entry(c)
      <4>1. n \in 1..l /\ n + k = m
        BY <3>2
      <4> HIDE DEF n
      <4>. QED BY <1>3, <4>1
    <3>4. n = a
      BY <2>1, <3>2, <3>3
    <3>. QED BY <3>2, <3>4
  <2>4. \A m \in (h + k + 1)..(a + k) : w[m].heading = None
    <3> TAKE m \in (h + k + 1)..(a + k)
    <3> DEFINE n == m - k
    <3>1. n \in (h + 1)..a /\ n \in 1..l /\ n + k = m
      BY <2>2
    <3> HIDE DEF n
    <3>. QED BY <1>3, <2>1, <3>1
  <2>5. h + k \in 1..(k + l) /\ a + k \in 1..(k + l) /\ h + k < a + k
    BY <1>2, <2>1
  <2>6. w[h + k] = Heading(Title(g)) /\ w[a + k] = Entry(c)
    BY <1>3, <2>1
  <2>. QED BY <1>2, <2>3, <2>4, <2>5, <2>6 DEF Stands
<1>6. ASSUME Absent(t, c), Absent(u, c) PROVE Absent(w, c)
  <2> SUFFICES ASSUME NEW m \in 1..(k + l) PROVE w[m] # Entry(c)
    BY <1>2 DEF Absent
  <2>1. CASE m \in 1..k
    BY <1>2, <1>3, <1>6, <2>1 DEF Absent
  <2>2. CASE m - k \in 1..l /\ (m - k) + k = m
    <3> DEFINE i == m - k
    <3>1. i \in 1..l /\ i + k = m
      BY <2>2
    <3> HIDE DEF i
    <3>. QED BY <1>2, <1>3, <1>6, <3>1 DEF Absent
  <2>. QED BY <1>3, <2>1, <2>2
<1>. QED BY <1>1, <1>4, <1>5, <1>6 DEF w

(* A section is a heading and then each command of the group, which stands below it once; no  *)
(* other command is in it.                                                                     *)
LEMMA SectionShows ==
  ASSUME Shape, ListInv, NEW p \in Commands, NEW g \in Groups \cup {None}
  PROVE  /\ Section(p, g) \in Seq(Line)
         /\ \A i \in DOMAIN ordered[p] :
              IF group[ordered[p][i]] = g THEN Stands(Section(p, g), ordered[p][i], g)
              ELSE Absent(Section(p, g), ordered[p][i])
<1> DEFINE s == ordered[p]
           I == {i \in 1..Len(s) : group[s[i]] = g}
           n == Cardinality(I)
           q == Picked(s, I)
           top == <<Heading(Title(g))>>
           u == Entries(q)
           w == top \o u
<1>1. s \in Seq(Commands) /\ Len(s) \in Nat /\ DOMAIN s = 1..Len(s)
  <2>1. s \in Seq(Commands)
    BY DEF Shape
  <2>. QED BY <2>1, LenProperties
<1>2. /\ IsFiniteSet(I) /\ I \in SUBSET Nat /\ n \in Nat
      /\ q \in Seq(Commands) /\ Len(q) = n /\ DOMAIN q = 1..n
      /\ \A k \in 1..n : q[k] \in Commands /\ \E i \in I : q[k] = s[i]
  <2>1. s \in Seq(Commands) /\ I \in SUBSET (1..Len(s))
    BY <1>1
  <2>2. /\ IsFiniteSet(I) /\ I \in SUBSET Nat
        /\ q \in Seq(Commands) /\ Len(q) = n /\ DOMAIN q = 1..n
        /\ \A k \in 1..n : \E i \in I : q[k] = s[i]
    <3> HIDE DEF s, I
    <3>. QED BY <2>1, PickedProperties
  <2>3. n \in Nat
    <3> HIDE DEF I
    <3>. QED BY <2>2, FS_CardinalityType
  <2>4. \A k \in 1..n : q[k] \in Commands
    <3> HIDE DEF q, n
    <3>. QED BY <2>2, ElementOfSeq
  <2>. QED BY <2>2, <2>3, <2>4
<1>3. Section(p, g) = w
  <2>1. InGroup(p, g) = q
    BY <1>1 DEF InGroup
  <2>. QED BY <2>1 DEF Section, Title
<1>4. \A i \in I : Place(I, i) \in 1..n /\ q[Place(I, i)] = s[i]
  <2> HIDE DEF s, I
  <2>. QED BY <1>2, PlaceInRange, PickedAtPlace
<1>5. \A i \in I : i \in 1..Len(s)
  OBVIOUS
<1>6. \A i, j \in 1..Len(s) : s[i] = s[j] => i = j
  BY <1>1 DEF ListInv
<1>7. /\ u \in Seq(Line) /\ Len(u) = n
      /\ \A k \in 1..n : u[k] = Entry(q[k])
  <2> HIDE DEF q, n
  <2>1. u = [k \in 1..n |-> Entry(q[k])]
    BY <1>2 DEF Entries
  <2>2. u \in [1..n -> Line]
    BY <1>2, <2>1, LineFacts
  <2>3. u \in Seq(Line)
    BY <1>2, <2>2, SeqDef
  <2>4. DOMAIN u = 1..n
    BY <2>1
  <2>5. Len(u) = n
    BY <1>2, <2>3, <2>4, LenProperties
  <2>6. \A k \in 1..n : u[k] = Entry(q[k])
    BY <2>1
  <2>. QED BY <2>3, <2>5, <2>6
<1>8. top \in Seq(Line) /\ Len(top) = 1 /\ top[1] = Heading(Title(g))
  BY LineFacts
<1>9. /\ w \in Seq(Line) /\ DOMAIN w = 1..(n + 1) /\ w[1] = Heading(Title(g))
      /\ \A k \in 1..n : w[k + 1] = Entry(q[k])
  <2> HIDE DEF top, u, n, q
  <2>1. /\ w \in Seq(Line) /\ Len(w) = 1 + n
        /\ \A m \in 1..(1 + n) : w[m] = IF m <= 1 THEN top[m] ELSE u[m - 1]
    <3>1. /\ w \in Seq(Line) /\ Len(w) = Len(top) + Len(u)
          /\ \A m \in 1..(Len(top) + Len(u)) :
               w[m] = IF m <= Len(top) THEN top[m] ELSE u[m - Len(top)]
      BY <1>7, <1>8, ConcatProperties
    <3> HIDE DEF w
    <3>. QED BY <1>7, <1>8, <3>1
  <2> HIDE DEF w
  <2>2. DOMAIN w = 1..(n + 1)
    BY <1>2, <2>1, LenProperties
  <2>3. w[1] = top[1]
    BY <1>2, <2>1
  <2>4. \A k \in 1..n : k + 1 \in 1..(1 + n) /\ ~(k + 1 <= 1) /\ (k + 1) - 1 = k
    BY <1>2
  <2>5. \A k \in 1..n : w[k + 1] = u[k]
    BY <2>1, <2>4
  <2>. QED BY <1>7, <1>8, <2>1, <2>2, <2>3, <2>5
<1> HIDE DEF w, u, top, q, n
<1>10. \A m \in 1..(n + 1) : m = 1 \/ (\E k \in 1..n : m = k + 1)
  <2>1. \A m \in 1..(n + 1) : m = 1 \/ (m - 1 \in 1..n /\ m = (m - 1) + 1)
    BY <1>2
  <2>. QED BY <2>1
<1>11. \A m \in 1..(n + 1) : m # 1 => w[m].heading = None
  <2> TAKE m \in 1..(n + 1)
  <2> HAVE m # 1
  <2>1. PICK k \in 1..n : m = k + 1
    BY <1>10
  <2>2. q[k] \in Commands /\ w[m] = Entry(q[k])
    BY <1>2, <1>9, <2>1
  <2>3. Entry(q[k]).heading = None
    BY <2>2, LineFacts
  <2>. QED BY <2>2, <2>3
<1>12. ASSUME NEW i \in I PROVE Stands(w, s[i], g)
  <2> DEFINE a == Place(I, i)
  <2>1. a \in 1..n /\ q[a] = s[i]
    BY <1>4
  <2> HIDE DEF a
  <2>2. s[i] \in Commands
    BY <1>2, <2>1
  <2>3. w[a + 1] = Entry(s[i])
    BY <1>9, <2>1
  <2>4. ASSUME NEW k \in 1..n, q[k] = s[i] PROVE k = a
    <3>1. PICK j \in I : Place(I, j) = k
      <4> HIDE DEF I, s
      <4>. QED BY <1>2, EachPlaceIsTaken DEF n
    <3>2. q[k] = s[j]
      BY <1>4, <3>1
    <3>3. j = i
      BY <1>5, <1>6, <2>4, <3>2
    <3>. QED BY <3>1, <3>3 DEF a
  <2>5. \A m \in 1..(n + 1) : w[m] = Entry(s[i]) => m = a + 1
    <3> TAKE m \in 1..(n + 1)
    <3> HAVE w[m] = Entry(s[i])
    <3>1. m # 1
      BY <1>9, <2>2, LineFacts
    <3>2. PICK k \in 1..n : m = k + 1
      BY <1>10, <3>1
    <3>3. Entry(q[k]) = Entry(s[i])
      BY <1>9, <3>2
    <3>4. q[k] = s[i]
      BY <1>2, <2>2, <3>3, LineFacts
    <3>. QED BY <2>4, <3>2, <3>4
  <2>6. \A m \in (1 + 1)..(a + 1) : m \in 1..(n + 1) /\ m # 1
    BY <1>2, <2>1
  <2>7. 1 \in 1..(n + 1) /\ a + 1 \in 1..(n + 1) /\ 1 < a + 1
    BY <1>2, <2>1
  <2>. QED BY <1>9, <1>11, <2>3, <2>5, <2>6, <2>7 DEF Stands
<1>13. ASSUME NEW i \in 1..Len(s), i \notin I PROVE Absent(w, s[i])
  <2> SUFFICES ASSUME NEW m \in 1..(n + 1), w[m] = Entry(s[i]) PROVE FALSE
    BY <1>9 DEF Absent
  <2>1. s[i] \in Commands
    BY <1>1, ElementOfSeq
  <2>2. PICK k \in 1..n : m = k + 1
    BY <1>9, <1>10, <2>1, LineFacts
  <2>3. q[k] = s[i]
    <3>1. Entry(q[k]) = Entry(s[i])
      BY <1>9, <2>2
    <3>. QED BY <1>2, <2>1, <3>1, LineFacts
  <2>4. PICK j \in I : q[k] = s[j]
    BY <1>2
  <2>. QED BY <1>5, <1>6, <1>13, <2>3, <2>4
<1>. QED BY <1>1, <1>3, <1>9, <1>12, <1>13

(* What help has printed after the first i commands of its second loop *)
Of(p, i) == group[ordered[p][i]]
Text(p) ==
  LET of(i) == group[ordered[p][i]]
      text[i \in 0..Len(ordered[p])] ==
        IF i = 0 THEN Top(p)
        ELSE IF of(i) = None \/ \E j \in 1..(i - 1) : of(j) = of(i) THEN text[i - 1]
        ELSE text[i - 1] \o Section(p, of(i))
  IN text

LEMMA TextIs ==
  ASSUME Shape, ListInv, NEW p \in Commands
  PROVE  /\ Text(p)[0] = Top(p)
         /\ \A i \in 1..Len(ordered[p]) :
              Text(p)[i] = IF Of(p, i) = None \/ \E j \in 1..(i - 1) : Of(p, j) = Of(p, i)
                           THEN Text(p)[i - 1] ELSE Text(p)[i - 1] \o Section(p, Of(p, i))
         /\ Listing(p) = Text(p)[Len(ordered[p])]
<1> DEFINE N == Len(ordered[p])
           X == Seq(Line)
           old(i) == Of(p, i) = None \/ \E j \in 1..(i - 1) : Of(p, j) = Of(p, i)
           more(i, x) == IF old(i) THEN x ELSE x \o Section(p, Of(p, i))
           step == [i \in 1..N |-> [x \in X |-> more(i, x)]]
<1>1. ordered[p] \in Seq(Commands) /\ N \in Nat
  BY LenProperties DEF Shape
<1>2. \A i \in 1..N : Of(p, i) \in Groups \cup {None}
  <2>1. \A i \in 1..N : ordered[p][i] \in Commands
    BY <1>1, ElementOfSeq
  <2>. QED BY <2>1 DEF Of, Shape
<1>3. Top(p) \in X
  BY SectionShows, EmptySeq DEF Top
<1>4. \A i \in 1..N, x \in X : more(i, x) \in X
  <2> TAKE i \in 1..N, x \in X
  <2>1. Section(p, Of(p, i)) \in Seq(Line)
    BY <1>2, SectionShows
  <2>2. x \o Section(p, Of(p, i)) \in Seq(Line)
    BY <2>1, ConcatProperties
  <2>. QED BY <2>2
<1>5. step \in StepsOver(N, X)
  <2> HIDE DEF more, N, X
  <2>. QED BY <1>4 DEF StepsOver
<1>6. PICK f : Iterates(f, Top(p), step, N, X)
  <2> HIDE DEF N, X, step
  <2>. QED BY <1>1, <1>3, <1>5, Recursion
<1>7. \A i \in 1..N : step[i][f[i - 1]] = more(i, f[i - 1])
  <2>1. \A i \in 1..N : i - 1 \in 0..N
    BY <1>1
  <2>2. \A i \in 1..N : f[i - 1] \in X
    <3> HIDE DEF X, N, step
    <3>. QED BY <1>6, <2>1 DEF Iterates
  <2> HIDE DEF more, X
  <2>. QED BY <2>2
<1>8. f = [i \in 0..N |-> IF i = 0 THEN Top(p)
                        ELSE IF old(i) THEN f[i - 1] ELSE f[i - 1] \o Section(p, Of(p, i))]
  <2> HIDE DEF step, X, N, old
  <2>1. \A i \in 0..N : i # 0 => i \in 1..N
    BY <1>1
  <2>2. \A i \in 0..N : f[i] = IF i = 0 THEN Top(p)
                             ELSE IF old(i) THEN f[i - 1] ELSE f[i - 1] \o Section(p, Of(p, i))
    BY <1>6, <1>7, <2>1 DEF Iterates
  <2>. QED BY <1>6, <2>2 DEF Iterates
<1> DEFINE text == Text(p)
<1>9. text = [i \in 0..N |-> IF i = 0 THEN Top(p)
                           ELSE IF old(i) THEN text[i - 1] ELSE text[i - 1] \o Section(p, Of(p, i))]
  BY <1>8 DEF Text, Of
<1>10. Listing(p) = text[N]
  BY DEF Listing, Text
<1> HIDE DEF text, N, old
<1>11. \A i \in 0..N : text[i] = IF i = 0 THEN Top(p)
                                ELSE IF old(i) THEN text[i - 1] ELSE text[i - 1] \o Section(p, Of(p, i))
  BY <1>9
<1>12. 0 \in 0..N /\ \A i \in 1..N : i \in 0..N /\ i # 0
  BY <1>1
<1>. QED BY <1>10, <1>11, <1>12 DEF text, N, old

(* After i commands the text shows those in no group and those in a group of one of the i, and  *)
(* no other.                                                                                   *)
Shows(p, i, text) ==
  /\ text \in Seq(Line)
  /\ \A k \in DOMAIN ordered[p] :
       IF Of(p, k) = None \/ \E j \in 1..i : Of(p, j) = Of(p, k)
       THEN Stands(text, ordered[p][k], Of(p, k)) ELSE Absent(text, ordered[p][k])

LEMMA TopShows ==
  ASSUME Shape, ListInv, NEW p \in Commands
  PROVE  Shows(p, 0, Top(p))
<1>1. ordered[p] \in Seq(Commands) /\ DOMAIN ordered[p] = 1..Len(ordered[p])
  BY LenProperties DEF Shape
<1>2. \A k \in DOMAIN ordered[p] : ~ \E j \in 1..0 : Of(p, j) = Of(p, k)
  OBVIOUS
<1>3. CASE InGroup(p, None) = <<>>
  <2> DEFINE I == {i \in DOMAIN ordered[p] : group[ordered[p][i]] = None}
  <2>1. I \in SUBSET (1..Len(ordered[p])) /\ Picked(ordered[p], I) = <<>>
    BY <1>1, <1>3 DEF InGroup
  <2>2. IsFiniteSet(I) /\ Cardinality(I) = 0
    <3> HIDE DEF I
    <3>. QED BY <1>1, <2>1, PickedProperties, EmptySeq
  <2>3. I = {}
    <3> HIDE DEF I
    <3>. QED BY <2>2, FS_EmptySet
  <2>4. \A k \in DOMAIN ordered[p] : Of(p, k) # None
    BY <2>3 DEF Of
  <2>5. Top(p) = <<>>
    BY <1>3 DEF Top
  <2>6. \A k \in DOMAIN ordered[p] : Absent(<<>>, ordered[p][k])
    BY DEF Absent
  <2>. QED BY <1>2, <2>4, <2>5, <2>6, EmptySeq DEF Shows
<1>4. CASE InGroup(p, None) # <<>>
  <2>1. Top(p) = Section(p, None)
    BY <1>4 DEF Top
  <2>. QED BY <1>2, <2>1, SectionShows DEF Shows, Of
<1>. QED BY <1>3, <1>4

LEMMA NextShows ==
  ASSUME Shape, ListInv, NEW p \in Commands, NEW i \in 1..Len(ordered[p]), NEW t, Shows(p, i - 1, t)
  PROVE  Shows(p, i, IF Of(p, i) = None \/ \E j \in 1..(i - 1) : Of(p, j) = Of(p, i)
                     THEN t ELSE t \o Section(p, Of(p, i)))
<1>1. ordered[p] \in Seq(Commands) /\ DOMAIN ordered[p] = 1..Len(ordered[p]) /\ Len(ordered[p]) \in Nat
  BY LenProperties DEF Shape
<1>2. \A j \in 1..i : j \in 1..(i - 1) \/ j = i
  BY <1>1
<1>3. i \in 1..i /\ \A j \in 1..(i - 1) : j \in 1..i
  BY <1>1
<1> DEFINE Seen(k, m) == \E j \in 1..m : Of(p, j) = Of(p, k)
<1>4. CASE Of(p, i) = None \/ Seen(i, i - 1)
  <2>1. \A k \in DOMAIN ordered[p] :
          (Of(p, k) = None \/ Seen(k, i)) <=> (Of(p, k) = None \/ Seen(k, i - 1))
    BY <1>2, <1>3, <1>4
  <2>. QED BY <1>4, <2>1 DEF Shows
<1>5. CASE Of(p, i) # None /\ ~Seen(i, i - 1)
  <2> DEFINE g == Of(p, i)
             u == Section(p, g)
  <2>1. g \in Groups \cup {None}
    BY <1>1, ElementOfSeq DEF Of, Shape
  <2>2. /\ u \in Seq(Line)
        /\ \A k \in DOMAIN ordered[p] :
             IF Of(p, k) = g THEN Stands(u, ordered[p][k], g) ELSE Absent(u, ordered[p][k])
    <3> HIDE DEF g
    <3>. QED BY <2>1, SectionShows DEF Of
  <2>3. t \in Seq(Line)
    BY DEF Shows
  <2>4. t \o u \in Seq(Line)
    BY <2>2, <2>3, TextGoesOn
  <2>5. ASSUME NEW k \in DOMAIN ordered[p]
        PROVE  IF Of(p, k) = None \/ Seen(k, i)
               THEN Stands(t \o u, ordered[p][k], Of(p, k)) ELSE Absent(t \o u, ordered[p][k])
    <3> DEFINE c == ordered[p][k]
    <3>0. IF Of(p, k) = None \/ Seen(k, i - 1) THEN Stands(t, c, Of(p, k)) ELSE Absent(t, c)
      BY DEF Shows
    <3> HIDE DEF u, c, g
    <3>1. CASE Of(p, k) = g
      <4>1. Of(p, k) # None /\ ~Seen(k, i - 1) /\ Seen(k, i)
        BY <1>3, <1>5, <3>1 DEF g
      <4>2. Absent(t, c) /\ Stands(u, c, Of(p, k))
        BY <2>2, <3>0, <3>1, <4>1 DEF c
      <4>3. Stands(t \o u, c, Of(p, k))
        BY <2>2, <2>3, <4>2, TextGoesOn
      <4>. QED BY <4>1, <4>3 DEF c
    <3>2. CASE Of(p, k) # g
      <4>1. Seen(k, i) <=> Seen(k, i - 1)
        BY <1>2, <1>3, <3>2 DEF g
      <4>2. Absent(u, c)
        BY <2>2, <3>2 DEF c
      <4>3. CASE Of(p, k) = None \/ Seen(k, i)
        <5>1. Stands(t, c, Of(p, k))
          BY <3>0, <4>1, <4>3
        <5>2. Stands(t \o u, c, Of(p, k))
          BY <2>2, <2>3, <4>2, <5>1, TextGoesOn
        <5>. QED BY <4>3, <5>2 DEF c
      <4>4. CASE ~(Of(p, k) = None \/ Seen(k, i))
        <5>1. Absent(t, c)
          BY <3>0, <4>1, <4>4
        <5>2. Absent(t \o u, c)
          BY <2>2, <2>3, <4>2, <5>1, TextGoesOn
        <5>. QED BY <4>4, <5>2 DEF c
      <4>. QED BY <4>3, <4>4
    <3>. QED BY <3>1, <3>2
  <2>. QED BY <1>5, <2>4, <2>5 DEF Shows
<1>. QED BY <1>4, <1>5

LEMMA ListingShows ==
  ASSUME Shape, ListInv, NEW p \in Commands
  PROVE  Shows(p, Len(ordered[p]), Listing(p))
<1> DEFINE N == Len(ordered[p])
           S == {i \in 0..N : Shows(p, i, Text(p)[i])}
<1>1. N \in Nat
  BY LenProperties DEF Shape
<1>2. 0 \in S
  BY <1>1, TextIs, TopShows
<1>3. ASSUME NEW n \in 0..(N - 1), n \in S PROVE n + 1 \in S
  <2> DEFINE i == n + 1
  <2>1. i \in 1..N /\ i \in 0..N /\ i - 1 = n
    BY <1>1
  <2> HIDE DEF i
  <2>2. Shows(p, i - 1, Text(p)[i - 1])
    BY <1>3, <2>1
  <2>3. Text(p)[i] = IF Of(p, i) = None \/ \E j \in 1..(i - 1) : Of(p, j) = Of(p, i)
                     THEN Text(p)[i - 1] ELSE Text(p)[i - 1] \o Section(p, Of(p, i))
    BY <2>1, TextIs
  <2>4. Shows(p, i, Text(p)[i])
    BY <2>1, <2>2, <2>3, NextShows
  <2>5. i \in S
    BY <2>1, <2>4
  <2>. QED BY <2>5 DEF i
<1> HIDE DEF S
<1>4. N \in S
  <2>1. N \in 0..N
    BY <1>1
  <2>. QED BY <1>1, <1>2, <1>3, <2>1, Counting
<1>. QED BY <1>4, TextIs DEF S

LEMMA ListedOnce == ASSUME Shape, ListInv PROVE ListedUnderItsGroup
<1> SUFFICES ASSUME NEW p \in Commands, NEW i \in DOMAIN ordered[p]
             PROVE  LET c == ordered[p][i]
                        text == Listing(p)
                        at == {j \in DOMAIN text : text[j] = Entry(c)}
                    IN /\ Cardinality(at) = 1
                       /\ \E h \in DOMAIN text :
                            /\ text[h] = Heading(IF group[c] = None THEN "Commands" ELSE group[c])
                            /\ \A j \in at : h < j /\ \A m \in (h + 1)..j : text[m].heading = None
  BY DEF ListedUnderItsGroup
<1> DEFINE c == ordered[p][i]
           text == Listing(p)
           at == {j \in DOMAIN text : text[j] = Entry(c)}
<1>1. i \in 1..Len(ordered[p])
  BY LenProperties DEF Shape
<1>2. Stands(text, c, group[c])
  BY <1>1, ListingShows DEF Shows, Of
<1> HIDE DEF c, text
<1>3. PICK h \in DOMAIN text, a \in DOMAIN text :
        /\ h < a /\ text[h] = Heading(Title(group[c])) /\ text[a] = Entry(c)
        /\ \A m \in DOMAIN text : text[m] = Entry(c) => m = a
        /\ \A m \in (h + 1)..a : text[m].heading = None
  BY <1>2 DEF Stands
<1>4. at = {a}
  BY <1>3
<1>5. Cardinality(at) = 1
  BY <1>4, FS_Singleton
<1>. QED BY <1>3, <1>4, <1>5 DEF c, text, Title

(* Help lists every subcommand once, below its group's heading, however groups are mixed and    *)
(* however often a name was added.                                                             *)
THEOREM AlwaysListedUnderItsGroup == Spec => []ListedUnderItsGroup
<1>1. IInv => Shape
  BY DEF IInv
<1>2. Init => IInv /\ ListInv
  BY Initially, NothingListed
<1>3. IInv /\ ListInv /\ [Next]_vars => IInv' /\ ListInv'
  BY <1>1, Step, ListStep
<1>4. IInv /\ ListInv => ListedUnderItsGroup
  BY <1>1, ListedOnce
<1>. QED BY <1>2, <1>3, <1>4, PTL DEF Spec

-----------------------------------------------------------------------------
(* The way up from a command                                               *)

(* The structs in the order main got them: a parent comes before its children, so the way up    *)
(* from any command ends at the root, before it is as long as there are commands.                *)
Ranks(rank) ==
  /\ rank \in [Commands -> Nat] /\ \A c \in live : rank[c] < Cardinality(live)
  /\ Root \in live /\ parent[Root] = None
  /\ \A c \in live : c # Root => parent[c] \in live /\ rank[parent[c]] < rank[c]
UpEnds == ~freed => \E rank : Ranks(rank)

LEMMA FirstRank == Init => UpEnds
<1> SUFFICES ASSUME Init PROVE Ranks([c \in Commands |-> 0])
  BY DEF UpEnds
<1>1. Cardinality(live) = 1
  BY FS_Singleton DEF Init
<1>. QED BY <1>1, TreeAssumption DEF Init, Ranks

LEMMA AddRanks ==
  ASSUME Shape, UpEnds, ~freed, NEW p \in Commands, NEW n \in Names, NEW g \in Groups \cup {None},
         CommandAdd(p, n, g)
  PROVE  UpEnds'
<1>1. PICK rank : Ranks(rank)
  BY DEF UpEnds
<1>2. PICK c \in Commands \ live : live' = live \cup {c} /\ parent' = [parent EXCEPT ![c] = p]
  BY DEF CommandAdd
<1>3. p \in live /\ live \subseteq Commands /\ IsFiniteSet(live)
  BY TreeAssumption, FS_Subset DEF CommandAdd, Shape
<1>4. Cardinality(live) \in Nat /\ Cardinality(live') = Cardinality(live) + 1
  BY <1>2, <1>3, FS_CardinalityType, FS_AddElement
<1>0. PICK next : next = [rank EXCEPT ![c] = Cardinality(live)]
  OBVIOUS
<1>5. /\ next \in [Commands -> Nat] /\ next[c] = Cardinality(live)
      /\ \A d \in live : next[d] = rank[d] /\ d # c /\ rank[d] \in Nat
  BY <1>0, <1>1, <1>2, <1>3, <1>4 DEF Ranks
<1>6. parent'[c] = p /\ \A d \in live : parent'[d] = parent[d]
  BY <1>2, <1>3 DEF Shape
<1>7. \A d \in live' : next[d] < Cardinality(live')
  BY <1>1, <1>2, <1>4, <1>5 DEF Ranks
<1>8. Root \in live' /\ parent'[Root] = None /\ c # Root
  BY <1>1, <1>2, <1>6 DEF Ranks
<1>9. \A d \in live' : d # Root => parent'[d] \in live' /\ next[parent'[d]] < next[d]
  <2> TAKE d \in live'
  <2>1. CASE d = c
    BY <1>1, <1>2, <1>3, <1>5, <1>6, <2>1 DEF Ranks
  <2>2. CASE d \in live
    BY <1>1, <1>2, <1>5, <1>6, <2>2 DEF Ranks
  <2>. QED BY <1>2, <2>1, <2>2
<1>10. Ranks(next)'
  BY <1>5, <1>7, <1>8, <1>9 DEF Ranks
<1>. QED BY <1>10 DEF UpEnds

LEMMA RanksStep == Shape /\ UpEnds /\ [Next]_vars => UpEnds'
<1> SUFFICES ASSUME Shape, UpEnds, [Next]_vars PROVE UpEnds'
  OBVIOUS
<1>1. ASSUME ~freed, NEW p \in Commands, NEW n \in Names, NEW g \in Groups \cup {None},
             CommandAdd(p, n, g)
      PROVE  UpEnds'
  BY <1>1, AddRanks
<1>2. ASSUME UNCHANGED <<live, parent, freed>> PROVE UpEnds'
  BY <1>2 DEF UpEnds, Ranks
<1>3. ASSUME NEW c \in Commands, NEW k \in Keys, NEW v \in Values, CommandSet(c, k, v) PROVE UpEnds'
  BY <1>2, <1>3 DEF CommandSet, tree
<1>4. CASE CommandFree
  BY <1>4 DEF CommandFree, UpEnds
<1>5. CASE UNCHANGED vars
  BY <1>2, <1>5 DEF vars, tree
<1>. QED BY <1>1, <1>3, <1>4, <1>5 DEF Next

LEMMA Ordered == Spec => [](IInv /\ UpEnds)
<1>1. Init => IInv /\ UpEnds
  BY Initially, FirstRank
<1>2. IInv /\ UpEnds /\ [Next]_vars => IInv' /\ UpEnds'
  BY Step, RanksStep DEF IInv
<1>. QED BY <1>1, <1>2, PTL DEF Spec

(* What command_get walks *)
Up(c) ==
  LET up[i \in 0..Cardinality(Commands)] ==
        IF i = 0 THEN c ELSE IF up[i - 1] = None THEN None ELSE parent[up[i - 1]]
  IN up

LEMMA UpIs ==
  ASSUME Shape, NEW c \in Commands
  PROVE  /\ Up(c)[0] = c
         /\ \A i \in 0..(Cardinality(Commands) - 1) :
              /\ i \in 0..Cardinality(Commands) /\ i + 1 \in 0..Cardinality(Commands)
              /\ Up(c)[i + 1] = IF Up(c)[i] = None THEN None ELSE parent[Up(c)[i]]
<1> DEFINE N == Cardinality(Commands)
           X == Commands \cup {None}
           above(x) == IF x = None THEN None ELSE parent[x]
           step == [i \in 1..N |-> [x \in X |-> above(x)]]
<1>1. N \in Nat /\ c \in X
  BY TreeAssumption, FS_CardinalityType
<1>2. \A x \in X : above(x) \in X
  BY DEF Shape
<1>3. step \in StepsOver(N, X)
  <2> HIDE DEF above, N, X
  <2>. QED BY <1>2 DEF StepsOver
<1>4. PICK f : Iterates(f, c, step, N, X)
  <2> HIDE DEF N, X, step
  <2>. QED BY <1>1, <1>3, Recursion
<1>5. \A i \in 1..N : step[i][f[i - 1]] = above(f[i - 1])
  <2>1. \A i \in 1..N : f[i - 1] \in X
    <3> HIDE DEF X, N, step
    <3>. QED BY <1>1, <1>4 DEF Iterates
  <2> HIDE DEF above, X
  <2>. QED BY <2>1
<1>6. f = [i \in 0..N |-> IF i = 0 THEN c ELSE IF f[i - 1] = None THEN None ELSE parent[f[i - 1]]]
  <2> HIDE DEF step, X, N
  <2>1. \A i \in 0..N : i # 0 => i \in 1..N
    BY <1>1
  <2>2. \A i \in 0..N : f[i] = IF i = 0 THEN c ELSE IF f[i - 1] = None THEN None ELSE parent[f[i - 1]]
    BY <1>4, <1>5, <2>1 DEF Iterates
  <2>. QED BY <1>4, <2>2 DEF Iterates
<1> DEFINE up == Up(c)
<1>7. up = [i \in 0..N |-> IF i = 0 THEN c ELSE IF up[i - 1] = None THEN None ELSE parent[up[i - 1]]]
  BY <1>6 DEF Up
<1> HIDE DEF up, N
<1>8. ASSUME NEW i \in 0..N
      PROVE  up[i] = IF i = 0 THEN c ELSE IF up[i - 1] = None THEN None ELSE parent[up[i - 1]]
  BY <1>7
<1>9. 0 \in 0..N /\ \A i \in 0..(N - 1) : i \in 0..N /\ i + 1 \in 0..N /\ i + 1 # 0 /\ (i + 1) - 1 = i
  BY <1>1
<1>. QED BY <1>8, <1>9 DEF up, N

(* The way up from a command is the command and then the way up from its parent, *)
LEMMA UpFromParent ==
  ASSUME Shape, NEW c \in Commands, parent[c] \in Commands
  PROVE  \A i \in 0..(Cardinality(Commands) - 1) : Up(c)[i + 1] = Up(parent[c])[i]
<1> DEFINE N == Cardinality(Commands)
           p == parent[c]
           S == {i \in 0..(N - 1) : Up(c)[i + 1] = Up(p)[i]}
<1>1. N \in Nat /\ N # 0 /\ c # None
  BY TreeAssumption, FS_CardinalityType, FS_EmptySet
<1>2. 0 \in 0..(N - 1) /\ N - 1 \in Nat
  BY <1>1
<1>3. Up(c)[1] = p
  <2>1. Up(c)[0 + 1] = IF Up(c)[0] = None THEN None ELSE parent[Up(c)[0]]
    BY <1>2, UpIs
  <2>. QED BY <1>1, <2>1, UpIs
<1>4. 0 \in S
  BY <1>2, <1>3, UpIs
<1>5. ASSUME NEW i \in 0..((N - 1) - 1), i \in S PROVE i + 1 \in S
  <2>1. i + 1 \in 0..(N - 1) /\ i \in 0..(N - 1)
    BY <1>1
  <2>2. Up(c)[(i + 1) + 1] = IF Up(c)[i + 1] = None THEN None ELSE parent[Up(c)[i + 1]]
    BY <2>1, UpIs
  <2>3. Up(p)[i + 1] = IF Up(p)[i] = None THEN None ELSE parent[Up(p)[i]]
    BY <2>1, UpIs
  <2>4. Up(c)[i + 1] = Up(p)[i]
    BY <1>5
  <2>. QED BY <2>1, <2>2, <2>3, <2>4
<1>6. 0..(N - 1) \subseteq S
  <2> HIDE DEF S, N
  <2>. QED BY <1>2, <1>4, <1>5, Counting
<1>. QED BY <1>6

(* and it ends in time. *)
LEMMA UpEndsAtRoot ==
  ASSUME Shape, NEW rank, Ranks(rank), NEW c \in live
  PROVE  Up(c)[Cardinality(Commands)] = None
<1> DEFINE N == Cardinality(Commands)
           S == {i \in 0..N : \/ Up(c)[i] = None
                             \/ (Up(c)[i] \in live /\ rank[Up(c)[i]] + i <= rank[c])}
<1>1. N \in Nat /\ Cardinality(live) \in Nat /\ Cardinality(live) <= N /\ live \subseteq Commands
  BY TreeAssumption, FS_Subset, FS_CardinalityType DEF Shape
<1>2. c \in Commands /\ rank[c] \in Nat /\ rank[c] < N
  <2>1. c \in Commands /\ rank[c] \in Nat /\ rank[c] < Cardinality(live)
    BY <1>1 DEF Ranks
  <2>. QED BY <1>1, <2>1
<1>3. 0 \in S
  BY <1>1, <1>2, UpIs
<1>4. ASSUME NEW i \in 0..(N - 1), i \in S PROVE i + 1 \in S
  <2> DEFINE x == Up(c)[i]
             y == Up(c)[i + 1]
  <2>1. i \in 0..N /\ i + 1 \in 0..N /\ y = IF x = None THEN None ELSE parent[x]
    BY <1>2, UpIs
  <2>2. CASE x = None
    BY <2>1, <2>2
  <2>3. CASE x \in live /\ x # None /\ rank[x] + i <= rank[c]
    <3>1. y = parent[x]
      BY <2>1, <2>3
    <3>2. CASE x = Root
      BY <2>1, <3>1, <3>2 DEF Ranks
    <3>3. CASE x # Root
      <4>1. y \in live /\ rank[y] < rank[x] /\ rank[x] \in Nat /\ rank[y] \in Nat
        BY <1>1, <2>3, <3>1, <3>3 DEF Ranks
      <4>2. rank[y] + (i + 1) <= rank[c]
        <5> HIDE DEF x, y
        <5>. QED BY <1>2, <2>3, <4>1
      <4>. QED BY <2>1, <4>1, <4>2
    <3>. QED BY <3>2, <3>3
  <2>. QED BY <1>4, <2>2, <2>3
<1>5. N \in S
  <2>1. N \in 0..N
    BY <1>1
  <2> HIDE DEF S, N
  <2>. QED BY <1>1, <1>3, <1>4, <2>1, Counting
<1>6. Up(c)[N] = None \/ (Up(c)[N] \in live /\ rank[Up(c)[N]] + N <= rank[c])
  BY <1>5
<1>7. \A d \in live : rank[d] \in Nat
  BY <1>1 DEF Ranks
<1>8. SUFFICES ASSUME NEW d \in live, rank[d] + N <= rank[c] PROVE FALSE
  BY <1>6
<1> HIDE DEF N
<1>. QED BY <1>1, <1>2, <1>7, <1>8

(* What command_get returns: the setting at the least step up that has one *)
Having(c, k) == {i \in 0..Cardinality(Commands) : Up(c)[i] # None /\ settings[Up(c)[i]][k] # None}

LEMMA GetIs ==
  ASSUME NEW c \in Commands, NEW k \in Keys
  PROVE  /\ Having(c, k) = {} => CommandGet(c, k) = None
         /\ \A m \in Having(c, k) : (\A j \in Having(c, k) : m <= j) =>
                                    CommandGet(c, k) = settings[Up(c)[m]][k]
<1> DEFINE first == Having(c, k)
           at == CHOOSE i \in first : \A j \in first : i <= j
<1>1. CommandGet(c, k) = IF first = {} THEN None ELSE settings[Up(c)[at]][k]
  BY DEF CommandGet, Having, Up
<1>2. ASSUME NEW m \in first, \A j \in first : m <= j PROVE at = m
  <2>1. first \subseteq Nat
    BY TreeAssumption, FS_CardinalityType DEF Having
  <2> HIDE DEF first
  <2>2. at \in first /\ \A j \in first : at <= j
    BY <1>2
  <2> HIDE DEF at
  <2>3. at \in Nat /\ m \in Nat /\ at <= m /\ m <= at
    BY <1>2, <2>1, <2>2
  <2>. QED BY <2>3
<1> HIDE DEF first, at
<1>3. ASSUME NEW m \in first, \A j \in first : m <= j
      PROVE  CommandGet(c, k) = settings[Up(c)[m]][k]
  BY <1>1, <1>2, <1>3
<1>. QED BY <1>1, <1>3 DEF first

LEMMA OrderedInherits == ASSUME Shape, UpEnds PROVE SettingsInherited
<1> SUFFICES ASSUME NEW c \in live, NEW k \in Keys, c # Root, ~freed
             PROVE  CommandGet(c, k) = IF settings[c][k] # None THEN settings[c][k]
                                       ELSE CommandGet(parent[c], k)
  BY DEF SettingsInherited
<1> DEFINE N == Cardinality(Commands)
           p == parent[c]
           own == Having(c, k)
           inherited == Having(p, k)
<1>1. PICK rank : Ranks(rank)
  BY DEF UpEnds
<1>2. c \in Commands /\ p \in live /\ p \in Commands /\ c # None
  BY <1>1, TreeAssumption DEF Shape, Ranks
<1>3. N \in Nat /\ 0 \in 0..N /\ own \subseteq 0..N /\ inherited \subseteq 0..N
  BY TreeAssumption, FS_CardinalityType DEF Having
<1>4. CASE settings[c][k] # None
  <2>1. 0 \in own
    BY <1>2, <1>3, <1>4, UpIs DEF Having
  <2>2. \A j \in own : 0 <= j
    BY <1>3
  <2>3. CommandGet(c, k) = settings[Up(c)[0]][k]
    <3> HIDE DEF own
    <3>. QED BY <1>2, <2>1, <2>2, GetIs DEF own
  <2>. QED BY <1>2, <1>4, <2>3, UpIs
<1>5. CASE settings[c][k] = None
  <2>1. \A i \in 0..(N - 1) : Up(c)[i + 1] = Up(p)[i]
    BY <1>2, UpFromParent
  <2>2. 0 \notin own
    BY <1>2, <1>5, UpIs DEF Having
  <2>3. N \notin inherited
    BY <1>1, <1>2, UpEndsAtRoot DEF Having
  <2>4. \A i \in inherited : i \in 0..(N - 1) /\ i + 1 \in own
    <3> TAKE i \in inherited
    <3>1. i \in 0..N /\ i # N
      BY <1>3, <2>3
    <3>2. i \in 0..(N - 1) /\ i + 1 \in 0..N
      BY <1>3, <3>1
    <3>3. Up(c)[i + 1] = Up(p)[i]
      BY <2>1, <3>2
    <3>. QED BY <3>2, <3>3 DEF Having
  <2>5. \A i \in own : i \in Nat /\ i - 1 \in inherited
    <3> TAKE i \in own
    <3>1. i \in 0..N /\ i # 0
      BY <1>3, <2>2
    <3>2. i - 1 \in 0..(N - 1) /\ i - 1 \in 0..N /\ (i - 1) + 1 = i
      BY <1>3, <3>1
    <3>3. Up(c)[(i - 1) + 1] = Up(p)[i - 1]
      BY <2>1, <3>2
    <3>. QED BY <3>1, <3>2, <3>3 DEF Having
  <2>6. CASE inherited = {}
    <3>1. own = {}
      BY <2>5, <2>6
    <3>. QED BY <1>2, <1>5, <2>6, <3>1, GetIs
  <2>7. CASE inherited # {}
    <3>1. inherited \subseteq Nat
      BY <1>3
    <3>2. PICK m \in inherited : \A j \in inherited : m <= j
      <4> HIDE DEF inherited
      <4>. QED BY <2>7, <3>1, LeastNumber
    <3>3. m + 1 \in own /\ m \in 0..(N - 1)
      BY <2>4
    <3>4. \A j \in own : m + 1 <= j
      <4> HIDE DEF own, inherited
      <4>. QED BY <2>5, <3>1, <3>2
    <3>5. CommandGet(c, k) = settings[Up(c)[m + 1]][k]
      <4> HIDE DEF own, inherited
      <4>. QED BY <1>2, <3>3, <3>4, GetIs DEF own
    <3>6. CommandGet(p, k) = settings[Up(p)[m]][k]
      <4> HIDE DEF own, inherited
      <4>. QED BY <1>2, <3>2, GetIs DEF inherited
    <3>. QED BY <1>5, <2>1, <3>3, <3>5, <3>6
  <2>. QED BY <2>6, <2>7
<1>. QED BY <1>4, <1>5

(* However deep the tree: a command has the setting its parent has, unless it has its own. *)
THEOREM SettingsComeFromParents == Spec => []SettingsInherited
<1>1. IInv /\ UpEnds => SettingsInherited
  BY OrderedInherits DEF IInv
<1>. QED BY <1>1, Ordered, PTL
=============================================================================
