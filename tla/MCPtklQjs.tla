----------------------------- MODULE MCPtklQjs -----------------------------
(***************************************************************************)
(* The runtime gets every line of up to three elements.  An expression       *)
(* inside a cluster ("-eT") looks like options, and a script's own options    *)
(* like the runtime's; a script may be called "compile".                     *)
(*                                                                         *)
(* Among the compiler's files main imports util, which imports a module of   *)
(* main's C name and main itself; main_1 has the name find_unique_cname       *)
(* would choose; plain is a script.  One file has a syntax error, and one     *)
(* imports what is not there.                                               *)
(***************************************************************************)
EXTENDS PtklQjs, TLC

CONSTANTS b1, b2   \* blocks

MCScanned ==
  {Word("f"), Word("g"), Cluster(<<"e">>), Cluster(<<"e", "T">>), Cluster(<<"d", "e">>),
   Cluster(<<"T">>), Cluster(<<"T", "I">>), Cluster(<<"I", "I">>), Cluster(<<"I", "e">>), Cluster(<<"q", "m">>),
   Long("memory-limit"), Long("stack-size"), Long("script"), Long("no such"), Cluster(<<"h">>), Dash, Stop}
MCRare == {Long("std"), Long("bignum"), Long("unhandled-rejection"), Cluster(<<"d", "?">>)}
MCLines ==
  UNION {[1..n -> MCScanned] : n \in 0..3}
    \cup {<<el, Cluster(<<"T">>), Word("f"), el>> : el \in MCRare}
    \cup {<<Word("compile")>>, <<Stop, Word("compile")>>, <<Cluster(<<"T">>), Word("compile")>>}
MCElements == MCScanned \cup MCRare \cup {Word("compile")}
MCNumberOf(w) == IF w = Word("g") THEN 4 ELSE 0
MCFiles == {Word("f"), Word("compile")}

MCSources == {"std", "os", "x.so", "main", "util", "lib/main", "main_1", "plain", "broken", "lost", "gone"}
MCImports ==
  [f \in MCSources |->
     CASE f = "main"     -> <<"util", "std">>
       [] f = "util"     -> <<"lib/main", "main">>
       [] f = "lib/main" -> <<"main_1", "std", "x.so">>
       [] f = "lost"     -> <<"gone">>
       [] OTHER          -> <<>>]
MCIsModule == {"main", "util", "lib/main", "main_1", "broken", "lost"}
MCReadable == MCIsModule \cup {"plain"}
MCCName ==
  [f \in MCSources |->
     CASE f \in {"main", "lib/main"} -> [stem |-> "main", numbers |-> <<>>]
       [] f = "main_1"               -> [stem |-> "main", numbers |-> <<1>>]
       [] OTHER                      -> [stem |-> f, numbers |-> <<>>]]
Switch(kind, value) == [kind |-> kind, value |-> value]
MCOptions ==
  {Switch("output", "c"), Switch("output", "main"), Switch("name", MCCName["main"]),
   Switch("module", ""), Switch("external", "main_1"), Switch("dynamic", "lib/main"),
   Switch("dynamic", "std"), Switch("help", ""), Switch("nofeature", ""), Switch("other", "")}
=============================================================================
