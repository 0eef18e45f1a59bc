---------------------------- MODULE MCCommandRun ----------------------------
(***************************************************************************)
(* The commands of ptkl, with what libcli accepts and ptkl does not use yet: *)
(* flags that want an argument, have no callback or no short name, flags of  *)
(* a subcommand, and a subcommand without a handler that has one of its own. *)
(***************************************************************************)
EXTENDS CommandRun, PtklCommands

PtklNames == {MainCommand.name} \cup {c.name : c \in Subcommands}
MCNames == PtklNames \cup {"bare", "deep"}
MCNoShort == "\\0"
MCSubcommands ==
  [c \in MCNames |->
     CASE c = "ptkl" -> MCNames \ {"ptkl", "deep"} [] c = "bare" -> {"deep"} [] OTHER -> {}]
PtklExpect ==
  [c \in MCNames |->
     IF c \in PtklNames THEN (CHOOSE d \in Subcommands \cup {MainCommand} : d.name = c).expects
     ELSE 1]
MCExpect == [PtklExpect EXCEPT !["ptkl"] = 1]
MCHandled == PtklNames \cup {"deep"}

(* -o takes an argument, --all has neither a short name nor a callback, -q has no callback;    *)
(* run has a flag with a callback, one that exits and one that takes an argument.              *)
MCFlags == [c \in MCNames |->
  CASE c = "ptkl" -> MainFlags \o <<FlagSpec("o", "out", TRUE, TRUE, FALSE),
                                    FlagSpec(MCNoShort, "all", FALSE, FALSE, FALSE),
                                    FlagSpec("q", "quiet", FALSE, FALSE, FALSE)>>
    [] c = "run"  -> <<FlagSpec("x", "xray", FALSE, TRUE, FALSE),
                       FlagSpec("e", "each", FALSE, TRUE, TRUE),
                       FlagSpec("f", "from", TRUE, TRUE, FALSE)>>
    [] OTHER      -> <<>>]

(* Lines of four of the commonest elements, and of three of any kind *)
MCCommon == {Word("run"), Word("file"), Short(<<"v">>), Short(<<"o">>), Short(<<"x">>), EndOfFlags}
MCRare == {Word("logs"), Word("bare"), Word("deep"), Short(<<"x", "e">>), Short(<<"o", "x">>),
           Short(<<"v", "o">>), Short(<<"f">>), Long("all"),
           Long("xray"), Long("out"), Long("help"), Short(<<"q">>)}
MCLines == BoundedSeq(MCCommon, 4) \cup BoundedSeq(MCCommon \cup MCRare, 3)

(* ptkl as it is, and the lines its help speaks of *)
PtklFlags == [c \in MCNames |-> IF c = "ptkl" THEN MainFlags ELSE <<>>]
PtklLines ==
  BoundedSeq({Word("run"), Word("version"), Word("file"), Short(<<"v">>), Short(<<"h">>)}, 3)
=============================================================================
