----------------------------- MODULE MCConsole -----------------------------
(***************************************************************************)
(* Three commands: quit, which any q abbreviates, and service and storage, *)
(* which share their first letter.  The buffer has room for one letter     *)
(* more than a name.                                                       *)
(***************************************************************************)
EXTENDS ConsoleSession

MCLetters == {"q", "u", "s", "e", "t"}
MCQuit == <<"q", "u">>
MCCommands == <<MCQuit, <<"s", "e">>, <<"s", "t">>>>
=============================================================================
