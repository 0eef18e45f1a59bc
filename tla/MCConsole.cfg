SPECIFICATION SessionSpec
CONSTANTS
  Letters <- MCLetters
  Commands <- MCCommands
  Quit <- MCQuit
  Junk = "junk"
  BufLen = 3
  Signals = {"SIGSEGV", "SIGABRT"}
  Segv = "SIGSEGV"
INVARIANTS
  LineExtendsTyped
  CompletionsShown
  ErrorHidesStatus
  StatusFollowsTyping
  TerminalIsGivenBack
PROPERTIES
  EnterRunsWhatWasTyped
  QuitReturns
  FaultEnds
CHECK_DEADLOCK FALSE
