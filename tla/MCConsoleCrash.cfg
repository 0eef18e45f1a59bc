SPECIFICATION SessionSpec
CONSTANTS
  Letters <- MCLetters
  Commands <- MCCommands
  Quit <- MCQuit
  Junk = "junk"
  BufLen = 3
  Signals = {"SIGSEGV", "SIGABRT"}
  Segv = "SIGSEGV"
INVARIANT NeverCrashes
CHECK_DEADLOCK FALSE
