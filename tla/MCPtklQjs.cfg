SPECIFICATION MainSpec
CONSTANTS
  b1 = b1
  b2 = b2
  Elements <- MCElements
  Lines <- MCLines
  NumberOf <- MCNumberOf
  MaxIncludes = 1
  Blocks = {b1, b2}
  Requests = {1, 2}
  Rounding = 1
  Overhead = 1
  Unlimited = 100
  Files <- MCFiles
  Sources <- MCSources
  Imports <- MCImports
  IsModule <- MCIsModule
  Readable <- MCReadable
  Broken = {"broken"}
  Shared = {"x.so"}
  CName <- MCCName
  Options <- MCOptions
  MaxOptions = 2
  MaxFiles = 2
INVARIANTS
  ScriptGetsItsLine
  BlocksAccountedFor
  StatusTellsWhatRan
  RunsWhatWasNamed
  ImportsAreAvailable
  LoadedModulesAreNamedApart
PROPERTIES
  LimitHolds
  MainReturns
  ComesBack
CHECK_DEADLOCK FALSE
