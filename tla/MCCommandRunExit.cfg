SPECIFICATION Spec
CONSTANTS
  CommandNames <- MCNames
  Main = "ptkl"
  SubcommandsOf <- MCSubcommands
  FlagsOf <- PtklFlags
  ExpectArgs <- PtklExpect
  HasHandler <- MCHandled
  NoShort <- MCNoShort
  Lines <- PtklLines
INVARIANT ExitFlagStopsTheRun
CHECK_DEADLOCK FALSE
