SPECIFICATION Spec
CONSTANTS
  CommandNames <- MCNames
  Main = "ptkl"
  SubcommandsOf <- MCSubcommands
  FlagsOf <- MCFlags
  ExpectArgs <- MCExpect
  HasHandler <- MCHandled
  NoShort <- MCNoShort
  Lines <- MCLines
INVARIANTS
  FailureIsReported
  SuccessRanOneHandler
  
PROPERTIES
  CallbacksFirst
  NothingRunsTwice
  MainReturns
CHECK_DEADLOCK FALSE
