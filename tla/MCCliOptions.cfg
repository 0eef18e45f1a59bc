SPECIFICATION HelpSpec
CONSTANTS
  Commands <- MCCommands
  Root = "root"
  Options <- MCOptions
  Short <- MCShort
  Long <- MCLong
  NoLong = "null"
  Args <- MCArgs
  Width <- MCWidth
  Size = 12
INVARIANTS AcceptsUniqueOptions UsageIsCutToFit
CHECK_DEADLOCK FALSE
