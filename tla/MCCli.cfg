SPECIFICATION CliSpec
CONSTANTS
  Items = {x, y}
  None = None
  InitialCapacity = 2
  Memory = 4
  Variables <- MCVariables
  Cells = {1, 2, 3, 4, 5}
  Nil = 0
  Own <- MCOwn
  Fields <- MCFields
  Commands <- MCCommands
  Empty = Empty
  Lines <- MCLines
INVARIANTS
  WithinBlock
  CountsItsReferences
  ParseAddsTheLine
PROPERTY HoldsTheSequence
CHECK_DEADLOCK FALSE
