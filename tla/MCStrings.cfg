SPECIFICATION Spec
CONSTANTS
  Letters = {"f", "F", " "}
  Blank = " "
  Upper <- MCUpper
  MaxLength = 3
INVARIANT SliceExcludesEnd
CHECK_DEADLOCK FALSE
