SPECIFICATION Spec
CONSTANTS
  Keys <- Names
  Values = {v1}
  Nil = Nil
  Hash <- NameHash
  InitialCapacity = 2
INVARIANTS
  WellPlaced
  NothingLost
  LoadBounded
  WalkIsExact
PROPERTIES
  DictionarySpec
CHECK_DEADLOCK FALSE
