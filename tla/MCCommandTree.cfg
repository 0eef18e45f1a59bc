SPECIFICATION Spec
CONSTANTS
  Commands = {root, c1, c2, c3}
  Root = root
  Names = {a, b}
  Groups = {g, h}
  Keys = {version}
  Values = {v, w}
  None = None
SYMMETRY Interchangeable
INVARIANTS
  FoundIsListed
  ListedUnderItsGroup
  SettingsInherited
CHECK_DEADLOCK FALSE
