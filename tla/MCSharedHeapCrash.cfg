SPECIFICATION HeapSpec
CONSTANTS
  Addresses = {n1, n2, n3}
  Null = Null
  Wild = Wild
  Items = {a, b}
  None = None
INVARIANT NeverCrashes
CHECK_DEADLOCK FALSE
