\* Two requests at a time over two lists of at most two items and two names.
CONSTANTS
  a = a
  b = b
  n = n
  m = m
  l1 = l1
  l2 = l2
  Lists = {l1, l2}
  Items = {a, b}
  Names = {n, m}
  NoList = NoList
  Unnamed = Unnamed
  NewLists <- MCNew
  Puts <- MCPuts
  Syncs <- MCSyncs
  Slots = {r1, r2}
  MaxRequests = 5
SYMMETRY SlotSymmetry
SPECIFICATION Spec
INVARIANTS
  ListTypeOK
  CountIsExplained
PROPERTIES
  ShelfSpec
CHECK_DEADLOCK FALSE
