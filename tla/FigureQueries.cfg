\* Three figures, pages of two, two writes while a client reads statistics and pages.
SPECIFICATION Spec
CONSTANTS
  Ids = {i1, i2, i3}
  wished = wished
  Owned = Owned
  Statuses = {Owned, wished}
  AnyStatus = AnyStatus
  v = v
  Values = {v}
  Unspecified = Unspecified
  Missing = Missing
  Empty = Empty
  c = c
  Credits = {c}
  Docs <- MCDocs
  Queries <- MCQueries
  Limit = 2
  MaxWrites = 2
INVARIANT WalksAreExplained
SYMMETRY Symmetry
CHECK_DEADLOCK FALSE
