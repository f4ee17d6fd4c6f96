\* Two requests of the user and two reports of an item at a time: duplicates.
CONSTANTS
  m = m
  n1 = n1
  n2 = n2
  o = o
  t = t
  Figures = {f1, f2, f3, f4}
  Items = {m}
  Names = {n1, n2}
  Origins = {o}
  Tags = {t}
  Statuses = {"owned", "wished"}
  Owned = "owned"
  None = None
  Unnamed = Unnamed
  Unborn = Unborn
  Deleted = Deleted
  NewBodies <- NamedNew
  EditBodies <- PlainEdits
  Reports <- SyncReports
  UserSlots = {u1, u2}
  WebhookSlots = {w1, w2}
  MaxRequests = 5
SPECIFICATION Spec
INVARIANT DuplicatesAreBounded
CHECK_DEADLOCK FALSE
