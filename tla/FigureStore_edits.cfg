\* Two requests of the user and a report: edits over stale copies, deletes,
\* index writes in any order.
CONSTANTS
  m = m
  n1 = n1
  n2 = n2
  o = o
  t = t
  Figures = {f1, f2}
  Items = {m}
  Names = {n1, n2}
  Origins = {o}
  Tags = {t}
  Statuses = {"owned", "wished"}
  Owned = "owned"
  None = None
  Unnamed = Unnamed
  Unborn = Unborn
  Deleted = Deleted
  NewBodies <- MCNew
  EditBodies <- MCEdits
  Reports <- MCReports
  UserSlots = {u1, u2}
  WebhookSlots = {w1}
  MaxRequests = 4
SPECIFICATION FairSpec
INVARIANTS
  FigureTypeOK
  IndexFollows
PROPERTIES
  DeletedStaysDeleted
  EditsOnlyWhatItNames
  IndexSettles
CHECK_DEADLOCK FALSE
