\* Two requests at a time for one user whose account is older than the mail.
CONSTANTS
  Users = {u1}
  NoAccount = NoAccount
  Slots = {r1, r2}
  MaxRequests = 5
SPECIFICATION Spec
INVARIANTS
  AuthTypeOK
  OldSessionsEnd
  LinksAreBounded
PROPERTIES
  VerifiedStays
CHECK_DEADLOCK FALSE
