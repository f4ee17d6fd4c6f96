\* Two requests at a time; sets of two backup codes.
CONSTANTS
  Slots = {r1, r2}
  Codes = {1, 2}
  MaxCount = 2
  MaxRequests = 6
SPECIFICATION Spec
INVARIANTS
  TwoFactorTypeOK
  LoginsAreSpent
PROPERTIES
  FactorsAreExplained
CHECK_DEADLOCK FALSE
