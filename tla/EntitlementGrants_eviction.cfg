\* Three subjects for a cache of two, so that a live entry is evicted while
\* another stays; the graph stands still.
CONSTANTS
  Subjects = {s1, s2, s3}
  WellFormed = {s1, s2, s3}
  Never <- MCNever
  Callers = {c1, c2}
  CacheTtl = 2
  ErrorTtl = 1
  Timeout = 1
  CacheMax = 2
  AssertionTtl = 1
  SigningKey = TRUE
  NoRequest = NoRequest
  MaxTime = 3
  LastChange = 0
SPECIFICATION Spec
SYMMETRY Interchangeable
INVARIANTS
  CacheBounded
PROPERTIES
  OldestGoFirst
