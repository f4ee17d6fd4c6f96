\* Two callers, one uuid and one identifier of another shape; the clock runs
\* twice past every TTL, and the graph changes at any time.
CONSTANTS
  Subjects = {s1, x}
  WellFormed = {s1}
  Never <- MCNever
  Callers = {c1, c2}
  CacheTtl = 3
  ErrorTtl = 1
  Timeout = 1
  CacheMax = 1
  AssertionTtl = 1
  SigningKey = TRUE
  NoRequest = NoRequest
  MaxTime = 6
  LastChange = 6
SPECIFICATION FairSpec
INVARIANTS
  TypeOK
  RevokeTakesEffect
  NobodyIsForgotten
PROPERTIES
  GateSpec
  EveryoneIsAnswered
