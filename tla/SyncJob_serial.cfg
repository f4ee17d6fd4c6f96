\* One webhook at a time, with a user request and the cleanup: three handlers at once.
CONSTANTS
  a = a
  b = b
  MfcIds = {a, b}
  Queues <- MCQueues
  ReportStatuses = {"failed"}
  ScraperPhases = {"enriching"}
  w1 = w1
  w2 = w2
  WebhookSlots = {w1}
  UserSlots = {u1}
  Timer = timer
  MaxRuns = 1
  MaxVersion = 2
  MaxInFlight = 3
SPECIFICATION FairSpec
INVARIANTS
  StatsMatchItems
  CompletedMeansAllDone
PROPERTIES
  SessionSpec
  ZombiesCleared
