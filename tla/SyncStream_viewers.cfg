\* Two viewers of a session; one webhook at a time, a user request and the
\* cleanup besides.
CONSTANTS
  a = a
  MfcIds = {a}
  Queues <- MCQueues
  ReportStatuses = {"completed"}
  ScraperPhases = {"enriching"}
  WebhookSlots = {w1}
  UserSlots = {u1}
  Timer = timer
  Viewers = {v1, v2}
  NoSet = NoSet
  MaxRuns = 1
  MaxVersion = 1
  MaxInFlight = 2
SPECIFICATION StreamFairSpec
INVARIANTS
  StreamTypeOK
  OpenStreamsAreRegistered
  NoDeadStreams
PROPERTIES
  FinalNewsIsTrue
  EndIsHeard
