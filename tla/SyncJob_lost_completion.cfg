\* Two webhooks at the same time.
CONSTANTS
  a = a
  b = b
  MfcIds = {a, b}
  Queues <- MCQueues
  ReportStatuses = {"completed"}
  ScraperPhases = {"enriching"}
  w1 = w1
  w2 = w2
  WebhookSlots = {w1, w2}
  UserSlots = {u1}
  Timer = timer
  MaxRuns = 1
  MaxVersion = 2
  MaxInFlight = 2
SPECIFICATION Spec
PROPERTY LastReportClosesJob
