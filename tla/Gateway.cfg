SPECIFICATION FairSpec
CONSTANTS
  Requests = {r1, r2}
  Statuses = {200, 401, 502}
  Capacity = 1
  MaxEvents = 2
INVARIANTS
  AcknowledgedIsProcessed
  OnlyVerifiedReachUpstream
  EventsMatchAnswers
  ShutdownIsComplete
PROPERTIES
  HandlersEnd
