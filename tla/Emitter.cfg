SPECIFICATION FairSpec
CONSTANTS
  Capacity = 2
  MaxEvents = 5
INVARIANTS
  Accounted
  NoLostWakeup
  CloseDrains
  FailuresReported
PROPERTIES
  FeedSpec
  EveryEventSettles
