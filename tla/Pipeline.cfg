SPECIFICATION FairSpec
CONSTANTS
  Capacity = 1
  QueueSize = 1
  MaxEvents = 2
  MaxForeign = 2
  MaxCrashes = 1
  MaxTime = 1
  RetentionDays = {1}
INVARIANTS
  NoDuplicates
  DeliveredIsKept
  OrderKept
PROPERTIES
  EveryVerdictEnds
