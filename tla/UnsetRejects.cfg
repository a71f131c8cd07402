SPECIFICATION Spec
CONSTANTS
  Capacity = 1
  QueueSize = 1
  MaxEvents = 1
  MaxForeign = 1
  MaxCrashes = 1
  MaxTime = 1
  RetentionDays = {1}
INVARIANT UnsetRejectsAll
