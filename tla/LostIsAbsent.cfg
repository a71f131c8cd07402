SPECIFICATION Spec
CONSTANTS
  MaxTime = 2
  RetentionDays = {1}
  QueueSize = 2
  MaxEvents = 4
  MaxCrashes = 1
INVARIANT LostIsAbsent
