SPECIFICATION MCFairSpec
CONSTANTS
  MaxTime = 3
  RetentionDays = {1, 2}
  QueueSize = 2
  MaxEvents = 3
  MaxCrashes = 0
  StreamLimit = 1
  Scale <- MCScale
  Int64Max = 700
  Microsecond = 10
  Upper <- MCUpper
  WindowChars = {"-", "0", "5", ".", "m", "n", "s"}
  PathChars <- MCPathChars
  WindowLength = 6
  FilterLength = 2
  PathLength = 3
  Bounds <- MCBounds
  EventTimes = {1, 2, 3}
INVARIANTS
  StreamPassesNothing
  DurationIsExact
  FiltersAgree
PROPERTIES
  RetentionRespected
  StreamCatchesUp
