SPECIFICATION Spec
CONSTANTS
  Kinds <- MCKinds
  HourLen = 2
  Windows = {1, 2}
  SampleLimit = 3
  LivenessWindow = 0
  Delays <- MCDelays
  MaxBatch = 2
  MaxEvents = 3
  Start = 11
  MaxTime = 13
INVARIANTS
  ViewsAgree
  P50IsMedian
  ConnectedIsRecent
PROPERTIES
  CardsWithinChart
