CONSTANTS
  w1 = w1
  w2 = w2
  p1 = p1
  None = None
  Wakers = {w1, w2}
  MaxFaults = 2
  Providers = {p1}
  HostWakers = {w1, w2}
  MaxAnswers = 2
  MaxSets = 2
  UsizeMax = 12
  Limit = 9
  MinGrowth = 2
  GrowthPercent = 150
  AssistMultiplier = 1
  RetirementCap = 2
  CycleWork = 2
  MaxOps = 5
SPECIFICATION PartFairSpec
CHECK_DEADLOCK FALSE
INVARIANTS
  NoLostResult
  NoLostAnswer
  WakerTold
PROPERTIES
  CancelEnds
  AbandonedRetires
  CollectorSleeps
