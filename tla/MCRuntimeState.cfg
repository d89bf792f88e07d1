CONSTANTS
  None = None
  NoAttempt = NoAttempt
  Nobody = Nobody
  Vacant = Vacant
  a = a
  w1 = w1
  w2 = w2
  p1 = p1
  b = b
  Executions = {e1, e2, e3, e4, e5}
  MaxSlots = 2
  MaxGeneration = 1
  Cells = {c1, c2, c3}
  MaxAttempts = 4
  MaxNesting = 3
  Objects = {o1}
  MaxFrames = 3
  MaxBorrows = 2
  MaxCount = 2
  BITS = 1
  LEAF_BITS = 1
  MaxShift = 2
  Values = {v1, v2}
  HubWakers = {w1, w2}
  e1 = e1
  e2 = e2
  Host = Host
  Work = {e1, e2}
  Signallers = {p1}
  MaxSerial = 1
  HubFaults = 2
SPECIFICATION PartSpec
CHECK_DEADLOCK FALSE
INVARIANTS
  ReadyIsAnnounced
  FaultReported
  NoAlias
  InitializingHasFrame
  CycleNeverReady
  NoAliasing
  LookupExact
