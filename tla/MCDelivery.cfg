CONSTANTS
  Cancellers = {c1, c2}
  Subs = {s1, s2, s3}
  None = None
  o1 = o1
  Ops = {o1}
  Producers = {p1, p2}
  Serves <- MCServes
  Capacity = 1
  MaxGen = 0
SPECIFICATION PartFairSpec
INVARIANT NoLostCancellation
PROPERTIES
  CancellationDelivered
  ResultConsumed
CHECK_DEADLOCK FALSE
