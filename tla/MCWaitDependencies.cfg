CONSTANTS
  s1 = s1
  s2 = s2
  s3 = s3
  t1 = t1
  t2 = t2
  None = None
  Sessions <- MCSessions
  Tasks <- MCTasks
  MaxTaskWaiters = 2
  MaxGroups = 1
  MaxSerial = 3
SYMMETRY Symmetry
SPECIFICATION Spec
INVARIANTS
  Acyclic
  RefusalExact
  NoLostWait
