CONSTANTS
  t1 = t1
  t2 = t2
  th = th
  Rt = Rt
  None = None
  Tasks = {t1, t2}
  Threads = {th}
  MaxTasks = 2
  MaxEvents = 1
  MaxFails = 2
  MaxGen = 2
  MaxQuarantines = 1
SYMMETRY Symmetry
CONSTRAINT Spawns
SPECIFICATION Spec
CHECK_DEADLOCK FALSE
INVARIANTS
  CloseReachesAll
  NoLostNotice
  NoSleeper
