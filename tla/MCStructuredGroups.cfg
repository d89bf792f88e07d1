CONSTANTS
  None = None
  MaxSessions = 5
  MaxRoots = 1
  MaxDepth = 2
  MaxGroups = 2
  MaxFaults = 1
SPECIFICATION Spec
INVARIANTS
  NoOrphan
  LeafFirst
  ParentWoken
CHECK_DEADLOCK FALSE
