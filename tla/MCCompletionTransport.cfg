CONSTANTS
    None = None
    o1 = o1
    Ops = {o1, o2, o3}
    Producers = {p1, p2}
    Serves <- MCServes
    Capacity = 2
    MaxGen = 1
SPECIFICATION Spec
INVARIANTS
    FirstResultWins
    ResultOrHook
    LeasesMatchSlots
    NoLostWake
CHECK_DEADLOCK FALSE
