SPECIFICATION Spec
CONSTANTS
    LastDay = 2
    FirstToday = 2
    Hot <- MCHot
    Heavy <- MCHeavy
    Window <- MCWindow
    Workers = {w1}
    Writers = {}
    Readers = {}
    ImportKinds = {"scoped", "blanket", "failed"}
    Faults = {}
    SlowAt <- MCSlowAt
    MidnightAt <- MCMidnightAt
    MaxChanges = 2
    MaxRefreshes = 1
    MaxImports = 1
    MaxInline = 0
    MaxLapses = 0
    MaxFaults = 0
INVARIANTS  FreshIsCurrent 
CHECK_DEADLOCK FALSE
