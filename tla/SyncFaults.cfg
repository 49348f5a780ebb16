SPECIFICATION FairSpec
CONSTANTS
    LastDay = 2
    FirstToday = 1
    Hot <- MCHot
    Heavy <- MCHeavy
    Window <- MCWindow
    Workers = {w1}
    Writers = {c1}
    Readers = {}
    ImportKinds = {}
    Faults = {"crash", "abort", "yield", "lose", "evict", "flush"}
    SlowAt <- MCSlowAt
    MidnightAt <- MCMidnightAt
    MaxChanges = 1
    MaxRefreshes = 0
    MaxImports = 0
    MaxInline = 0
    MaxLapses = 0
    MaxFaults = 1
INVARIANTS SyncedDayIsHonest IdleMeansCurrent
PROPERTIES
    EventuallyCurrent
CHECK_DEADLOCK FALSE
