SPECIFICATION Spec
CONSTANTS
    LastDay = 1
    FirstToday = 1
    Hot <- MCHot
    Heavy <- MCHeavy
    Window <- MCWindow
    Workers = {w1}
    Writers = {}
    Readers = {b1}
    ImportKinds = {"unchanged", "scoped", "blanket"}
    Faults = {}
    SlowAt <- MCSlowAt
    MidnightAt <- AllPoints
    MaxChanges = 1
    MaxRefreshes = 1
    MaxImports = 1
    MaxInline = 1
    MaxLapses = 0
    MaxFaults = 0
INVARIANTS TypeOK MarkersAreHonest
CHECK_DEADLOCK FALSE
