SPECIFICATION Spec
CONSTANTS
    LastDay = 1
    FirstToday = 1
    Hot <- MCHot
    Heavy <- NoRanges
    Window <- MCWindow
    Workers = {w1, w2}
    Writers = {c1}
    Readers = {}
    ImportKinds = {}
    Faults = {}
    SlowAt <- MCSlowAt
    MidnightAt <- MCMidnightAt
    MaxChanges = 2
    MaxRefreshes = 0
    MaxImports = 0
    MaxInline = 0
    MaxLapses = 1
    MaxFaults = 0
SYMMETRY WorkerSymmetry
INVARIANTS StaleDaysAreOnRecord FreshIsCurrent
PROPERTIES LoserIsInert KeepsContract
CHECK_DEADLOCK FALSE
