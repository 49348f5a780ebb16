CONSTANTS
    Operation = "rating"
    Values = {"a", "b"}
    NoValue = "a"
    Workers = {w1, w2}
    MaxRev = 2
    MaxAttempts = 2
    MaxCrashes = 1
    ReadsKnown = TRUE
SPECIFICATION Spec
SYMMETRY WorkerSymmetry
INVARIANTS TypeOK ExclusiveAttempt NewestStands RetryBudget
PROPERTIES RevisionsOrderWrites AppliedOnce DeliveredIsTrue KeepsContract
CHECK_DEADLOCK FALSE
