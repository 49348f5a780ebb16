CONSTANTS
    Operation = "watched"
    Values = {"a", "b"}
    NoValue = "a"
    Workers = {w1, w2}
    MaxRev = 2
    MaxAttempts = 2
    MaxCrashes = 0
    ReadsKnown = TRUE
SPECIFICATION Spec
PROPERTY RevisionsOrderWrites
CHECK_DEADLOCK FALSE
