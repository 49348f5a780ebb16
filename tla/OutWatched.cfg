CONSTANTS
    Operation = "watched"
    Values = {"a"}
    NoValue = "a"
    Workers = {w1, w2}
    MaxRev = 2
    MaxAttempts = 2
    MaxCrashes = 1
    ReadsKnown = FALSE
SPECIFICATION FairSpec
PROPERTIES OutcomesAreFinal Settles
CHECK_DEADLOCK FALSE
