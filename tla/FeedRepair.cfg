\* The repair, an import, a reset and a short log, over one item, with fairness.
SPECIFICATION FairSpec
CONSTANTS
    MaxItem = 1
    Values = {unwatched, watched}
    Unwatched = unwatched
    None = none
    Clients = {c1}
    Walkers = {repair}
    Repairs = {repair}
    Imports = {m1}
    Resumable = {1}
    MaxSequence = 2
    MaxGeneration = 1
INVARIANTS
    BaselineIsRepaired
    FeedKeepsBaseline
PROPERTIES
    MirrorsCatchUp
