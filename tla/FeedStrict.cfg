\* One strict client of either resource, and bootstrap's walk, over two items.
SPECIFICATION Spec
CONSTANTS
    MaxItem = 2
    Values = {unwatched, watched}
    Unwatched = unwatched
    None = none
    Clients = {c1}
    Walkers = {backfill}
    Repairs = {}
    Imports = {}
    Resumable = {1}
    MaxSequence = 3
    MaxGeneration = 0
CONSTRAINTS
    OneItemPositions
INVARIANTS
    TypeOK
    ReplayReachesState
PROPERTIES
    CaughtUpIsTrue
