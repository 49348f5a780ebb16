\* Two items, one sweep and one drain, a deployment and a fault.
SPECIFICATION FairSpec
CONSTANTS
    MaxItem = 2
    Sweepers = {s1}
    Drains = {d1}
    ChunkSize = 1
    MaxChunks = 1
    MaxAttempts = 2
    MaxVersion = 2
    MaxFaults = 1
INVARIANTS
    TypeOK
    
PROPERTIES
    SweepConverges
    RetriesKeepComing
