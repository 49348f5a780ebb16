\* Two connections and a log of two rows; the proofs cover any number of requests.
SPECIFICATION FairSpec
CONSTANTS
    Bindings = {b1, b2}
    Pulls = {q1}
    NoBinding = nobinding
    MaxSequence = 2
INVARIANTS
    TypeOK
    CheckpointsAreProven
PROPERTIES
    HeardClientsKeepTheirTail
    
