\* Two workers, a page or import and the sweep, batches of two, one fault.
SPECIFICATION Spec
CONSTANTS
    Members = {m1, m2}
    Workers = {w1, w2}
    Callers = {page}
    Sweep = sweep
    BatchSize = 2
    MaxWakes = 2
    MaxFaults = 1
INVARIANTS
    TypeOK
    NothingDropped
    NothingStranded
    OneDrain
SYMMETRY Interchangeable
CHECK_DEADLOCK FALSE
