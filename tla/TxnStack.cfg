SPECIFICATION Spec
CONSTANTS
    Handles = {h1, h2, h3, h4}
    Writes = {w1, w2}
    NoHandle = NoHandle
    Driver = "rusqlite"
    Faults <- EndFaults
    Streamers = {}
    Lifo = TRUE
SYMMETRY Interchangeable
INVARIANTS CommittedIsDurable OnlyCommittedIsDurable
CHECK_DEADLOCK FALSE
