SPECIFICATION Spec
CONSTANTS
    Handles = {h1, h2, h3, h4}
    Writes = {w1}
    NoHandle = NoHandle
    Driver = "rusqlite"
    Faults <- OpenFaults
    Streamers = {}
    Lifo = FALSE
SYMMETRY Interchangeable
INVARIANTS ReturnedIdle
PROPERTIES ImplementsNestedTxn
CHECK_DEADLOCK FALSE
