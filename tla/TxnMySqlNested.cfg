SPECIFICATION Spec
CONSTANTS
    Handles = {h1, h2}
    Writes = {w1}
    NoHandle = NoHandle
    Driver = "sqlx_mysql"
    Faults <- NoFaults
    Streamers = {}
    Lifo = TRUE
INVARIANTS CommittedIsDurable
CHECK_DEADLOCK FALSE
