SPECIFICATION FairSpec
CONSTANTS
    Handles = {h1, h2, h3}
    Writes = {w1}
    NoHandle = NoHandle
    Driver = "sqlx_mysql"
    Faults <- NoFaults
    Streamers = {h1, h2}
    Lifo = FALSE
INVARIANTS SessionInStep
PROPERTIES WaitersServed
CHECK_DEADLOCK FALSE
