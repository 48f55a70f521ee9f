SPECIFICATION FairSpec
CONSTANTS
    Admins = {a1}
    Loaders = {l1}
    Sessions = {s1}
    Users = {"u1", "u2"}
    Seed <- Tables0
    Ops <- Operations
    Audits <- Statements
    MaxOps = 2
INVARIANTS DecisionsRight MissingRoleIsTorn GrantsReachTheirNames ListingAgrees
PROPERTIES EngineAdvances LoadsEnd
CHECK_DEADLOCK FALSE
