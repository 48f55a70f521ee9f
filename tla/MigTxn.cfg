SPECIFICATION Spec
CONSTANTS
    m1 = m1
    m2 = m2
    Runners = {r1, r2, r3}
    Migrations = {m1, m2}
    Parts = 1
    Builds <- OneBuild
    Transactional = {m1, m2}
    Strict = {m1, m2}
    FreshInTxn = TRUE
    Operations = {"up", "down", "refresh"}
    Overlapping = {"up", "down", "refresh"}
    StepChoices <- AnySteps
    MaxCalls = 1
SYMMETRY Alike
INVARIANTS TxnAtomic
CHECK_DEADLOCK FALSE
