SPECIFICATION Spec
CONSTANTS
    m1 = m1
    m2 = m2
    Runners = {r1, r2}
    Migrations = {m1, m2}
    Parts = 2
    Builds <- TwoBuilds
    Transactional = {m1}
    Strict = {m2}
    FreshInTxn = FALSE
    Operations = {"up", "down", "refresh", "reset", "fresh", "uninstall"}
    Overlapping = {"up"}
    StepChoices <- AnySteps
    MaxCalls = 2
SYMMETRY Alike
INVARIANTS Accounted PrefixKept
PROPERTIES OkMeansDone
CHECK_DEADLOCK FALSE
