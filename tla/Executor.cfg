SPECIFICATION Spec
CONSTANTS
    Clients = {c1, c2}
    Keys = {1, 2}
    Vals = {0, 1}
    Columns = {"a", "b"}
    Ways <- AllWays
    MaxCalls = 3
SYMMETRY Interchangeable
INVARIANTS TypeOK AnswersAreOwn RefusedWroteNothing NotFoundMeansTaken NothingSetIsLost
CHECK_DEADLOCK FALSE
