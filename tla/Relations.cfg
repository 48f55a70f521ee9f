SPECIFICATION Spec
CONSTANTS
    p1 = p1
    p2 = p2
    Parents = {p1, p2}
    Kids = {k1, k2}
    Tags = {t1, t2}
    NoParent = NoParent
    Calls <- MCCalls
    Databases <- MCDatabases
    MaxOthers = 1
    MaxRows = 4
    Nothing = Nothing
SYMMETRY Symmetry
INVARIANTS TypeOK SavedAsAsked CallsStandAlone ReadsAgree
CHECK_DEADLOCK FALSE
