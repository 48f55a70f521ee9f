SPECIFICATION FairSpec
CONSTANTS
    Threads = {t1, t2}
    NoThread = NoThread
    Writes = {w1, w2}
    MaxCalls = 2
INVARIANTS SingleUser SettledIsDurable DurableIsSettled LoanComesBack
PROPERTIES ClosedForGood AcquireEnds LoanIsReturned
CHECK_DEADLOCK FALSE
