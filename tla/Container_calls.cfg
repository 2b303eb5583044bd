SPECIFICATION FairSpec
CONSTANTS
    a = a
    b = b
    Ids = {a, b}
    Lists <- MCLists
    Callers = {t1, t2}
    Nobody = Nobody
    AnyId = AnyId
    CallsBack = TRUE
    Usage = TRUE
INVARIANTS
    Bookkeeping
    Owned
    RefsAreOpen
    NothingLeftOpen
PROPERTIES
    HolderReturns
CHECK_DEADLOCK FALSE
