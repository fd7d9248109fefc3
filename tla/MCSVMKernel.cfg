CONSTANTS
    Threads = {t1, t2, t3}
    NRows = 4
    NColumns = 2
    Points = {p1, p2}
    Blank = Blank
SPECIFICATION FairSpec
INVARIANTS
    IInv
    ReturnedRowsComplete
    ComputedOncePerThread
PROPERTIES
    CompleteStays
    DataReturned
CHECK_DEADLOCK FALSE
