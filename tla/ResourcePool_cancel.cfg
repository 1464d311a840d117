SPECIFICATION FairSpec
CONSTANTS
    t1 = t1
    t2 = t2
    t3 = t3
    c1 = c1
    NoContext = NoContext
    Threads = {t1, t2}
    Priorities = {0, 1}
    Batches <- OneContext
    MaxCalls = 2
PROPERTY
    CancelReturns
