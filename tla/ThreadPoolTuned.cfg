SPECIFICATION Spec
CONSTANTS
    Threads = {t1, t2, t3}
    Tasks = {a, b, c}
    Priorities = {0, 1}
    kHighest = 1
    MaxThreadCounts = {0, 1, 2}
    InitialMax = 1
    ExpiryTimeouts <- BothExpiries
    InitialExpiry = 30000
    ReserveBound = 1
    ForeverWaiters = {w1}
    TimedWaiters = {w2}
    Caller = Caller
    None = None
SYMMETRY Symmetry
INVARIANTS IInv NoTaskTwice
CHECK_DEADLOCK FALSE
