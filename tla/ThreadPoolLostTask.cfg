SPECIFICATION Spec
CONSTANTS
    Threads = {t1, t2}
    Tasks = {a, b}
    Priorities = {0}
    kHighest = 1
    MaxThreadCounts = {0, 1}
    InitialMax = 1
    ExpiryTimeouts = {30000}
    InitialExpiry = 30000
    ReserveBound = 0
    ForeverWaiters = {w1}
    TimedWaiters = {}
    Caller = Caller
    None = None
INVARIANT NoTaskLost
CHECK_DEADLOCK FALSE
