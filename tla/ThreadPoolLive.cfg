SPECIFICATION FairSpec
CONSTANTS
    Threads = {t1, t2, t3}
    Tasks = {a, b, c}
    Priorities = {0}
    kHighest = 1
    MaxThreadCounts = {2}
    InitialMax = 2
    ExpiryTimeouts = {30000}
    InitialExpiry = 30000
    ReserveBound = 0
    ForeverWaiters = {w1}
    TimedWaiters = {}
    Caller = Caller
    None = None
INVARIANTS RunningWithinMax
PROPERTIES  DoneMeansDone
CHECK_DEADLOCK FALSE
