SPECIFICATION EltFairSpec
CONSTANTS
    Tasks = {t1, t2}
    Events = {}
    Receivers = {}
    Priorities = {0}
    Exiters = {stop, user}
    RacyExit = TRUE
    WaitFlags = {FALSE}
    None = None
    StopCode = stop
    LoopCallers = {t2}
INVARIANTS StopDrains
PROPERTIES StopReturnsUnless
CHECK_DEADLOCK FALSE
