SPECIFICATION FairSpec
CONSTANTS
    Tasks = {t1, t2}
    Events = {e1}
    Receivers = {r1}
    Priorities = {0}
    Exiters = {c1}
    RacyExit = FALSE
    WaitFlags = {FALSE}
    None = None
PROPERTIES PostedRuns LoopReturns
CHECK_DEADLOCK FALSE
