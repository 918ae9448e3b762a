SPECIFICATION Spec
CONSTANTS
    Tasks = {t1, t2}
    Events = {e1, e2}
    Receivers = {r1}
    Priorities = {0, 1}
    Exiters = {c1}
    RacyExit = TRUE
    WaitFlags = {TRUE, FALSE}
    None = None
INVARIANTS NoLostWakeUp EventQueueSound
PROPERTIES ExecReturnsExitCode 
CHECK_DEADLOCK FALSE
