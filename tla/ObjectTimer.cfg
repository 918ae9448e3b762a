SPECIFICATION TimerSpec
CONSTANTS
    Ids = {1, 2}
    Fds = {7}
    None = None
    MaxRegs = 2
    Objects = {x1, x2}
INVARIANTS HandlesOwned TicksAllowed
PROPERTIES KilledIsSilent RepeatingTicks
CHECK_DEADLOCK FALSE
