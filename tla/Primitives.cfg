SPECIFICATION MCSpec
CONSTANTS
    Handles = {h1, h2}
    Blocks = {b1, b2, b3, b4}
    Bytes = {7}
    Uninit = Uninit
    MaxLen = 2
    None = None
    Programs <- SomePrograms
    Threads = {t1, t2, t3}
    Amounts = {0, 1, 2}
    Initial = 1
    MaxCount = 3
    PhaseMod = 2
    MaxRounds = 4
    Emitters = {e1, e2}
    Callers = {c1, c2}
    MaxEmits = 1
SYMMETRY Symmetry
INVARIANTS BlocksSound NoneSleepsOverEnough BarrierHolds  CallsSafe
 
CHECK_DEADLOCK FALSE
