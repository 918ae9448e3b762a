SPECIFICATION Spec
CONSTANTS
    Threads = {t1, t2}
    Signals = {a, b}
    None = None
    s1 = s1
    s2 = s2
    s3 = s3
    Slots = {s1, s2, s3}
    GroupOf <- Groups
    Once = {s1}
    Tracked = {s2}
    Observed = {s3}
    Programs <- SomePrograms
SYMMETRY Symmetry
INVARIANTS ListsSound SnapshotStable CountsExact TrackedAlive ObserverSilent OncePerThread
CHECK_DEADLOCK FALSE
