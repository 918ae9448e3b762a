SPECIFICATION Spec
CONSTANTS
    Objects = {x1, x2, x3}
    Loops = {l1, l2}
    None = None
    Priorities = {0}
    MaxEvents = 2
    l1 = l1
    Programs <- SomePrograms
    Fallback = FALSE
    ChainEdits = FALSE
SYMMETRY Symmetry
INVARIANTS   FiltersConsistent
CHECK_DEADLOCK FALSE
