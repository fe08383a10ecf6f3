CONSTANTS
    r1 = r1
    r2 = r2
    Requests = {r1, r2}
    Admins = {a1, a2}
    Layers = {l1, l2}
    Tiles = {t1}
    Size <- DifferentSizes
    QueueCapacity = 2
    MaxPending = 2
    Faults = TRUE
    None = None
SYMMETRY Symmetric
SPECIFICATION Spec
CHECK_DEADLOCK FALSE
INVARIANTS TypeOK TotalsMatch  ActsOnFreshRows
PROPERTY MarksKept
