CONSTANTS
    Requests = {r1, r2, r3}
    Keys = {k1, k2}
    IdleClosers = {i1}
    Droppers = {}
    QueueCapacity = 2
    MaxBatch = 2
    MaxAttempts = 2
    MaxOpens = 2
    MaxFiles = 1
    None = None
SYMMETRY Symmetric
SPECIFICATION Spec
CHECK_DEADLOCK FALSE
INVARIANTS TypeOK HeldIsRegistered
PROPERTY ImplementsTable
