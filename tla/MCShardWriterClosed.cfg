\* One PUT and one removal are enough.
CONSTANTS
    Requests = {r1}
    Keys = {k1}
    IdleClosers = {}
    Droppers = {x1}
    QueueCapacity = 1
    MaxBatch = 1
    MaxAttempts = 1
    MaxOpens = 1
    MaxFiles = 1
    None = None
SPECIFICATION Spec
CHECK_DEADLOCK FALSE
INVARIANT ClosedBeforeRemoval
