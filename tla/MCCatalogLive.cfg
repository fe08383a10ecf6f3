CONSTANTS
    r1 = r1
    r2 = r2
    Requests = {r1, r2}
    Admins = {a1, a2}
    Layers = {l1}
    Tiles = {t1}
    Size <- DifferentSizes
    QueueCapacity = 1
    MaxPending = 2
    Faults = FALSE
    None = None
SPECIFICATION FairSpec
CHECK_DEADLOCK FALSE
PROPERTIES OperationsEnd MessagesWritten
