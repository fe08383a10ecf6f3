\* A removal and an idle close around two requests, with a queue of one.
CONSTANTS
    Requests = {r1, r2}
    Keys = {k1}
    IdleClosers = {i1}
    Droppers = {x1}
    QueueCapacity = 1
    MaxBatch = 2
    MaxAttempts = 2
    MaxOpens = 2
    MaxFiles = 2
    None = None
SPECIFICATION FairSpec
CHECK_DEADLOCK FALSE
INVARIANTS VerdictTrue RegisteredRuns KnownTableExists CreatedOnce
PROPERTIES PutAnswered CloseEnds DetachedEnds
