CONSTANTS
    Databases = {d1, d2}
    Items = {i1, i2}
    Tiles = {t1}
    Capacity = 4
    MaxTileBytes = 3
    TileSizes = {1, 3, 4}
    IdleTimeout = 1
    OrderFactor = 1
    OrderSlack = 1
    MaxClock = 5
    MaxTime = 1
SYMMETRY Symmetric
SPECIFICATION Spec
INVARIANTS TypeOK UsedBytesExact CapacityRespected HeapCoversEntries
PROPERTY ImplementsRecency
