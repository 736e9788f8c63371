CONSTANTS
    s1 = s1
    t1 = t1
    t2 = t2
    r1 = r1
    i64 = i64
    Opener = opener
    None = None
    Series = {s1}
    SeriesTypes = {i64}
    Tasks = {t1}
    Readers = {r1}
    MinI64 = 0
    MaxI64 = 3
    MaxU64 = 20
    Batches <- SingleBatches
    Queries <- SomeQueries
    MaxQueries = 2
    FlushThresholdCount = 2
    DefaultLimit = None
    Limits = {1, 2}
    SegmentSizes = {1}
    MaxWrites = 3
    MaxCrashes = 1
    MaxFaults = 0
SPECIFICATION QuerySpec
INVARIANTS
    QueryTypeOK
    CacheHonest
    RowsAscending
    LastWriteWins
    MissesOnlyInFlight
PROPERTIES
    EarliestRows
