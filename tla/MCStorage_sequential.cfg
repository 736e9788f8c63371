CONSTANTS
    s1 = s1
    s2 = s2
    t1 = t1
    t2 = t2
    i64 = i64
    bool = bool
    Opener = opener
    None = None
    Series = {s1}
    SeriesTypes = {i64, bool}
    Tasks = {t1}
    MinI64 = 0
    MaxI64 = 3
    MaxU64 = 20
    Batches <- PairBatches
    FlushThresholdCount = 2
    DefaultLimit = 2
    Limits = {None, 0, 1, 3}
    SegmentSizes = {1, 2}
    MaxWrites = 4
    MaxCrashes = 1
    MaxFaults = 0
SPECIFICATION Spec
INVARIANTS
    RetentionHonoured
    SegmentsDisjoint
PROPERTIES
    EvictionJustified
    StaleRejected
