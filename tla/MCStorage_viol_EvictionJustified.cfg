CONSTANTS
    s1 = s1
    s2 = s2
    t1 = t1
    t2 = t2
    i64 = i64
    bool = bool
    Opener = opener
    None = None
    Series = {s1}
    SeriesTypes = {i64}
    Tasks = {t1, t2}
    MinI64 = 0
    MaxI64 = 3
    MaxU64 = 20
    Batches <- SingleBatches
    FlushThresholdCount = 1
    DefaultLimit = None
    Limits = {1, 2}
    SegmentSizes = {1, 2}
    MaxWrites = 3
    MaxCrashes = 0
    MaxFaults = 0
SPECIFICATION Spec
SYMMETRY TasksSymmetry
PROPERTY EvictionJustified
