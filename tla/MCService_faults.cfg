CONSTANTS
    s1 = s1
    s2 = s2
    t1 = t1
    i64 = i64
    Opener = opener
    None = None
    Series = {s1, s2}
    SeriesTypes = {i64}
    Tasks = {t1}
    MinI64 = 0
    MaxI64 = 3
    MaxU64 = 20
    Batches <- TwoSeriesBatches
    Requests <- TwoSeriesRequests
    unknown = unknown
    RawTypes = {i64, unknown}
    FlushIndex = 9
    FlushThresholdCount = 2
    DefaultLimit = 2
    Limits = {0, 1}
    SegmentSizes = {1}
    MaxWrites = 3
    MaxCrashes = 1
    MaxFaults = 1
SPECIFICATION ServiceSpec
INVARIANTS
    NoSilentLoss
    ManifestDescribesFiles
PROPERTIES
    RegistrationDurable
    AppendAnswered
    LossReported
    FlushDurable
    RecoveryKeepsSegments
CHECK_DEADLOCK FALSE
