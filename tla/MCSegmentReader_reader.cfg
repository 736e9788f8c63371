CONSTANTS
    old = old
    bools = bools
    pair = pair
    single = single
    largest = largest
    too_large = too_large
    Paths = {old, bools, pair, single, largest, too_large}
    Body <- SomeBody
    Type <- SomeType
    Codec <- SomeCodec
    Old = {old}
    MaxBodyBytes = 80
    MaxBytes = 64
    Timestamps = {2, 7}
    Limits = {2}
    Fragile = {old, bools}
    MaxDamages = 1
SPECIFICATION FairSpec
INVARIANTS
    TypeOK
    CacheAccounting
    FindsRange
    ServesWritten
PROPERTIES
    LruEviction
    IntactReadable
    ReadReturns
