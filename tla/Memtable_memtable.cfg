CONSTANTS
    Timestamps = {1, 2, 3}
    MaxWrites = 4
SPECIFICATION Spec
INVARIANTS
    TypeOK
    SortedCopy
PROPERTIES
    BufferSpec
