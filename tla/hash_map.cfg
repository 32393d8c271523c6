CONSTANTS
    Key = {k1, k2}
    Val = {v1, v2}
    Null = null
    HashCode <- LowCode
    UINT = 64
    InitLength = 3
    Increment = 2
    MaxLength = 5
SPECIFICATION Spec
INVARIANTS
    TypeOK
    SizeCounts
    OpenSlotReached
    StoredFound
PROPERTIES
    IsMultimap
