SPECIFICATION FairSpec
CONSTANTS
    r1 = r1
    r2 = r2
    r3 = r3
    b1 = b1
    b2 = b2
    b3 = b3
    none = none
    NoBucket = none
    Requests = {r1, r2, r3}
    Excluded = {r3}
    Buckets = {b1, b2, b3}
    Burst = 2
INVARIANTS
    InstantBound
PROPERTIES
    ImplementsContract
    UnusedKeysAreDropped
