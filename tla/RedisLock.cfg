SPECIFICATION FairSpec
CONSTANTS
    c1 = c1
    c2 = c2
    v1 = v1
    v2 = v2
    v3 = v3
    v4 = v4
    none = none
    NoLock = none
    Clients = {c1, c2}
    Values = {v1, v2, v3, v4}
    TTL = 3
    MaxAttempts = 2
    MaxStrays = 1
INVARIANTS
    Exclusive
PROPERTIES
    ComesFree
