SPECIFICATION PipeFairSpec
CONSTANTS
    i1 = i1
    i2 = i2
    Instances = {i1, i2}
    LastEvent = 6
    MaxBatch = 2
    FirstCheckpoint = 0
    NumMessages = 3
    Sizes = {1, 3}
    Capacity = 2
    MaxCalls = 2
INVARIANTS
    PrefixHandled
    NonePassedOver
PROPERTIES
    AllHandled
