SPECIFICATION FairSpec
CONSTANTS
    c1 = c1
    c2 = c2
    m1 = m1
    Consumers = {c1, c2}
    Messages = {m1}
    MaxDeliveries = 3
    MaxConcurrent = 2
INVARIANTS
    NothingLost
    OneAtATime
PROPERTIES
    AllSettled
    CancelReturns
