SPECIFICATION ClientFairSpec
CONSTANTS
    c1 = c1
    c2 = c2
    c3 = c3
    Callers = {c1, c2, c3}
    Lossy = {c1, c2}
    FailureThreshold = 2
    SuccessThreshold = 2
    Timeout = 2
    MaxRequests = 2
    Retries = 1
INVARIANTS
    ProbesBounded
    RoomUnlessLost
    OpenIsQuiet
PROPERTIES
    TransitionsAreEarned
    ClosesOnceHealthy
