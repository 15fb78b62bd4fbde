SPECIFICATION MapsFairSpec
CONSTANTS
    c1 = c1
    c2 = c2
    Clients = {c1, c2}
    Limit = 2
    Window = 3
    MaxDelay = 2
    Users = {c1, c2}
    Ops = {"ReverseGeocode", "ComputeRoutes", "none"}
    MaxRetries = 1
    CacheTTL = 2
INVARIANTS
    LateBound
    AnswersAreFresh
PROPERTIES
    WaitEnds
