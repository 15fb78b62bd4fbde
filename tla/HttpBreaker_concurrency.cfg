SPECIFICATION Spec
CONSTANTS
    c1 = c1
    c2 = c2
    c3 = c3
    Callers = {c1, c2, c3}
    Panicky = {c1, c2, c3}
    FailureThreshold = 2
    SuccessThreshold = 2
    Timeout = 1
    MaxConcurrentInHalfOpen = 1
    SuccessCap = 2
SYMMETRY CallerSymmetry
INVARIANTS
    HalfOpenConcurrencyLimited
