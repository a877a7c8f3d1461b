SPECIFICATION Spec
CONSTANTS
    Ids = {n1}
    NoId = NoId
    MaxRetries = 2
    Workers = {w1, w2}
    Requests = {r1}
    Procs = {w1, w2, r1}
    FaultKinds = {"storage", "publisher"}
    MaxFaults = 1
    MaxRequeues = 2
SYMMETRY SystemSymmetry
INVARIANT SendsWithinLimit
CHECK_DEADLOCK FALSE
