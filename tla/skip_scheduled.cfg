SPECIFICATION Spec
CONSTANTS
    Ids = {n1}
    NoId = NoId
    MaxRetries = 2
    Workers = {w1, w2}
    Requests = {r1}
    Procs = {w1, w2, r1}
    FaultKinds = {"timeout"}
    MaxFaults = 0
    MaxRequeues = 2
SYMMETRY SystemSymmetry
PROPERTY SkipsOnlySettled
CHECK_DEADLOCK FALSE
