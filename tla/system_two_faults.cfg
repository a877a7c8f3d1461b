SPECIFICATION Spec
CONSTANTS
    Ids = {n1}
    NoId = NoId
    MaxRetries = 2
    Workers = {w1, w2}
    Requests = {r1}
    Procs = {w1, w2, r1}
    FaultKinds = {"storage", "channel"}
    MaxFaults = 2
    MaxRequeues = 2
SYMMETRY SystemSymmetry
INVARIANTS FailedMeansExhausted NoSilentLoss DuplicateBudget SendBudget RecordIsExact
PROPERTIES OutcomesStand
CHECK_DEADLOCK FALSE
