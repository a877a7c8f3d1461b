SPECIFICATION Spec
CONSTANTS
    Ids = {n1}
    NoId = NoId
    MaxRetries = 2
    Workers = {w1, w2}
    Requests = {r1}
    Procs = {w1, w2, r1}
    FaultKinds = {"storage", "lost", "publisher", "connection", "crash", "stop", "client", "timeout"}
    MaxFaults = 1
    MaxRequeues = 1
SYMMETRY SystemSymmetry
INVARIANTS OrphansAreInert TypeOK SentMeansDelivered FailedMeansExhausted NoSilentLoss DuplicateBudget SendBudget CancelHonoured SystemInv HarmNeedsFault
PROPERTY ImplementsLifecycle
CHECK_DEADLOCK FALSE
