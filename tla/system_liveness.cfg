SPECIFICATION FairSpec
CONSTANTS
    Ids = {n1}
    NoId = NoId
    MaxRetries = 2
    Workers = {w1}
    Requests = {r1}
    Procs = {w1, r1}
    FaultKinds = {"storage", "lost", "channel", "crash", "stop", "timeout"}
    MaxFaults = 1
    MaxRequeues = 3
PROPERTIES RepoSpec EventuallyResolved
CHECK_DEADLOCK FALSE
