SPECIFICATION RepoSpec
CONSTANTS
    Ids = {n1}
    NoId = NoId
    MaxRetries = 1
    Procs = {p1, p2}
    FaultKinds = {"storage", "crash", "stop", "lost"}
    MaxFaults = 2
SYMMETRY RepoSymmetry
INVARIANTS RepoTypeOK CacheNeverAhead StaleHasCause CallerInv
