SPECIFICATION RepoSpec
CONSTANTS
    Ids = {n1}
    NoId = NoId
    MaxRetries = 1
    Procs = {p1, p2}
    FaultKinds = {}
    MaxFaults = 0
SYMMETRY RepoSymmetry
INVARIANT TransparentCache
