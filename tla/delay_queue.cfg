SPECIFICATION DelayFairSpec
CONSTANTS
    Ids = {n1, n2}
    NoId = NoId
    MaxRetries = 3
    Workers = {w1, w2}
    Requests = {r1, r2}
    TicksPerMs = 2
    BaseDelay = 1
    Schedules <- PastNearFar
    MaxRequeues = 1
INVARIANTS DelayTypeOK NeverEarly RetryIsBounded
PROPERTIES ImplementsBag ExpiryIsFair
