SPECIFICATION AppSpec
CONSTANTS
    Ids = {n1}
    Workers = {w1, w2}
    Addresses = {a1}
    Numerals = {d1, d2}
    ChatIds = {c1}
    ParseInt <- OneChat
    Junk = {j1}
    Null = null
    NoId = noId
INVARIANTS AppTypeOK ConstraintNeverBites ReachesWhoWasAsked MockOnlyIfUnconfigured RequestsKeepStores GoneIsSettledOrLost
CHECK_DEADLOCK FALSE
