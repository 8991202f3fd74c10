SPECIFICATION WCSpec
CONSTANTS
    ApiCallers = {c1, c2}
    Urls = {u1}
    Burst = 2
    PerDay = 4
    Ttl = 1
    Waits = {1, 2}
    Max429 = 1
    MaxTransient = 1
    Midnights = TRUE
PROPERTY ImplementsTokenBucket GetEnds
CHECK_DEADLOCK FALSE
