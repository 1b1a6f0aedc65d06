SPECIFICATION FairSpec
CONSTANTS
    OfFirst = {r1, r2}
    OfSecond = {r3}
    k1 = k1
    k2 = k2
    s1 = s1
    Requests <- MCRequests
    Keys <- MCKeys
    KeyOf <- MCKeyOf
    Sessions <- MCSessions
    SessionOf <- MCSessionOf
    NoRequest = NoRequest
    Concurrency = 3
    PoolSize = 2
    MaxQueued = 3
INVARIANTS
    ServedNewest
    OneLiveCompile
    NobodyForgotten
    NothingLeft
PROPERTIES
    ServiceSpec
    EveryCallerAnswered
CHECK_DEADLOCK FALSE
