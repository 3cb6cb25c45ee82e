CONSTANTS
    a = a
    b = b
    k1 = k1
    k2 = k2
    Collectors = {a, b}
    Keys = {k1, k2}
    TtlKeys = {k1}
    Refused <- MCRefused
    Ttl = 0
    PushLimit = 2
    PageLimit = 1
    MaxTime = 2
    MaxWrites = 3
    MaxFaults = 1
SPECIFICATION Spec
INVARIANTS
    CacheInvariant
PROPERTIES
    NewestWins
    EventuallyReplicated
