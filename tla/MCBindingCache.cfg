CONSTANTS
    k1 = k1
    l1 = l1
    l2 = l2
    t1 = t1
    Keys = {k1}
    TenantOf <- MCTenantOf
    Loaders = {l1, l2}
    KeyOf <- MCKeyOf
    TTL = 1
    MaxAge = 2
    Timeout = 1
    MaxRev = 2
    MaxEpoch = 2
    MaxTime = 6
SPECIFICATION Spec
INVARIANTS
    TypeOK
    NothingOlderThanInvalidation
PROPERTIES
    LoadsAreCurrent
    StalenessBounded
CHECK_DEADLOCK FALSE
