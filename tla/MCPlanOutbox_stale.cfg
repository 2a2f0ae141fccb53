CONSTANTS
    Workers = {w1, w2}
    Plans = {p1}
    MaxFaults = 4
    MaxAttempts = 6
SPECIFICATION Spec
INVARIANT StaleIsUndispatched
CHECK_DEADLOCK FALSE
