CONSTANTS
    Workers = {w1, w2}
    Clients = {c1, c2}
    Jobs = {1}
    Chunks = 2
    MaxAttempts = 2
    StuckTimeout = 1
    MaxRuns = 3
SPECIFICATION FairSpec
INVARIANTS
    SuccessIsReal
    NothingLeftBehind
    AttemptsCounted
PROPERTIES
    EventuallyDecided
CHECK_DEADLOCK FALSE
