CONSTANTS
    Workers = {w1, w2}
    Plans = {p1}
    MaxFaults = 4
    MaxAttempts = 6
SPECIFICATION FairSpec
INVARIANTS
    RecordsAgree
    OneOwner
PROPERTIES
    ContractSpec
    EventuallySettled
CHECK_DEADLOCK FALSE
