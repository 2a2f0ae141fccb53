CONSTANTS
    NumActions = 3
    Commands <- MCTripleCommands
    ActionOf <- MCTripleActionOf
    Policy <- MCTriplePolicy
    MaxRetries <- MCTripleRetry
    Faults = {"reject", "rpcError"}
    MaxCrashes = 1
SPECIFICATION FairSpec
INVARIANTS
    CompletedMeansSettled
    DeviceOrder
PROPERTIES
    EventuallyFinished
CHECK_DEADLOCK FALSE
