CONSTANTS
    NumActions = 2
    Commands <- MCPairCommands
    ActionOf <- MCChainActionOf
    Policy <- MCChainPolicy
    MaxRetries <- MCOneRetry
    Faults = {"cancel"}
    MaxCrashes = 0
SPECIFICATION Spec
INVARIANTS
    CompletedMeansExecuted
CHECK_DEADLOCK FALSE
