CONSTANTS
    NumActions = 1
    Commands <- MCPairCommands
    ActionOf <- MCPairActionOf
    Policy <- MCPairPolicy
    MaxRetries <- MCOneRetry
    Faults = {"eventLost"}
    MaxCrashes = 0
SPECIFICATION FairSpec
INVARIANTS
    CompletedMeansSettled
PROPERTIES
    EventuallyFinished
CHECK_DEADLOCK FALSE
