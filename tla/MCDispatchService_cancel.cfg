CONSTANTS
    NumActions = 1
    Commands <- MCSingleCommands
    ActionOf <- MCSingleActionOf
    Policy <- MCPairPolicy
    MaxRetries <- MCSingleRetry
    Faults = {"reject", "rpcError", "eventLost", "cancel", "dbError"}
    MaxCrashes = 0
SPECIFICATION FairSpec
PROPERTIES
    EventuallyFinished
CHECK_DEADLOCK FALSE
