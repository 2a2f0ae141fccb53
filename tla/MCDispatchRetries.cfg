CONSTANTS
    NumActions = 1
    Commands <- MCPairCommands
    ActionOf <- MCPairActionOf
    Policy <- MCPairPolicy
    MaxRetries <- MCPairRetries
    Faults = {}
    MaxCrashes = 0
SPECIFICATION RetrySpec
INVARIANT RetriesWithinLimit
CHECK_DEADLOCK FALSE
