CONSTANTS
    NumActions = 3
    Commands <- MCCommands
    ActionOf <- MCActionOf
    Policy <- MCPolicy
    MaxRetries <- MCMaxRetries
SPECIFICATION FairSpec
INVARIANTS
    TaskAgreesWithActions
    ActionAgreesWithCommands
    NothingForgotten
    RetriesBounded
PROPERTIES
    ContractSpec
    EventuallyFinished
CHECK_DEADLOCK FALSE
