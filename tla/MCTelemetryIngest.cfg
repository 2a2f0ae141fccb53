CONSTANTS
    Handlers = {h1, h2}
    Metrics = {"breaker", "power"}
    DiscreteMetrics = {"breaker"}
    Values = {0, 1}
    Records <- MCRecords
    StaleAge = 1
    MaxRequests = 4
SYMMETRY MCSymmetry
SPECIFICATION TelemetrySpec
INVARIANTS
    EventsTellTheState
    ToldIsStored
CHECK_DEADLOCK FALSE
