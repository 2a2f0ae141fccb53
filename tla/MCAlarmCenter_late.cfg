CONSTANTS
    Events = {"bad1", "bad2", "task1"}
    Dispatch = {"task1"}
    Skipped = {"poison"}
    FingerprintOf <- MCFingerprintOf
    OccurredAt <- MCOccurredAt
    Logs <- MCLogs
    Clients = {c1, c2}
    NoAlarm = NoAlarm
    MaxGivenUp = 1
    MaxCrashes = 1
SPECIFICATION Spec
PROPERTY LastDoesNotRegress
CHECK_DEADLOCK FALSE
