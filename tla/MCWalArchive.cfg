SPECIFICATION Spec
CONSTANTS
    Limit = 1
    Faults = {"store", "setup", "send", "at", "crash"}
    MaxWal = 5
    MaxBackups = 2
    MaxToggles = 1
INVARIANTS
    SentToLatest
    StoredStays
    SentInOrder
CHECK_DEADLOCK FALSE
