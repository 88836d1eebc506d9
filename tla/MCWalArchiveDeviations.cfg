SPECIFICATION Spec
CONSTANTS
    Limit = 1
    Faults = {"setup", "send"}
    MaxWal = 6
    MaxBackups = 2
    MaxToggles = 0
INVARIANTS
    HoleMeansBackup
CHECK_DEADLOCK FALSE
