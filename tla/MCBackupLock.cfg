\* three scripts that may meet anywhere; run-backups, which alone waits for the
\* lock, is followed until its attempts end
SPECIFICATION LockFairSpec
CONSTANTS
    NProcs = 3
    Waiters = {1}
    Watched = {1}
    MaxTries = 1
INVARIANTS MutualExclusion NoStaleLock
PROPERTIES ImplementsTryLock AttemptEnds
