\* Every property named here is violated: leave one in to see its counterexample.
\* Three scripts that may meet anywhere: two of them can own the lock, and one
\* can take the lock file away from the others for ever.
SPECIFICATION LockFairSpec
CONSTANTS
    NProcs = 3
    Waiters = {1}
    Watched = {1}
    MaxTries = 0
INVARIANT AlwaysExclusive
PROPERTY AttemptAlwaysEnds
