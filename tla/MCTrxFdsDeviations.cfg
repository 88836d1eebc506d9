\* Every property named here is violated: leave one in to see its counterexample.
SPECIFICATION Spec
CONSTANTS
    Threads = {1}
    NFds = 3
    MaxMem = 1
INVARIANTS FullReport
CHECK_DEADLOCK FALSE
