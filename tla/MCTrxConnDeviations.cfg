\* Every property named here is violated: leave one in to see its counterexample.
SPECIFICATION FairSpec
CONSTANTS
    NFlags = 2
    SeqMod = 4
    MaxOwed = 3
    Owing = {0, 1}
    MayExit = TRUE
    MaySlow = FALSE
INVARIANTS ConfigReachesProgram
PROPERTIES MgrSurvives EveryTagIsReported
CHECK_DEADLOCK FALSE
