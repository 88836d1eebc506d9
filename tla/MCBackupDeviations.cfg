\* Every property named here is violated: leave one in to see its counterexample.
SPECIFICATION FairSpec
CONSTANTS
    Backups = {1}
    Recovers = {3}
    Killable = {1}
    MaxRuns = 3
    MaxCrashes = 1
    Failures = {"list", "recover"}
INVARIANTS ResetMeansRecovered LatestIsNewest NoLeftovers
PROPERTIES NoBackupWhenAsked FlagDrives
CHECK_DEADLOCK FALSE
