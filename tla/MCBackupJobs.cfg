\* four backups in turn and a recovery beside them; everything fails, one job is killed
SPECIFICATION FairSpec
VIEW Running
CONSTANTS
    Backups = {1}
    Recovers = {3}
    Killable = {1, 3}
    MaxRuns = 4
    MaxCrashes = 1
    Failures = {"copy", "list", "mv", "rm", "refuse", "recover"}
INVARIANTS KeepsACopy SourceStays
PROPERTIES RecoveryIsServed ImplementsShelf
CHECK_DEADLOCK FALSE
