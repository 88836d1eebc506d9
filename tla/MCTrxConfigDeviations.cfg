\* Every property named here is violated: leave one in to see its counterexample.
SPECIFICATION FairSpec
CONSTANTS
    Names = {"a", "b"}
    Contents <- Three
    MaxApps = 2
    MaxEdits = 1
    MaxHups = 1
INVARIANTS DoesWhatItSays
PROPERTIES BadFileIsIgnored HupIsHeard GoesOnWithoutFile
CHECK_DEADLOCK FALSE
