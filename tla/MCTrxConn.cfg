CONSTANTS
    NFlags = 2
    SeqMod = 4
    MaxOwed = 3
    Owing = {1}
    MayExit = TRUE
    MaySlow = TRUE
SPECIFICATION FairSpec
INVARIANTS AckIsForCommand ConfiguredWhenServed
PROPERTIES ImplementsLink OwedIsResolved
