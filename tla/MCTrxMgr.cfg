CONSTANTS
    NSlots = 2
    NClis = 2
    SubCmds = {"snap"}
    Dests = {"file"}
SPECIFICATION FairSpec
INVARIANTS NoPhantomWait ClosedCliIdle FileStaysOpen
PROPERTIES WaitResolves ImplementsDesk
