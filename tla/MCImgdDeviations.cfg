\* Every property named here is violated: leave one in to see its counterexample.
SPECIFICATION FairSpec
CONSTANTS
    Hosts = {h1, h2}
    Known = {h1, h2}
    Plain = {h1}
    Wanted <- Short
    Missing = {}
    Chunks = 2
    FirstTwo <- LastChunk
    Codes = {1}
    Others = {2}
    MaxRetries = 1
    MaxBoots = 0
    MaxEdits = 1
    Cap = 3
    Flight = 3
INVARIANTS DataGoesToRequester RightFile ServeBecomesFalse EditsAreKept
PROPERTIES ServedOnlyWhole TransferAlwaysEnds
CHECK_DEADLOCK FALSE
