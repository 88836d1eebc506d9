\* a host that boots twice, a machine the server does not know, one edit of the
\* configuration; messages are lost and come late
SPECIFICATION FairSpec
CONSTANTS
    Hosts = {h1, h2}
    Known = {h1}
    Plain = {}
    Wanted <- Loader
    Missing = {"uuid"}
    Chunks = 2
    FirstTwo <- LastChunk
    Codes = {1}
    Others = {2}
    MaxRetries = 1
    MaxBoots = 1
    MaxEdits = 1
    Cap = 2
    Flight = 1
INVARIANTS RightFile
PROPERTIES ServedMeansWhole TransferEnds
CHECK_DEADLOCK FALSE
