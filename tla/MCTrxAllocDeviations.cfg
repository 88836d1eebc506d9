\* Every property named here is violated: leave one in to see its counterexample.
SPECIFICATION FairSpec
CONSTANTS
    Threads = {1, 2}
    Blocks = {1, 2}
    Tracked = {TRUE, FALSE}
    MAXTAGS = 2
    TagValues = {0}
    Cmds = {"track", "config", "push"}
    Word = 4
    MaxCmds = 2
INVARIANTS TotalExact HeaderFits PointersMatch TagsHaveLists
PROPERTIES ChildTalks
CHECK_DEADLOCK FALSE
