\* every command at any time, until the program is beyond repair
SPECIFICATION Spec
CONSTANTS
    Threads = {1, 2}
    Blocks = {1, 2}
    Tracked = {TRUE, FALSE}
    MAXTAGS = 3
    TagValues = {2}
    Cmds = {"track", "tag", "push", "pop", "config"}
    Word = 4
    MaxCmds = 2
INVARIANTS ListedIsLive NothingLost
CHECK_DEADLOCK FALSE
