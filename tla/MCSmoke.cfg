\* two machines, a script and two consoles, which may be killed, and a user
SPECIFICATION FairSpec
CONSTANTS
    Server = server
    Client = client
    VMs = {server, client}
    Procs = {1, 2, 3}
    Main = 1
    Clients = {u}
    Ports = {1, 2}
    MaySlow = TRUE
    MaxTries = 1
    MaxKills = 1
INVARIANTS RightConsole
PROPERTIES ConsoleComesBack ScriptEnds
CHECK_DEADLOCK FALSE
