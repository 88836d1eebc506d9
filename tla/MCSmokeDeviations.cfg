\* Every property named here is violated: leave one in to see its counterexample.
SPECIFICATION FaultySpec
CONSTANTS
    Server = server
    Client = client
    VMs = {server, client}
    Procs = {1, 2, 3}
    Main = 1
    Clients = {u}
    Ports = {1, 2}
    MaySlow = TRUE
    MaxTries = 2
    MaxKills = 1
INVARIANTS PortIsFree OneScript FreshAttempt
PROPERTIES ClientsKept WaitForFileEnds PortComesBack EjectIsHeard EjectIsTaken
CHECK_DEADLOCK FALSE
