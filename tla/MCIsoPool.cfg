\* two hosts, a second version; every command may fail, and the server be killed
SPECIFICATION PoolSpec
CONSTANTS
    Installers = {h1, h2}
    Handlers <- Both
    Kinds = {"rimiso", "ubuntu", "other"}
    MaxVer = 2
    MaxClock = 2
CONSTRAINT Few
INVARIANT UsedIsExported
PROPERTY KeptIsNewest
