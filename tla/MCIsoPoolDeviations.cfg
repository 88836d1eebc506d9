\* Every property named here is violated: leave one in to see its counterexample.
SPECIFICATION PoolSpec
CONSTANTS
    Installers = {h1}
    Handlers <- Both
    Kinds = {"rimiso", "other"}
    MaxVer = 2
    MaxClock = 1
CONSTRAINT Few
INVARIANTS AlwaysExported OlderIsReplaced
