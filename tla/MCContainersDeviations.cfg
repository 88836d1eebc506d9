\* one container, one script, what it does not notice included: the four promises,
\* each of which TLC finds broken
SPECIFICATION BoxesSpec
CONSTANTS
    Size = 1
    Scripts = {1}
    AfterUpset = TRUE
INVARIANTS PrevIsPrior DisabledStaysOff
PROPERTIES MountedIsSkipped AdjustedIsPrior
CHECK_DEADLOCK FALSE
