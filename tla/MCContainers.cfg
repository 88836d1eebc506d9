\* two containers, two scripts of which the second one is an upset
SPECIFICATION BoxesFairSpec
CONSTANTS
    Size = 2
    Scripts = {1, 2}
    AfterUpset = FALSE
INVARIANT OwnRoot
PROPERTIES StartMeansUp ScriptGoesOn
CHECK_DEADLOCK FALSE
