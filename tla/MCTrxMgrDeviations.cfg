\* Every property named here is violated: leave one in to see its counterexample.
SPECIFICATION Spec
CONSTANTS
    NSlots = 2
    NClis = 1
    SubCmds = {"report", "snap", "sreport"}
    Dests = {"console", "file"}
INVARIANTS ConsoleByDefault ScopeIsSet PromptMeansDone ComparesOwnSnapshot
CHECK_DEADLOCK FALSE
