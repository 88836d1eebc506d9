\* what comments promise and the code does not keep; each property is checked alone
SPECIFICATION EditorSpec
CONSTANTS
    MaxL = 6
    DefHist = 2
    MaxHist = 2
    MaxCmds = 3
    Bytes = {"^J", "a", "!", "-", "1"}
    Typed <- RelativeTexts
INVARIANT LineStaysInBuffer
PROPERTY RelativeReachesAll
CHECK_DEADLOCK FALSE
