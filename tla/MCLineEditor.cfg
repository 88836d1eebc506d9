\* lines of at most four characters, a history of two commands that may be made one
SPECIFICATION EditorSpec
CONSTANTS
    MaxL = 5
    DefHist = 2
    MaxHist = 2
    MaxCmds = 3
    Bytes <- KeyBytes
    Typed <- TypedTexts
INVARIANTS ShownIsSubmitted HistoryIsLog
PROPERTIES NumberMeansCommand
CHECK_DEADLOCK FALSE
