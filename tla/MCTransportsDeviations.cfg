\* the four promises, each of which TLC finds broken; each is checked alone
SPECIFICATION Spec
CONSTANTS
    Jobs = {"job"}
    Pages = {"page"}
    Choices <- Installations
INVARIANTS SameParameters RightDevice OneSession
PROPERTY OnlyNewFormatted
