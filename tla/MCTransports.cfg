\* one job at a time and a settings page or two, on four installations
SPECIFICATION FairSpec
CONSTANTS
    Jobs = {"job"}
    Pages = {"page", "tab"}
    Choices <- Installations
INVARIANTS StackBounded RightShare
PROPERTY JobsGetThrough
