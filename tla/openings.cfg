SPECIFICATION FairSpec
CONSTANTS
    Calls = {c1, c2}
    Plain = plain
    Alias = alias
    Other = other
    File = file
    OtherFile = otherFile
    Paths = {plain, alias}
    Targets = {file}
    TargetOf <- MCTargetOf
    OpenPaths <- NothingOpen
    MaxVersion = 3
    MaxRestarts = 1
    Faults = {"external", "unlink", "abort", "io"}
    PromptReplies = TRUE
INVARIANTS OneNotebookPerTarget CreateWinsOnce
PROPERTIES OpenShowsFreshContent CallsAreAnswered
CHECK_DEADLOCK FALSE
