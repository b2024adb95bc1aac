SPECIFICATION Spec
CONSTANTS
    Calls = {c1, c2}
    Plain = plain
    Alias = alias
    Other = other
    File = file
    OtherFile = otherFile
    Paths = {plain, alias, other}
    Targets = {file, otherFile}
    TargetOf <- MCTargetOf
    OpenPaths <- OtherOpen
    MaxVersion = 2
    MaxRestarts = 0
    Faults = {}
    PromptReplies = TRUE
SYMMETRY Slots
INVARIANTS
    OneNotebookPerTarget
CHECK_DEADLOCK FALSE
