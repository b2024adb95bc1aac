SPECIFICATION Spec
CONSTANTS
    Ops = {o1, o2, o3}
    Requests <- AllRequests
    CellIds = {1, 2, 3, 4, 5, 6}
    CellTypes = {"code", "markdown"}
    Old = old
    New = new
    Sources = {old, new}
    None = none
    Result = result
    Failed = failed
    Outputs = {none, result, failed}
    NoOutput = none
    FailureOutput = failed
    OpenedCells <- MCOpenedCells
    ExternalDocs <- MCExternalDocs
    MaxRevisions = 3
    MaxRestarts = 1
    Faults = {"external", "io", "retire"}
    PromptReplies = FALSE
SYMMETRY Calls
INVARIANTS
    DocumentsAreWellFormed
    UnshownWritesAreAccountedFor
PROPERTIES
    InsertsFollowTheirAnchor
CHECK_DEADLOCK FALSE
