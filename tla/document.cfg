SPECIFICATION FairSpec
CONSTANTS
    Ops = {o1, o2}
    Requests <- CoreRequests
    CellIds = {1, 2, 3, 4, 5, 6}
    CellTypes = {"code", "markdown"}
    Old = old
    New = new
    Sources = {old, new}
    None = none
    Result = result
    Failed = failed
    Outputs = {none, result, failed}
    NoOutput = none
    FailureOutput = failed
    OpenedCells <- MCOpenedCells
    ExternalDocs <- MCExternalDocs
    MaxRevisions = 3
    MaxRestarts = 1
    Faults = {"external", "unlink", "abort", "io", "retire"}
    PromptReplies = TRUE

INVARIANTS ProjectionIsItsRevision RunsAreSerialized
PROPERTIES ReplacesOnlyWhatIsShown OutputsBelongToTheSourceThatRan ImplementsRevisionedDocument CallsSettle
CHECK_DEADLOCK FALSE
