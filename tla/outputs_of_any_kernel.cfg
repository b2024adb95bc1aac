SPECIFICATION OutputsSpec
CONSTANTS
    CodeCells = {first, second}
    NoCell = nowhere
    Display = shown
    Ids = {shown}
    NoId = none
    Old = old
    New = new
    Data = {old, new}
    Emits <- Kernel
    MaxItems = 3
    MaxRuns = 2
INVARIANTS
    FailedRunsShowAnError
PROPERTIES
    OutputsAreWhatTheMutationsSay
CHECK_DEADLOCK FALSE
