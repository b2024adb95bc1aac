SPECIFICATION Spec
CONSTANTS
    n1 = n1
    n2 = n2
    c1 = c1
    c2 = c2
    Notebooks = {n1, n2}
    Cells = {c1, c2}
    Histories <- MCHistories
    MaxNew = 2
    MaxBatch = 2
INVARIANTS BatchesDoNotMatter ShownDocumentsAreTrue
CHECK_DEADLOCK FALSE
