SPECIFICATION PartsSpec
CONSTANTS
    None = None
    a = a
    b = b
    torn = torn
    bad = bad
    Images = {a, b, torn, bad}
    Broken = {torn}
    Invalid = {bad}
    Text = text
    Error = error
    Outputs <- MCOutputs
    MaxExecutionImages = 1
    MaxDocumentImages = 2
    MaxAdmissions = 2
    MaxEffects = 3
    root = root
    folder = folder
    deep = deep
    f = f
    g = g
    h = h
    Root = root
    Directories <- MCDirectories
    Notebooks <- MCNotebooks
    Entries <- MCEntries
    Pruned <- Outside
    Unportable <- Odd
    Disks <- MCDisks
    PageSize = 1
    MaxDepth = 1
    MaxEntries = 6
    MaxEvents = 3
    MaxOps = 3
    MaxFaults = 1
INVARIANTS
    DocumentsAreWhole
    ElementShowsItsOutput
    ListIsOneWalk
    CardTellsTheTruth
PROPERTIES
    ReadsUseTheLiveSession
    PartsSettle
CHECK_DEADLOCK FALSE
