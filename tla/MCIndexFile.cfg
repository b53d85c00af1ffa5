SPECIFICATION FairSpec
CONSTANTS
    MaxRecords = 4
    MaxFiles = 2
    IFrames = {0, 2, 4}
    Heap <- MCHeap
    IsPes = TRUE
    NewFrames = 1
    MinFrames = 3
    Limit = 1
    None = None
CHECK_DEADLOCK FALSE
INVARIANTS
    Faithful
    DataThere
    EndsInLull
    ReadsOwnFile
PROPERTIES
    OnlyGrows
    Ends
