SPECIFICATION FairSortSpec
CONSTANTS
    Pos = {0, 1, 2, 3}
    Addr = {a1, a2, a3, a4}
    None = None
    Rate <- PAL
    MaxLen = 4
CHECK_DEADLOCK FALSE
INVARIANT AddIsShift
PROPERTY SortedResult
