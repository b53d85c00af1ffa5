SPECIFICATION SearchSpec

CONSTANTS
    None = None
    CornerSeq <- MCCornerSeq
    Sizes = {small, large}
    FilterFrames = 1
    SampleFrames = 2
    FramesToCheck = 5
    Blocks = 2
    BlockFrames = 2
    Dist = 3
    Needed = 3
    StableFrames = 2
    PartStarts <- MCPartStarts
    Searches = {1}
    Lengths <- MCLengths
    Limit = 1

INVARIANTS
    NothingGone
    LogoFits
    SeenApart

CHECK_DEADLOCK FALSE
