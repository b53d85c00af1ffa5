SPECIFICATION FairSpec
CONSTANTS
    Starts <- MCStarts
    Places <- MCPlaces
    MaxMarks = 3
    Length = 90
    Gop = 3
    Limit = 1
    Minute = 3
    Room = 3
    Enough = 3
    Many = 2
    LineBack = 4
    LineForward = 8
    OffBack = 4
    Gap = 2
    FrameBack = 5
    FrameForward = 8
    Before = 5
    After = 13
    BeforeOn = 7
    Lead = 1
    Skip = 2
    Rest = 2
    Similar = 1
    OverlapOk = 3
    NotOk = 2
    Into = 1
    SoundRange = 7
    SoundGap = 2
    MinMark = 5
    MinActiveMark = 7
CHECK_DEADLOCK FALSE
INVARIANTS
    PointersGood
    WideKept
    RefinedOnce
PROPERTIES
    NextMarkKept
    ProbeEnds
