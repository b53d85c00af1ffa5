SPECIFICATION FairSpec
CONSTANTS
    Skip = 6
    Near = 2
    Few = 1
    DetectFrames = 40
    DetectCount = 4
    Cutoff = 60
    ResetFrames = 24
    ResetSkip = 1
    NewFrames = 5
    Gop = 2
    Limit = 2
    Lag = 1
    MinMark = 7
    MinActiveMark = 8
    Lengths = {20, 38, 55}
    Places = {13, 16, 18, 36, 49}
    MaxChanges = 3
    Silences = {{}, {35, 36, 37}, {31, 32, 33, 34, 35}}
    Breaks = {{}, {15}, {18}, {35}}
    Recordings <- MCRecordings
    Sounds <- MCSounds
CHECK_DEADLOCK FALSE
INVARIANTS
    InIndex
    MarksAtChanges

PROPERTIES
    Ends
