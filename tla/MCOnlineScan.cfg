SPECIFICATION FairOnlineSpec
CONSTANTS
    Length = 90
    MaxCuts = 3
    Flickers = {{16, 17, 29, 30, 55}}
    Gop = 2
    Holes = {2, 18}
    Cuts = {4, 17, 20, 24, 41, 44, 51, 60}
    IFrames <- MCIFrames
    Recording <- MCRecording
    NewRecording = {}
    Shows <- MCShows
    Threshold = 1
    CheckFrames = 2
    IgnoreFrames = 1
    SearchBreak = 40
    SafetyLimit = 3
    BigStep = 10
    StableTime = 8
    NewFrames = 5
    MinForward = 22
    FramesToCheck = 12
    LogoFrames = 3
    ResetFrames = 30
    ResetSkip = 2
    Growth = {0, 20, 33}
    MinMark = 11
    MinActiveMark = 20
CHECK_DEADLOCK FALSE
INVARIANTS
    MarksTellState
    Cleaned
PROPERTIES
    MarksOnIFrames
    Terminates
