SPECIFICATION FairSpec
CONSTANTS
    Length = 90
    MaxCuts = 3
    Cuts = {3, 17, 20, 24, 33, 41, 44, 60, 75}
    IFrames <- MCIFrames
    Recording <- MCRecording
    NewRecording <- MCNewRecording
    Shows <- MCShows
    Threshold = 1
    CheckFrames = 2
    IgnoreFrames = 1
    SearchBreak = 40
    SafetyLimit = 3
    BigStep = 10
    StableTime = 6
CHECK_DEADLOCK FALSE
INVARIANTS
    Accurate
PROPERTIES
    MarksAscend
    Terminates
