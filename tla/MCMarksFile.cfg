SPECIFICATION FileSpec
CONSTANTS
    Writer = {w1, w2}
    Inode = {1, 2, 3, 4, 5}
    NoFile = NoFile
    User = User
    Empty = Empty
    Torn = Torn
    BackupMarks = TRUE
    UseAudio = TRUE
    MaxRuns = 2
    MaxSaves = 2
    MaxCrashes = 1
    IOFaults = {"fopen", "fclose"}
CHECK_DEADLOCK FALSE
SYMMETRY Symmetry
INVARIANTS
    NeverTorn
    DurableSave
PROPERTY LostOnlyByReopening
