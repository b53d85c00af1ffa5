SPECIFICATION FairSpec
CONSTANTS
    Fd = {3, 4, 5, 6}
    NoFd = NoFd
    Messages = 2
    Rounds = 100
    Failing = {"socket", "fcntl", "write", "cut"}
CHECK_DEADLOCK FALSE
INVARIANTS
    SpeaksInTurn
    CountsReplies
PROPERTY Returns
