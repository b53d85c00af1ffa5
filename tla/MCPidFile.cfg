SPECIFICATION FairSpec
CONSTANTS
    Proc = {p1, p2, p3}
    NoFile = NoFile
    NoPid = NoPid
    Stray = Stray
    MaxFaults = 1
    IOFaults = {"open", "write"}
CHECK_DEADLOCK FALSE
INVARIANTS
    OwnFile
    Exclusion
    NoStaleFile
PROPERTY Settles
