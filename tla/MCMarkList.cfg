SPECIFICATION Spec
CONSTANTS
    Pos <- MCPos
    Addr = {a1, a2, a3, a4}
    None = None
    Rate <- NTSC
    MaxLines = 2
SYMMETRY Symmetry
INVARIANTS
    SortedInv
    CommentInv
PROPERTIES
    PointerDrift
    ImplementsMarkSet
