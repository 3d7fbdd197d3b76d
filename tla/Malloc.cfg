SPECIFICATION Spec
CONSTANTS
    Word = 8
    Start = 104
    Limits = {216, 288}
    Sizes = {5, 40}
    Aligns = {12, 32}
    Ids = {c1, c2, c3}
    Arrays <- mcArrays
SYMMETRY mcSymmetry
INVARIANT Tiles
INVARIANT FreeInOrder
INVARIANT Served
PROPERTY GapKept
PROPERTY KeepsChunks
