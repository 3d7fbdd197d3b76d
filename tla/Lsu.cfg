SPECIFICATION FairSpec
CONSTANTS
    Words = 3
    Accesses <- Most
    ErrWords = {2}
    OneCycle = TRUE
INVARIANT LoadRight
INVARIANT StoresInPlace
INVARIANT ErrRight
PROPERTY Done
