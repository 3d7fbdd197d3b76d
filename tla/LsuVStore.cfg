SPECIFICATION Spec
CONSTANTS
    Words = 2
    Accesses <- Stores
    ErrWords = {}
    OneCycle = TRUE
INVARIANT StoreRight
