SPECIFICATION FairSpec
CONSTANTS
    lda = 32
    DataSizes <- mcSizes
    CoreCounts = {1, 2, 3}
    Cells <- mcCells
    Starts <- mcStarts
INVARIANT VerifyPasses
INVARIANT RaceFree
INVARIANT InStep
PROPERTY BarrierMeets
PROPERTY Finishes
