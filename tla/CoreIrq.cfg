SPECIFICATION FairSpec
CONSTANTS
    PcMax = 2
    VEC = 2
    TARGET = 1
    Kinds = {"load", "div", "branch", "csrs"}
    UserKinds = {"load", "div", "branch", "csrs"}
    Lines = {"ext"}
    IrqMayDrop = FALSE
    PrefetchAtWake = TRUE
    BusErrors = FALSE
INVARIANT PreciseOrder
PROPERTY FlushEmpties
PROPERTY Progress
PROPERTY IrqServed
