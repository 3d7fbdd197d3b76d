SPECIFICATION Spec
CONSTANTS
    PcMax = 3
    VEC = 3
    TARGET = 1
    Kinds = {"alu", "loadU", "storeU", "branch", "ecall", "fault", "mret", "fence", "csrs"}
    UserKinds = {"alu", "loadU", "storeU", "branch", "ecall", "fault"}
    Lines = {}
    IrqMayDrop = FALSE
    PrefetchAtWake = TRUE
    BusErrors = FALSE
INVARIANT TypeOK
INVARIANT InOrder
INVARIANT TrapSound
PROPERTY StallUntilFlush
PROPERTY MepcKept
