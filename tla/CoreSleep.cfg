SPECIFICATION Spec
CONSTANTS
    PcMax = 4
    VEC = 3
    TARGET = 1
    Kinds = {"alu", "load", "csrs", "wfi"}
    UserKinds = {"alu", "load", "csrs", "wfi"}
    Lines = {"ext", "timer"}
    IrqMayDrop = FALSE
    PrefetchAtWake = FALSE
    BusErrors = FALSE
INVARIANT SleepQuiet
INVARIANT ResumePoint
PROPERTY WakeCause
