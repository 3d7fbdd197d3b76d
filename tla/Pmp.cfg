SPECIFICATION PmpSpec
CONSTANTS
    PMP_ENTRY = 3
    WIDTH = 3
    Bytes <- TorBytes
    Addrs <- Registers
PROPERTY LockKept
PROPERTY LockedDecisionStays
