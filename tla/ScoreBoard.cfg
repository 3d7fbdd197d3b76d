SPECIFICATION Spec
CONSTANTS
    x1 = x1
    x2 = x2
    Regs <- MCRegs
    TAGS = 4
    FlushLoads = FALSE
SYMMETRY Symmetry
INVARIANT OperandRight
INVARIANT DirtyHasWriter
