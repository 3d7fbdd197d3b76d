SPECIFICATION FairSpec
CONSTANT W = 3
INVARIANT DivisionRight
INVARIANT ArithRight
PROPERTY Finishes
