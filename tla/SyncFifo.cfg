SPECIFICATION Spec
CONSTANTS
    w0 = w0
    w1 = w1
    w2 = w2
    Data <- MCData
    Zero = w0
    DEPTH = 4
INVARIANT Thermometer
PROPERTY Refines
