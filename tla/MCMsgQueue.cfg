SPECIFICATION MqSpec
CONSTANTS
    a = a
    b = b
    N = 5
    Messages <- MCMessages
SYMMETRY Symm
INVARIANTS FreeIsSafe
PROPERTIES FifoRefined
