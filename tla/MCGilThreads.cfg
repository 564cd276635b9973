SPECIFICATION Spec
CONSTANTS
    Threads = {a, b, c, d}
    MaxHandles = 3
SYMMETRY Symmetry
INVARIANTS
    TypeOK
    ConnectedIsAlive
    DestroyedOnce
    HandlesAccounted
    Inv
CHECK_DEADLOCK FALSE
