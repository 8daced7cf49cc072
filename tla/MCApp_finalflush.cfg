SPECIFICATION Spec
CONSTANTS
    Conns = {k1, k2}
    MaxConns = 1
INVARIANTS FlushedAtExit
CHECK_DEADLOCK FALSE
