SPECIFICATION Spec
CONSTANTS
    Procs = {p1, p2, p3}
    NoProc = NoProc
    Orderly = FALSE
INVARIANTS StatusTruthful
CHECK_DEADLOCK FALSE
