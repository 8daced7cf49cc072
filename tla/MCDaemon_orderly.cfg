SPECIFICATION FairSpec
CONSTANTS
    Procs = {p1, p2, p3}
    NoProc = NoProc
    Orderly = TRUE
INVARIANTS FileNamesServer StopReleases StatusTruthful
PROPERTIES StopSettles
CHECK_DEADLOCK FALSE
