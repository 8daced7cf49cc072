SPECIFICATION FairSpec
CONSTANTS
    Conns = {k1, k2}
    MaxConns = 1
INVARIANTS SlotsCounted FlushedUndisturbed
PROPERTIES SlotsComeBack NobodyWaits ShutdownEnds NothingCutShort
CHECK_DEADLOCK FALSE
