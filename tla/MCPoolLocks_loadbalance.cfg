SPECIFICATION LocksSpec
CONSTANTS
    c1 = c1
    c2 = c2
    c3 = c3
    a1 = a1
    a2 = a2
    Clients = {c1, c2, c3}
    AddrOf <- SharedAddr
    Targets = {t1}
    NoTarget = NoTarget
    NoClient = NoClient
    NoCall = NoCall
    Strategy = "loadbalance"
    MaxActive = 1
    Threshold = 1
    IndexSize = 4
    Requesters = {r1}
SYMMETRY Symmetric
INVARIANTS MaxActiveBound NoneLeftOut
PROPERTIES AtomicCalls
CHECK_DEADLOCK FALSE
