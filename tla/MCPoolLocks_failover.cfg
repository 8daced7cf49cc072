SPECIFICATION LocksFairSpec
CONSTANTS
    c1 = c1
    c2 = c2
    c3 = c3
    a1 = a1
    a2 = a2
    Clients = {c1, c2}
    AddrOf <- OwnAddr
    Targets = {t1}
    NoTarget = NoTarget
    NoClient = NoClient
    NoCall = NoCall
    Strategy = "failover"
    MaxActive = 1
    Threshold = 1
    IndexSize = 2
    Requesters = {r1}
PROPERTIES AtomicCalls CallsReturn ReadsReturn
CHECK_DEADLOCK FALSE
