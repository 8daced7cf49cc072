SPECIFICATION FairSpec
CONSTANTS
    c1 = c1
    c2 = c2
    c3 = c3
    Clients = {c1, c2, c3}
    AddrOf <- OwnAddr
    Targets = {t1}
    NoTarget = NoTarget
    NoClient = NoClient
    Strategy = "failover"
    MaxActive = 2
    Threshold = 1
    IndexSize = 4
INVARIANTS TypeOK ActiveConnected HealthyIffConnected OrphansClosed
PROPERTIES RemoveKeepsActive DeadDropped ActiveRestored
CHECK_DEADLOCK FALSE
