SPECIFICATION CountedSpec
CONSTANTS
    Clients = {c1}
    AddrOf <- OwnAddr
    Targets = {t1}
    NoTarget = NoTarget
    NoClient = NoClient
    Strategy = "failover"
    MaxActive = 1
    Threshold = 2
    IndexSize = 2
    Handlers = {h1}
    MaxUpstreams = 0
INVARIANTS BlockedAtThreshold
CHECK_DEADLOCK FALSE
