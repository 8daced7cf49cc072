SPECIFICATION ProxySpec
CONSTANTS
    c1 = c1
    c2 = c2
    c3 = c3
    Clients = {c1, c2}
    AddrOf <- OwnAddr
    Targets = {t1}
    NoTarget = NoTarget
    NoClient = NoClient
    Strategy = "failover"
    MaxActive = 1
    Threshold = 1
    IndexSize = 2
    Handlers = {h1, h2}
    MaxUpstreams = 0
SYMMETRY Symmetric
PROPERTIES LiveKept TryAll BlockStands ActiveKept
CHECK_DEADLOCK FALSE
