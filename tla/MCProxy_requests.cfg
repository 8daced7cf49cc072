SPECIFICATION ProxyFairSpec
CONSTANTS
    c1 = c1
    c2 = c2
    c3 = c3
    Clients = {c1, c2, c3}
    AddrOf <- SharedAddr
    Targets = {t1}
    NoTarget = NoTarget
    NoClient = NoClient
    Strategy = "loadbalance"
    MaxActive = 2
    Threshold = 2
    IndexSize = 4
    Handlers = {h1}
    MaxUpstreams = 0
INVARIANTS FreshUpstream
PROPERTIES TryAll RequestSettles UsesPool
CHECK_DEADLOCK FALSE
