SPECIFICATION FairSpec
CONSTANTS
    Sessions = {s1, s2}
    MaxPlanes = 2
    MaxForeign = 1
    Ports = {p1, p2}
    Addrs = {a1}
    None = None
    NoPort = NoPort
INVARIANTS TypeOK NoPortLeak LeasesExclusive PortServesItsSession
PROPERTY ClosedTabReturnsPort
