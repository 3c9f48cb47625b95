SPECIFICATION Spec
CONSTANTS
    Sessions = {s1, s2}
    MaxPlanes = 2
    MaxForeign = 1
    Ports = {p1}
    Addrs = {a1}
    None = None
    NoPort = NoPort
INVARIANT SessionsHaveOwnPorts
