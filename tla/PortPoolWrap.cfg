SPECIFICATION Spec
CONSTANTS
    Clients = {c1, c2, c3}
    NoClient = NoClient
    NoPort = NoPort
    Base = 6
    Count = 3
    CounterMod = 8
    PortSpace = 16
INVARIANT NoneMeansExhausted
