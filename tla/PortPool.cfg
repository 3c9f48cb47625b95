SPECIFICATION Spec
CONSTANTS
    Clients = {c1, c2, c3}
    NoClient = NoClient
    NoPort = NoPort
    Base = 6
    Count = 4
    CounterMod = 8
    PortSpace = 8
INVARIANTS TypeOK NoneMeansExhausted
PROPERTY LeaseSpec
