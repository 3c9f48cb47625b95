SPECIFICATION FairSpec
CONSTANTS
    Sessions = {s1}
    MaxPlanes = 2
    MaxForeign = 1
    Ports = {p1}
    Addrs = {a1, a2}
    None = None
    NoPort = NoPort
    Users = {u1}
    NoUser = NoUser
    MaxInbox = 1
INVARIANTS TypeOK ArmedTogether DialsPinnedAddress TabKnowsItsPort
PROPERTIES DialogueIsCore ClosedTabEnds
CHECK_DEADLOCK FALSE
