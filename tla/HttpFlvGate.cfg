SPECIFICATION Spec
CONSTANTS
    Starts = {s1}
    WS = WS
    None = None
    Viewers = {v1}
    MaxTags = 1
    Capacity = 1
    QueueSize = 1
INVARIANT ForeignPageIsRefused
CHECK_DEADLOCK FALSE
