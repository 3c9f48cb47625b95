SPECIFICATION Spec
CONSTANTS
    Starts = {s1}
    WS = WS
    None = None
    Viewers = {v1}
    MaxTags = 3
    Capacity = 2
    QueueSize = 1
INVARIANT FramesFollowHeader
CHECK_DEADLOCK FALSE
