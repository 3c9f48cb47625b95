SPECIFICATION FairSpec
CONSTANTS
    Starts = {s1}
    WS = WS
    None = None
    Viewers = {v1}
    MaxTags = 4
    Capacity = 2
    QueueSize = 1
INVARIANTS TypeOK StreamIsWellFormed NoGapUnlessLagging FinishedIsComplete
INVARIANT ForeignPageGetsNothing
PROPERTIES StoppedStreamsEnd TagStreamSpec
CHECK_DEADLOCK FALSE
