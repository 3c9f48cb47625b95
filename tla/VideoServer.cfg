SPECIFICATION FairSpec
CONSTANTS
    Starts = {s1, s2}
    WS = WS
    None = None
INVARIANTS TypeOK NoLostPipeline SlotsAgree
PROPERTIES StopLeavesNothing AbortedStreamEnds
CHECK_DEADLOCK FALSE
