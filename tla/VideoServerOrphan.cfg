SPECIFICATION Spec
CONSTANTS
    Starts = {s1}
    WS = WS
    None = None
INVARIANT ClosedTabLeavesNoPipeline
CHECK_DEADLOCK FALSE
