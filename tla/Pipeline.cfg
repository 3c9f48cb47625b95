SPECIFICATION Spec
CONSTANTS
    FragmentSize = 2
    Cap = 5
    NoData = NoData
    FrameLen = 2
    Rate = 1500
    MaxMs = 3
    MaxSent = 4
    MaxParts = 3
    MaxPcm = 3
INVARIANTS TypeOK BufferIsSound WholeUnitsAreParsed OnlyUnitsAreParsed HeaderThenFrames
INVARIANTS TagsTellTheTime NoSampleIsSkipped
CHECK_DEADLOCK FALSE
