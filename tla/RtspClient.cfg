SPECIFICATION FairSpec
CONSTANTS
    MaxTracks = 3
    MaxParts = 1
    MaxFrames = 2
    Sizes = {3}
    MaxSkip = 3
    None = None
INVARIANTS TypeOK ChallengeOfConnection AnswersMatch PlaysWhatIsSet StaysInSync
PROPERTY HandshakeEnds
CHECK_DEADLOCK FALSE
