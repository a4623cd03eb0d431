SPECIFICATION FairSpec
CONSTANTS
    Limits = {0, 2, 3}
    Sizes <- MCSizes
    Chunks = 4
    Files = 2
INVARIANTS
    RateBounded
    DecidedOnSample
PROPERTIES
    SendFileEnds
CHECK_DEADLOCK FALSE
