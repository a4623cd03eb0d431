SPECIFICATION FairSpec
CONSTANTS
    Proc = {p1, p2}
    None = None
    MaxRecords = 3
    MaxDamage = 2
    MaxClock = 1
INVARIANTS
    NoRecordLost
PROPERTIES
    ReadsAreComplete
    AppendsEnd
CHECK_DEADLOCK FALSE
