SPECIFICATION FairSpec
CONSTANTS
    Latencies = {1, 3}
    Stagger = 4
    PunchTimeout = 14
INVARIANTS
    TypeOK
    SessionsAgree
PROPERTIES
    NearPeersPair
    EndsTogether
CHECK_DEADLOCK FALSE
