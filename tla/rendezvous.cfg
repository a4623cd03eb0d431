SPECIFICATION FairSpec
CONSTANTS
    Conn = {c1, c2, c3}
    Code = {k1}
    Device = {1, 2, 3}
    cert_fingerprint <- MCFingerprint
    None = None
    HasRelay = TRUE
    MaxConcurrent = 2
    MaxWriteErrors = 1
INVARIANTS
    PairsExclusive
    PairsMutual
    ExpiredForReason
    NoLeakedWaiter
PROPERTY
    HandlersEnd
CHECK_DEADLOCK FALSE
