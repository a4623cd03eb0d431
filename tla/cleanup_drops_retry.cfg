SPECIFICATION Spec
CONSTANTS
    Conn = {c1, c2, c3}
    Code = {k1}
    Device = {1, 2}
    cert_fingerprint <- MCFingerprint
    None = None
    HasRelay = FALSE
    MaxConcurrent = 3
    MaxWriteErrors = 0
PROPERTY WaiterLeavesForReason
CHECK_DEADLOCK FALSE
