SPECIFICATION Spec
CONSTANTS
    Token = {t1, t2}
    Addr = {a1, a2, a3}
    Fingerprint = {fp1, fp2}
    None = None
    HalfCap = 2
    Length = {1, 2}
    IdleTimeout = 1
    SweepInterval = 2
    MaxClock = 4
    MaxBytes = 10
INVARIANTS
    IndexConsistent
    DatagramStaysInSession
    IdleBounded
    RateBounded
PROPERTIES
    SlotsAreStable
SYMMETRY RelaySymmetry
CHECK_DEADLOCK FALSE
