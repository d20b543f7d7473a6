SPECIFICATION ConnectionSpec
CONSTANTS
    Paired = {c1}
    Local = {l1}
    Message = {m1}
    Request = {r1, r2}
    Pairer = {p1, p2}
    NoMessage = NoMessage
    NoConn = NoConn
    Skew = 1
    NonceTTL = 2
    PairingTTL = 1
    MaxTime = 5
    MaxKeys = 2
INVARIANTS ConnectionTypeOK AcceptedOnce PairedOnce
CHECK_DEADLOCK FALSE
