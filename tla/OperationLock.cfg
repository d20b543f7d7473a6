SPECIFICATION FairSpec
CONSTANTS
    Request = {r1, r2}
    Script = {s1}
    PipeSize = 2
    MaxOutput = 3
INVARIANTS ReservationCoversChild
PROPERTIES MutexSpec LeaseReleased
