SPECIFICATION Spec
CONSTANTS
    Request = {r1, r2}
    Token = {s1, s2}
    Ceremony = {c1, c2}
    Code = {b1, b2}
    Key = {k1}
    Recovery = {w1}
    None = None
    IdleTTL = 1
    AbsoluteTTL = 2
    ChallengeTTL = 1
    BootstrapTTL = 1
    RecentTTL = 0
    Window = 1
    MaxTime = 3
    MaxId = 2
SYMMETRY Symmetry
INVARIANTS TypeOK OneAdministrator SecondFactorOnce CeremonyOnce
PROPERTY ProtectedIsProven
CHECK_DEADLOCK FALSE
CONSTRAINT Followed
