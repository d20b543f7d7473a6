SPECIFICATION Spec
CONSTANTS
    NoInode = NoInode
    NoOwner = NoOwner
    NoOp = NoOp
    NoConsent = NoConsent
    ReuseInodes = FALSE
    PendingLimit = 1
    MinLead = 1
    Quota = 1
    MaxRestarts = 1
    Grant = {g1}
    Project = {p1}
    Inode = {i1, i2}
    Actions <- MakeAndChange
    QueueLimit = 2
    ApprovalWindow = 0
    Lifetimes = {1}
    MaxOps = 2
    MaxTime = 2
SYMMETRY Symmetry
INVARIANTS TypeOK RevokedHasNoPending TouchesGivenSite
PROPERTIES HarmApproved
