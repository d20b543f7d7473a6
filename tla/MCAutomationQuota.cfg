SPECIFICATION FairSpec
CONSTANTS
    NoInode = NoInode
    NoOwner = NoOwner
    NoOp = NoOp
    NoConsent = NoConsent
    ReuseInodes = TRUE
    PendingLimit = 1
    MinLead = 1
    Quota = 1
    MaxRestarts = 1
    Grant = {g1}
    Project = {p1, p2}
    Inode = {i1, i2}
    Actions <- MakeOnly
    QueueLimit = 2
    ApprovalWindow = 0
    Lifetimes = {}
    MaxOps = 2
    MaxTime = 1
INVARIANTS RunsOnce GrantWithinQuota
PROPERTIES QueueDrains
