SPECIFICATION FairSpec
CONSTANTS
    named = named
    unnamed = unnamed
    p1 = p1
    Connection = {c1}
    Key = {k1, k2}
    Body = {named, unnamed}
    NameOf <- MCNameOf
    Project = {p1, p2}
    Random = Random
    Handler = {h1}
    Operator = Operator
    Nobody = Nobody
    NoRow = NoRow
    NoAsk = NoAsk
    NoProject = NoProject
    Quota = 1
    MaxRestarts = 1
INVARIANTS TypeOK CleanUpOwnSite RowsWithinQuota
PROPERTIES CompleteIsFinal RequestSettles
