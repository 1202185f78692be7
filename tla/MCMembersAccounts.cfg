SPECIFICATION Spec
CONSTANTS
    d1 = d1
    d2 = d2
    k1 = k1
    k2 = k2
    e1 = e1
    e2 = e2
    None = None
    Device = {d1, d2}
    Key = {k1, k2}
    Email = {e1, e2}
    Accounts <- OneAccount
    Sessions <- AnySession
    Budget <- AccountsBudget
    MaxDrops = 1
    MaxKills = 1
INVARIANTS
    TypeOK
    ValidWasWanted
    AddNeverTargetsSelf
    GhostOnlyAfterKill
CHECK_DEADLOCK FALSE
