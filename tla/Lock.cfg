CONSTANTS
    e1 = e1
    e2 = e2
    o1 = o1
    m1 = m1
    r1 = r1
    acct = acct
    other = other
    p1 = p1
    p2 = p2
    l1 = l1
    l2 = l2
    l3 = l3
    None = None
    Tasks <- CrowdTasks
    Kind <- CrowdKind
    KeyOf <- CrowdKey
    PosOf <- CrowdPos
    Keys = {acct}
    Positions = {p1, p2}
    LockIds = {l1, l2, l3}
SPECIFICATION FairSpec
INVARIANTS
    OneLockPerAccount
    OneSellPerAccount
    ClaimsExact
PROPERTY NoStarvation
