SPECIFICATION MCFairSpec
CONSTANTS
    h1 = h1
    r1 = r1
    u1 = u1
    u2 = u2
    o1 = o1
    o2 = o2
    acc1 = acc1
    acc2 = acc2
    mask1 = mask1
    None = None
    Host = {h1, r1}
    RealName <- RealNames
    Duration = {1}
    MaxTime = 1
    MaxQueue = 1
    MaxFail = 1
    MaxStarts = 2
    User = {u1, u2}
    Client = {o1, o2}
    Account = {acc1, acc2}
    Mask = {mask1}
    Visitor <- Visitors
    Stored <- StoredUsers
    Level = {2}
    MaxChanges = 2
    Nobody = Nobody
    NoData = NoData
INVARIANTS
    Agreement
    RemovedStaysAway
    SessionsAgree
PROPERTIES
    ExpiredGo
    Entitled
\* A gline that nobody can change and a program that has used what it may
\* not are behaviours that stop.
CHECK_DEADLOCK FALSE
