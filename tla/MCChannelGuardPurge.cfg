SPECIFICATION Spec
CONSTANTS
    c1 = c1
    c2 = c2
    manager = manager
    second = second
    Client = {c1, c2}
    User = {manager, second}
    NoUser = NoUser
    LoginOf <- Logins
    AutoOp = {second}
    Mask <- Masks
    Matches <- Matching
    HostMask <- Hosts
    Access <- Accesses
    BanLevel = {50, 75}
    Setting <- Settings
    BanCheck = TRUE
    LimitJoinMax = 2
    MaxTimer = 2
CHECK_DEADLOCK FALSE
INVARIANT NoUseOfDeleted
