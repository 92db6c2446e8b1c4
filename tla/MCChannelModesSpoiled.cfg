SPECIFICATION Spec
CONSTANTS
    Client = {a, k}
    Service = {k}
    Bot = bot
    bot = bot
    a = a
    k = k
    v1 = v1
    v2 = v2
    wide = wide
    narrow = narrow
    Value = {v1, v2}
    Mask = {wide, narrow}
    Covers <- Overlap
    BanOf <- Bans
    MaxModes = 1
    None = None
    Scenes <- Pairs
INVARIANTS
    AlwaysSynced
CHECK_DEADLOCK FALSE
