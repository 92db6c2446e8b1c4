SPECIFICATION FairSpec
CONSTANTS
    Client = {p1, p2}
    Key = {k1, k2}
    None = None
    MaxLogged = 3
CHECK_DEADLOCK FALSE
INVARIANTS
    NoUseOfDropped
    NoRace
