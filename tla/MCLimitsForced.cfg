SPECIFICATION Spec
CONSTANTS
    c1 = c1
    c2 = c2
    w = w
    A = A
    B = B
    Client = {c1}
    User = {w}
    Ip = {0, 1}
    Cut <- Cuts
    Isp = {A, B, D}
    Limit = {1}
    IdentLimit = 1
    Stored <- StoredForced
    MaxEdits = 1
    Offline = Offline
    Dead = Dead
    NoIsp = NoIsp
INVARIANT
    NobodyOverlooked
\* The program has used what it may not.
CHECK_DEADLOCK FALSE
