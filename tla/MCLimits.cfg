SPECIFICATION Spec
CONSTANTS
    c1 = c1
    c2 = c2
    w = w
    A = A
    B = B
    Client = {c1, c2}
    User = {w}
    Ip = {0, 1}
    Cut <- Cuts
    Isp = {A, B}
    Limit = {1}
    IdentLimit = 1
    Stored <- StoredIsps
    MaxEdits = 1
    Offline = Offline
    Dead = Dead
    NoIsp = NoIsp
INVARIANTS
    Counted
    Enforced
SYMMETRY Symmetry
\* The program has used what it may not.
CHECK_DEADLOCK FALSE
