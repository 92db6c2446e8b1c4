SPECIFICATION MCFairSpec
CONSTANTS
    None = None
    Client = {p1, p2}
    Key = {k1, k2}
    MaxLogged = 3
    Server = Server
    Wingate = Wingate
    Conn = {c1, c2}
    Handler = {Server, Wingate}
    MaxTime = 2
    Timeout = 1
    MaxOut = 1
    MaxErrors = 1
    LookupFails = TRUE
INVARIANTS
    PointersLive
    ClientOutlivesJobs
PROPERTIES
    EverythingEnds
    JobsRun
\* The process ends, or has used what it may not.
CHECK_DEADLOCK FALSE
