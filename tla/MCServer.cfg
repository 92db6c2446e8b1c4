SPECIFICATION MCSpec
CONSTANTS
    chanA = chanA
    chanB = chanB
    svc = svc
    fake = fake
    user1 = user1
    user2 = user2
    Chan = {chanA, chanB}
    Client = {svc, fake, user1, user2}
    Xclient = {svc}
    Fake = {fake}
    NoChan = NoChan
    NoClient = NoClient
    MaxTime = 2
    Scenes <- Both
    m1 = m1
    m2 = m2
    other = other
    Module = {m1, m2}
    EventChan = {other}
    Event = {quit}
    All = all
    EVT_QUIT = quit
    Depth = 2
\* A handler that uses a deleted object ends the program.
CHECK_DEADLOCK FALSE
SYMMETRY MCSymmetry
INVARIANTS
    Memberships
    NoUseAfterDelete
    WrittenTimestamp
    ToldOnce
PROPERTIES
    TimestampDecides
