SPECIFICATION Spec
CONSTANTS
    chanA = chanA
    chanB = chanB
    svc = svc
    fake = fake
    user1 = user1
    user2 = user2
    Chan = {chanA, chanB}
    Client = {svc, fake, user1, user2}
    Xclient = {svc}
    Fake = {fake}
    NoChan = NoChan
    NoClient = NoClient
    MaxTime = 2
    \* or KickOutside
    Scenes <- BurstKick
INVARIANT NeverFreed
