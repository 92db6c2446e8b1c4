SPECIFICATION MCFairSpec
CONSTANTS
    a = a
    b = b
    c = c
    Op = {o1}
    daySamples = 2
    MaxPoints = 2
    MaxFail = 1
    Client = {a, b, c}
    Score <- GivenScores
    maxScore = 100
    minClients = 2
    NumOpped = 2
    AutoInterval = 1
    ChanInterval = 1
    Delay = 1
    Window = 2
    RequestScore = 60
    stopAutoFixOnOp = TRUE
    stopChanFixOnOp = TRUE
    None = None
INVARIANTS FixLeavesNothing
    TableFollows
PROPERTIES RestartKeeps OpsAreStored OpsReturn
