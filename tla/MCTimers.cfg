\* Two modules, reloads and ordinary timers, four identifiers so that
\* lastTimerID wraps around while timers are pending.
SPECIFICATION FairSpec
CONSTANTS
    Module = {c1, c2}
    IdSpace = 4
    MaxDelay = 2
    MaxLate = 1
    MaxQueue = 2
    LoadDelay = 1
INVARIANTS
    TimerIDsUnique
    NoTimerOfDetached
    ReloadNeverLosesClient
PROPERTIES
    NoTimerStarves
\* doShutdown() ends the program.
CHECK_DEADLOCK FALSE
