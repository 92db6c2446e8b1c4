\* The instance of MCTimers.cfg: false, as handlers may register timers that
\* have come for ever.
SPECIFICATION FairSpec
CONSTANTS
    Module = {c1, c2}
    IdSpace = 4
    MaxDelay = 2
    MaxLate = 1
    MaxQueue = 2
    LoadDelay = 1
PROPERTY NeverStarves
CHECK_DEADLOCK FALSE
