\* The invariant the code does not have; run on EventLists itself.
SPECIFICATION Spec
CONSTANTS
    Xclient = {m1, m2}
    Event = {quit}
    Chan = {chan}
    All = all
    EVT_QUIT = quit
    NoClient = NoClient
    NoChan = NoChan
    Depth = 2
CHECK_DEADLOCK FALSE
INVARIANTS RegistrationKept
