SPECIFICATION Spec
CONSTANTS
    manager = manager
    second = second
    admin = admin
    star = star
    chan = chan
    User = {manager, second, admin}
    Chan = {star, chan}
    Star = star
    Level = {450, 500, 800}
    Asked = {800}
    Accounts = {second}
    Slot <- Slots
    Start <- Rows
    Strict = {chan}
    InstantReg = FALSE
    None = None
    MaxMishaps = 1
INVARIANTS
    Agreement
    Backed
PROPERTIES
    RulesSpec
    EditsArrive
CHECK_DEADLOCK FALSE
