SPECIFICATION Spec
CONSTANTS
    Server = {me, hub, s1, s2}
    FakeServer = {f1}
    Me = me
    Uplink = hub
    me = me
    hub = hub
    s1 = s1
    s2 = s2
    f1 = f1
    k1 = k1
    k2 = k2
    Slots = 1
    Nick = {k1, k2}
    NoServer = NoServer
    NoNick = NoNick
    NoNumeric = NoNumeric
INVARIANTS
    NickMapSound
    ClientServerKnown
    NumericsReserved
CHECK_DEADLOCK FALSE
