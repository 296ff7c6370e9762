\* One machine with the right token against faults: it comes back, and goes,
\* and keeps to its orders though the server dies between writing one and
\* answering its caller.
CONSTANTS
    k1 = k1
    k2 = k2
    m1 = m1
    m2 = m2
    m3 = m3
    t1 = t1
    NoConn = NoConn
    NoKey = NoKey
    NoToken = none
    NoReq = NoReq
    NoMsg = NoMsg
    NoEvent = NoEvent
    Conns = {c1, c2}
    Machines = {m1}
    Callers = {a1}
    Keys <- OneKey
    KeyOf <- SoleKey
    Tokens = {t1, none}
    TokenOf <- SoleToken
    MaxClock = 0
    MaxFaults = 2
    MaxRotations = 0
    MaxQueue = 1
SPECIFICATION FairSpec
PROPERTIES
    ComesOnline
    GoneGoesOffline
    KeepsOrders
CHECK_DEADLOCK FALSE
