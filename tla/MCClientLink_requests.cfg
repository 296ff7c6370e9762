\* A machine per key; two API calls that may draw the same request id.
CONSTANTS
    k1 = k1
    k2 = k2
    m1 = m1
    m2 = m2
    m3 = m3
    t1 = t1
    NoConn = NoConn
    NoKey = NoKey
    NoToken = none
    NoReq = NoReq
    NoMsg = NoMsg
    NoEvent = NoEvent
    Conns = {c1, c2}
    Machines = {m1, m2}
    Callers = {a1, a2}
    Keys <- TwoKeys
    KeyOf <- OwnKeys
    Tokens = {t1, none}
    TokenOf <- SameToken
    MaxClock = 1
    MaxFaults = 0
    MaxRotations = 0
    MaxQueue = 1
SPECIFICATION Spec
SYMMETRY Symmetry
INVARIANTS
    RunsAtMostOnce
PROPERTIES
    KeepsOrders
CHECK_DEADLOCK FALSE
