\* A machine with the token, one without, one without a key; the token changes.
\* Once it is empty, two machines that share a key take each other over.
CONSTANTS
    k1 = k1
    k2 = k2
    m1 = m1
    m2 = m2
    m3 = m3
    t1 = t1
    NoConn = NoConn
    NoKey = NoKey
    NoToken = none
    NoReq = NoReq
    NoMsg = NoMsg
    NoEvent = NoEvent
    Conns = {c1, c2, c3}
    Machines = {m1, m2, m3}
    Callers = {a1}
    Keys <- OneKey
    KeyOf <- OneKeyless
    Tokens = {t1, none}
    TokenOf <- MixedToken
    MaxClock = 0
    MaxFaults = 0
    MaxRotations = 1
    MaxQueue = 1
SPECIFICATION Spec
SYMMETRY Symmetry
INVARIANTS
    ControlOnlyAfterAdmission
    FatalIsRefusal
    EntryHasHandler
    OpenIsRegistered
    ExecutedEventIsTrue
PROPERTIES
    OnlyOwnerDeregisters
CHECK_DEADLOCK FALSE
