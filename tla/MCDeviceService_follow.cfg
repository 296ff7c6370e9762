CONSTANTS
    d1 = d1
    d2 = d2
    t1 = t1
    t2 = t2
    t3 = t3
    raw1 = raw1
    gen1 = gen1
    Ids = {d1, d2}
    Topics <- MCTopics
    Norm <- MCNorm
    Generated = {gen1}
    Uids = {u1}
    NoUid = NoUid
    NoTopic = NoTopic
    None = None
    Admins = {a, b}
    Bodies <- OwnTopics
    Deletable = {d1, d2}
    Adoptable = {d1, d2}
    MaxCalls = 5
    MaxFaults = 1
    MaxRestarts = 1
SPECIFICATION Spec
INVARIANTS NoOrphan EnabledIsSubscribed MapIsBroker
PROPERTIES DeletedStaysDeleted
CHECK_DEADLOCK FALSE
