CONSTANTS
    d1 = d1
    d2 = d2
    t1 = t1
    t2 = t2
    t3 = t3
    raw1 = raw1
    gen1 = gen1
    Ids = {d1, d2}
    Topics <- MCTopics
    Norm <- MCNorm
    Generated = {gen1}
    Uids = {u1}
    NoUid = NoUid
    NoTopic = NoTopic
    None = None
    Admins = {a}
    Bodies <- SharedTopics
    Deletable = {d1, d2}
    Adoptable = {}
    MaxCalls = 6
    MaxFaults = 0
    MaxRestarts = 0
SPECIFICATION Spec
INVARIANTS EnabledIsSubscribed
CHECK_DEADLOCK FALSE
