\* Two changes, and two PUTs that may overlap, against two failures and two
\* stops; under LuCI the token is set.
CONSTANTS
    Admins = {a1, a2}
    NoAdmin = NoAdmin
    Tokens = {t1, t2}
    Blank = Blank
    Modes = {"own", "readonly", "writeback"}
    UciTokens = {t1, t2}
    Absent = Absent
    Torn = Torn
    MaxChanges = 2
    MaxPuts = 2
    MaxFaults = 2
    MaxStops = 2
SPECIFICATION FairSpec
INVARIANTS FileOpens ServesHashed ServesWithToken SettledInForce LostOnlyToSync
PROPERTIES KeepsPromises TokenKept ServesAgain
CHECK_DEADLOCK FALSE
