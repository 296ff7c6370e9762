\* LuCI has no token, as installed.
CONSTANTS
    Admins = {a1}
    NoAdmin = NoAdmin
    Tokens = {t1, t2}
    Blank = Blank
    Modes = {"readonly", "writeback"}
    UciTokens = {Blank}
    Absent = Absent
    Torn = Torn
    MaxChanges = 0
    MaxPuts = 0
    MaxFaults = 0
    MaxStops = 1
SPECIFICATION Spec
PROPERTIES TokenKept
CHECK_DEADLOCK FALSE
