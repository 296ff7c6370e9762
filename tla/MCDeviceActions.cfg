\* Two devices and a group, a request and the runner, two calls and two edits.
CONSTANTS
    d1 = d1
    d2 = d2
    g1 = g1
    Devices = {d1, d2}
    Groups = {g1}
    Bodies <- SomeBodies
    Runner = Runner
    Callers = {a1, Runner}
    NoDevice = NoDevice
    NoGroup = NoGroup
    MaxCalls = 2
    MaxEdits = 2
    Entries <- AllEntries
    Requested = 0
    Blank = Blank
SYMMETRY Symmetry
SPECIFICATION Spec
INVARIANTS
    ReplyMatchesLog
    GroupsForgetDeleted
PROPERTIES IsBoundedLog
CHECK_DEADLOCK FALSE
