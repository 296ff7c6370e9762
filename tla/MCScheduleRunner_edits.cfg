CONSTANTS
    Schedules = {s1, s2}
    MinutesPerDay = 2
    WeekLength = 2
    Bodies <- MCBodies
    LastDay = 1
    MaxEdits = 2
    MaxFaults = 1
    MaxSetBacks = 1
    None = None
SPECIFICATION Spec
SYMMETRY Symmetry
INVARIANTS OncePerLife MarkedRan NothingLeftBehind
CHECK_DEADLOCK FALSE
