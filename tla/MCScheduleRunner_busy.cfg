CONSTANTS
    Schedules = {s1, s2}
    MinutesPerDay = 4
    WeekLength = 2
    Bodies <- DailyBodies
    LastDay = 1
    MaxEdits = 0
    MaxFaults = 0
    MaxSetBacks = 0
    None = None
SPECIFICATION Spec
PROPERTIES PassedMinuteIsServed
CHECK_DEADLOCK FALSE
