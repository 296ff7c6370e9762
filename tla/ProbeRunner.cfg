\* A device whose host and agent come and go, edited or deleted once, and a
\* request that may overlap the runner's probes.
CONSTANTS
    Devices = {d1}
    Callers = {w1}
    Runner = Runner
    Intervals = {2}
    Period = 2
    MaxLag = 1
    Cap = 3
    NoResult = NoResult
    Gone = Gone
    MaxRequests = 1
    MaxEdits = 1
    MaxFlips = 2
SPECIFICATION FairSpec
INVARIANTS NewsIsCurrent ChangesAddUp
PROPERTIES Paced Follows
CHECK_DEADLOCK FALSE
