SPECIFICATION Spec
CONSTANTS
    Names = {p1, p2}
    NoName = NoName
    Job = j
    JobOf <- MCJobOf
    RVBase = 7
    MaxRV = 4
    MaxFaults = 0
    MaxRestarts = 0
    MaxOpens = 1
INVARIANT LatestPodIsNewest
CHECK_DEADLOCK FALSE
