SPECIFICATION Spec
CONSTANTS
    Names = {p1, p2}
    NoName = NoName
    Job = j
    JobOf <- MCJobOf
    RVBase = 17
    MaxRV = 4
    MaxFaults = 1
    MaxRestarts = 1
    MaxOpens = 2
SYMMETRY NamesSymmetry
INVARIANTS
    IInv
    CaughtUpShowsCurrent
    CaughtUpKeepsGone
CHECK_DEADLOCK FALSE
