SPECIFICATION Spec
CONSTANTS
    Names = {n1, n2}
    NoName = NoName
    Kind = "Job"
    MaxRV = 4
    MaxFaults = 1
    MaxRestarts = 1
SYMMETRY NamesSymmetry
INVARIANTS
    IInv
    NoDuplicateEntries
    CaughtUpIsCurrent
    LingerOnlyIfMissed
PROPERTIES
    StoreNeverGoesBack
    ImplementsMirror
CHECK_DEADLOCK FALSE
