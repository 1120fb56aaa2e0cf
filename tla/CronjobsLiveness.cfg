SPECIFICATION LiveSpec
CONSTANTS
    Names = {n1, n2}
    NoName = NoName
    Kind = "CronJob"
    MaxRV = 3
    MaxFaults = 1
    MaxRestarts = 1
INVARIANT CaughtUpIsCurrent
PROPERTIES
    KeepsWatching
    CancelStops
    LiveObjectsEventuallyStored
CHECK_DEADLOCK FALSE
