SPECIFICATION LiveSpec
CONSTANTS
    Names = {n1, n2}
    NoName = NoName
    Kind = "CronJob"
    MaxRV = 2
    MaxFaults = 0
    MaxRestarts = 0
PROPERTY GoneObjectsEventuallyDropped
CHECK_DEADLOCK FALSE
