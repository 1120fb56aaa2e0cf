SPECIFICATION Spec
CONSTANTS
    Cronjobs <- MCCronjobs
    Jobs = {"own", "shared"}
    Owners <- MCOwners
    MetricName <- MCMetricName
    MaxRounds = 2
    SeenLists <- MCSeenLists
    SeenStatuses <- MCSeenStatuses
INVARIANT DurationsAreOfRunning
