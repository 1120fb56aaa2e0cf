SPECIFICATION DashboardSpec
CONSTANTS
    Cronjobs <- MCCronjobs
    Jobs = {"own", "shared"}
    Owners <- MCOwners
    MetricName <- MCMetricName
    MaxRounds = 2
    SeenLists <- MCSeenLists
    SeenStatuses <- MCSeenStatuses
INVARIANTS
    RecorderInv
    NeverRegistersTwice
    TotalsAreOfResponse
    ScrapeSeesWholeTotals
    OwnGaugesAreOfResponse
    DashboardCoversRegistered
    DashboardQueriesRegistered
