SPECIFICATION LiveSpec
CONSTANTS
    Jobs = {"j1", "j2", "j3"}
    Cronjobs = {"c", "d"}
    Requested = "c"
    Scenarios <- MCScenarios
    CreatedAt <- MCCreatedAt
    OldJobs = {"j1", "j2"}
    PodStates <- MCPodStates
    NoJob = NoJob
    TTL = 1
    MaxLag = 1
    MaxWork = 0
    MaxPods = 2
    MaxFaults = 1
INVARIANTS
    StreamsInv
    AnswerHasEveryJobOnce
    DurationsAreByAge
    FailureIsFinal
    TickingIsBounded
PROPERTIES
    AnswersCatchUp
