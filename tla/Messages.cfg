SPECIFICATION Spec

CONSTANTS
    Jobs <- JobsOfMC
    Debuggers <- DebuggersOfMC
    CronJobSpec <- CronJobSpecOfMC
    MaxRestarts = 1
    MaxTime = 2

INVARIANTS
    IInv
    AgreesWithJobStatus
    FailureIsExplained

PROPERTY
    DurationStandsStill

CHECK_DEADLOCK FALSE
