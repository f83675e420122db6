CONSTANTS
    StepIds <- MCSteps
    InitialPlans <- MCPlans
    ReplanPlans <- MCReplans
    MaxAttempts = 2
    EnableCheckpoints = TRUE
    MaxPauses = 1
    MaxExecutes = 2
SPECIFICATION FairSpec
INVARIANT TypeOK
INVARIANT NoStepSucceedsTwice
INVARIANT RetryBudget
INVARIANT HistoryAgreesWithStatus
INVARIANT CheckpointsTellTheRun
PROPERTY ImplementsContract
INVARIANT CompletedMeansEveryStepSucceeded
PROPERTY NoStepStartsWhenHalted
PROPERTY SettlesUnlessLeftPaused
CHECK_DEADLOCK FALSE
