CONSTANTS
    StepIds <- MCSteps
    InitialPlans <- MCTwoPlans
    ReplanPlans <- MCTwoReplans
    MaxAttempts = 3
    EnableCheckpoints = TRUE
    MaxPauses = 1
    MaxExecutes = 1
SPECIFICATION Spec
INVARIANT CompletedMeansPlanDone
CHECK_DEADLOCK FALSE
