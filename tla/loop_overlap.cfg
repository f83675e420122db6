CONSTANTS
    StepIds <- MCSteps
    InitialPlans <- MCTwoPlans
    ReplanPlans <- MCTwoReplans
    MaxAttempts = 2
    EnableCheckpoints = TRUE
    MaxPauses = 1
    MaxExecutes = 2
SPECIFICATION Spec
INVARIANT StepsRunOneAtATime
CHECK_DEADLOCK FALSE
