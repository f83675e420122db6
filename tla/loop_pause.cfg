CONSTANTS
    StepIds <- MCSteps
    InitialPlans <- MCTwoPlans
    ReplanPlans <- MCTwoReplans
    MaxAttempts = 3
    EnableCheckpoints = TRUE
    MaxPauses = 1
    MaxExecutes = 1
SPECIFICATION Spec
INVARIANT AllStepsDoneCompletes
CHECK_DEADLOCK FALSE
