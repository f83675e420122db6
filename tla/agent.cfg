SPECIFICATION FairAgentSpec
CONSTANT
    Parts = {"tools", "planner", "engine", "store", "providers", "graph", "writer", "stream", "model", "routes", "records"}
    Calls <- ToolCalls
    Request <- ToolRequests
    Definitions <- Versions
    Inputs <- MemoryInputs
    Policies <- MemoryPolicies
    Askers <- Two
    Cached = {"b"}
    Queries <- MemoryQueries
    ChunkSize = 10
    ChunkOverlap = 3
    MaxRecords = 2
    NodeIds = {"a", "b", "c"}
    EdgeIds = {"e", "f"}
    MaxDepth = 2
    MaxListed = 2
    Executions <- Two
    StepsOf <- PlanSteps
    MaxAttempts = 1
INVARIANTS
    AgentTypeOK
    PlansRunAsTold
    IndexFollowsTheRecords
    AnswersFitTheQuery
    HousekeepingKeepsTheBest
    GraphTellsTheExecutions
    AnswersTellWhatIs
PROPERTIES
    CallsTellTheirResults
    GraphStaysWhole
    CallersAreAnswered
CHECK_DEADLOCK FALSE
