SPECIFICATION AgentSpec
CONSTANT
    Parts = {"stream"}
    Calls <- ToolCalls
    Request <- ToolRequests
    Definitions <- Versions
    Inputs <- MemoryInputs
    Policies <- MemoryPolicies
    Askers <- Two
    Cached = {"b"}
    Queries <- MemoryQueries
    ChunkSize = 10
    ChunkOverlap = 3
    MaxRecords = 2
    NodeIds = {"a", "b", "c"}
    EdgeIds = {"e", "f"}
    MaxDepth = 2
    MaxListed = 2
    Executions <- Two
    StepsOf <- PlanSteps
    MaxAttempts = 1
INVARIANT ToolCallsKeepTheirIndex
CHECK_DEADLOCK FALSE
