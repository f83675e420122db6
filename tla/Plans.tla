------------------------------- MODULE Plans -------------------------------
(***************************************************************************)
(* What the planning engine makes of a request (packages/llm/src/planning) *)
(* and what the two validators of a plan ask for: the planner's own and    *)
(* the one the execution engine applies before it runs the plan.           *)
(*                                                                         *)
(* A request is [goal, tools, strategy, maxSteps]: goal is "text" or       *)
(* "blank", tools the sequence of tools offered, each [id, described,      *)
(* enabled], strategy may be "unset", maxSteps NoBound.  A step is [id, tool,   *)
(* described, dependsOn]; the planner's steps have their positions as ids. *)
(***************************************************************************)
EXTENDS Integers, Sequences, FiniteSets, SequencesExt

Unset == "unset"

NoBound == -100     \* maxSteps is not given

Strategies == {"sequential", "parallel", "conditional"}

PlanError(code) == [plan |-> <<>>, status |-> "none", code |-> code]

-----------------------------------------------------------------------------
(* The request (PlanningEngine.validateRequest, createPlanningContext)      *)

RequestError(request) ==
    CASE request.goal = "blank"                            -> "INVALID_GOAL"
      [] request.goal # "blank" /\ request.tools = <<>>    -> "NO_TOOLS_AVAILABLE"
      [] request.goal # "blank" /\ request.tools # <<>>
         /\ (\/ request.strategy \notin Strategies \cup {Unset}
             \/ request.maxSteps # NoBound /\ request.maxSteps <= 0)
                                                           -> "STRATEGY_NOT_SUPPORTED"
      [] OTHER                                             -> "none"

MaxSteps(request) == IF request.maxSteps = NoBound THEN 50 ELSE request.maxSteps

-----------------------------------------------------------------------------
(* The steps (PlanningEngine.planSteps); the strategies' organize() keeps   *)
(* them as they are.                                                        *)

PlanStep(id, tool, described) ==
    [id |-> id, tool |-> tool, described |-> described,
     dependsOn |-> IF id = 1 THEN {} ELSE {id - 1}]

Reasoning(id) == PlanStep(id, "none", TRUE)

(* mutant: disabled tools are planned for                                   *)
AnyTools(request) == request.tools

FindRelevantTools(request) == SelectSeq(request.tools, LAMBDA tool : tool.enabled)

(* One step to understand the goal, one to map the tools if there are any,  *)
(* one for each tool up to maxSteps, one to aggregate if there is room.     *)
PlanSteps(request) ==
    LET tools  == FindRelevantTools(request)
        intro  == IF tools = <<>> THEN <<Reasoning(1)>> ELSE <<Reasoning(1), Reasoning(2)>>
        room   == MaxSteps(request) - Len(intro)
        taken  == IF room < Len(tools) THEN (IF room < 0 THEN 0 ELSE room) ELSE Len(tools)
        steps  == intro \o [i \in 1..taken |->
                               PlanStep(Len(intro) + i, tools[i].id, tools[i].described)]
    IN  IF Len(steps) > 2 /\ Len(steps) < MaxSteps(request)
        THEN Append(steps, Reasoning(Len(steps) + 1))
        ELSE steps

StepIds(steps) == {steps[i].id : i \in 1..Len(steps)}

(* SequentialStrategy adds a dependency of each step on the one before it,  *)
(* the other strategies none.                                               *)
GenerateDependencies(strategy, steps) ==
    IF strategy \in {"sequential", Unset}
    THEN {<<steps[i].id, steps[i - 1].id>> : i \in 2..Len(steps)}
    ELSE {}

WithTools(steps) == {i \in 1..Len(steps) : steps[i].tool # "none"}

EstimateComplexity(steps) ==
    LET score == Len(steps) + 2 * Cardinality(WithTools(steps)) IN
    CASE score <= 2                 -> "trivial"
      [] score > 2  /\ score <= 4   -> "simple"
      [] score > 4  /\ score <= 8   -> "moderate"
      [] score > 8  /\ score <= 15  -> "complex"
      [] score > 15                 -> "very-complex"

AssessRisk(steps) ==
    LET count == Len(steps)
        tools == WithTools(steps) # {}
    IN  CASE ~tools /\ count <= 2                       -> "none"
          [] tools /\ count <= 3                        -> "low"
          [] (tools \/ count > 2) /\ (~tools \/ count > 3) /\ count <= 8 -> "medium"
          [] count > 8                                  -> "high"

-----------------------------------------------------------------------------
(* The planner's validator (PlanningValidator.ts)                           *)

DependsOn(steps, id) ==
    UNION {steps[i].dependsOn : i \in {k \in 1..Len(steps) : steps[k].id = id}}

(* What a step leads to, following dependsOn.                               *)
Reaches(steps, id) ==
    LET wave[n \in 0..Len(steps)] ==
            IF n = 0 THEN DependsOn(steps, id)
            ELSE wave[n - 1] \cup UNION {DependsOn(steps, d) : d \in wave[n - 1]}
    IN  wave[Len(steps)]

NoCycles(steps) == \A id \in StepIds(steps) : id \notin Reaches(steps, id)

StepFieldsPresent(steps) == \A i \in 1..Len(steps) : steps[i].described

NoDuplicateIds(steps) == Cardinality(StepIds(steps)) = Len(steps)

DependenciesExist(steps) == \A i \in 1..Len(steps) : steps[i].dependsOn \subseteq StepIds(steps)

ToolsExist(steps, toolIds) ==
    \A i \in 1..Len(steps) : steps[i].tool # "none" => steps[i].tool \in toolIds

(* mutant: steps without a description are let through                      *)
ValidatePlanWithoutFields(steps, toolIds) ==
    /\ steps # <<>> /\ NoDuplicateIds(steps)
    /\ DependenciesExist(steps) /\ NoCycles(steps) /\ ToolsExist(steps, toolIds)

ValidatePlan(steps, toolIds) ==
    /\ steps # <<>> /\ StepFieldsPresent(steps) /\ NoDuplicateIds(steps)
    /\ DependenciesExist(steps) /\ NoCycles(steps) /\ ToolsExist(steps, toolIds)

-----------------------------------------------------------------------------
(* The execution engine's (ExecutionValidator.validatePlanForExecution);    *)
(* it looks at neither ids, cycles, fields nor tools.                       *)

ValidatePlanForExecution(response) ==
    /\ response.plan # <<>>
    /\ response.status \in {"validated", "ready"}
    /\ DependenciesExist(response.plan)

-----------------------------------------------------------------------------

ToolIds(request) == {request.tools[i].id : i \in 1..Len(request.tools)}

(* What plan() answers when no listener throws.                             *)
Planned(request) ==
    IF RequestError(request) # "none" THEN PlanError(RequestError(request))
    ELSE IF ~ValidatePlan(PlanSteps(request), ToolIds(request))
    THEN PlanError("VALIDATION_FAILED")
    ELSE [plan |-> PlanSteps(request), status |-> "validated", code |-> "OK"]

(* The request replan() makes of the one before: the goal wraps the error,  *)
(* the strategy is sequential and the bound on the steps is gone.           *)
ReplanRequest(request) ==
    [request EXCEPT !.goal = "text", !.strategy = "sequential", !.maxSteps = NoBound]
=============================================================================
