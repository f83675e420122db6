-------------------------- MODULE ExecutionEngine --------------------------
(***************************************************************************)
(* ExecutionEngine.execute() (packages/hermes/src/execution) from the goal *)
(* to the result: memory, planning, validation and the loop, over the      *)
(* planner of Plans or another one its host wires in.                      *)
(*                                                                         *)
(* The loop is run here as the engine drives it: a step executor of its    *)
(* own that always succeeds, a context no caller ever sees (so nobody      *)
(* pauses or cancels it) and an abort signal.  ExecutionLoop has the rest. *)
(***************************************************************************)
EXTENDS Plans

CONSTANTS
    Executions,    \* the calls of execute()
    PlannerOf,     \* the planningFn each is wired with: "none", "engine", "other"
    MemoryOf,      \* whether a memoryFn is wired
    Offered,       \* the ids of availableTools
    Responses      \* what another planner may answer: [plan, status, code]

VARIABLES execs

vars == <<execs>>

Idle == [pc |-> "idle", aborted |-> FALSE, response |-> PlanError("none"), index |-> 1,
         ran |-> <<>>, status |-> "none", code |-> "none"]

Init == execs = [e \in Executions |-> Idle]

(* The tools are offered to the planner by id, with an empty description.   *)
PlanningRequest(e) ==
    [goal |-> "text", strategy |-> Unset, maxSteps |-> NoBound,
     tools |-> [i \in 1..Len(Offered) |->
                   [id |-> Offered[i], described |-> FALSE, enabled |-> TRUE]]]

Becomes(e, r) == execs' = [execs EXCEPT ![e] = r]

Returned(r, status, code) == [r EXCEPT !.pc = "returned", !.status = status, !.code = code]

(* Without a planner there is no plan.                                      *)
AskPlanner(e, r) ==
    Becomes(e, IF PlannerOf[e] = "none" THEN Returned(r, "failed", "NO_PLAN")
               ELSE [r EXCEPT !.pc = "planning"])

Execute(e) ==
    /\ execs[e].pc = "idle"
    /\ IF MemoryOf[e] THEN Becomes(e, [execs[e] EXCEPT !.pc = "remembering"])
       ELSE AskPlanner(e, execs[e])

(* The memory answers or fails: its answer is not used, its failure caught. *)
MemorySettles(e) ==
    /\ execs[e].pc = "remembering"
    /\ AskPlanner(e, execs[e])

(* The planner rejects: so does execute().                                  *)
PlanningRejects(e) ==
    /\ execs[e].pc = "planning"
    /\ Becomes(e, [execs[e] EXCEPT !.pc = "rejected"])

(* mutant: the check at the head of the loop is left out                    *)
GoOnRegardless(r) ==
    IF r.index > Len(r.response.plan) THEN Returned(r, "completed", "OK")
    ELSE [r EXCEPT !.pc = "stepping"]

(* The loop at its head: it ends after the last step, by the signal, or on  *)
(* a step whose id has been completed, which cannot be running again.       *)
GoOn(r) ==
    CASE r.index > Len(r.response.plan) -> Returned(r, "completed", "OK")
      [] r.index <= Len(r.response.plan) /\ r.aborted -> Returned(r, "cancelled", "OK")
      [] r.index <= Len(r.response.plan) /\ ~r.aborted ->
            IF r.response.plan[r.index].id \in ToSet(r.ran)
            THEN Returned(r, "failed", "EXECUTION_FAILED")
            ELSE [r EXCEPT !.pc = "stepping"]

PlanningAnswers(e, response) ==
    /\ execs[e].pc = "planning"
    /\ LET r == [execs[e] EXCEPT !.response = response] IN
       Becomes(e, IF response.code # "OK" THEN Returned(r, "failed", "NO_PLAN")
                  ELSE IF ~ValidatePlanForExecution(response)
                  THEN Returned(r, "failed", "PLAN_INVALID")
                  ELSE GoOn(r))

(* The default executor is done with the step.                              *)
StepSettles(e) ==
    /\ execs[e].pc = "stepping"
    /\ LET r == execs[e] IN
       Becomes(e, GoOn([r EXCEPT !.ran = Append(@, r.response.plan[r.index].id),
                                 !.index = @ + 1]))

Abort(e) ==
    /\ execs[e].pc # "idle" /\ ~execs[e].aborted
    /\ Becomes(e, [execs[e] EXCEPT !.aborted = TRUE])

Answers(e) == IF PlannerOf[e] = "engine" THEN {Planned(PlanningRequest(e))} ELSE Responses

Next ==
    \E e \in Executions :
        \/ Execute(e) \/ MemorySettles(e) \/ PlanningRejects(e) \/ StepSettles(e) \/ Abort(e)
        \/ \E response \in Answers(e) : PlanningAnswers(e, response)

(* Memory, planner and executor answer; nobody need abort.                  *)
GoesOn(e) ==
    \/ MemorySettles(e) \/ StepSettles(e)
    \/ \E response \in Answers(e) : PlanningAnswers(e, response)

Fairness == \A e \in Executions : WF_vars(GoesOn(e))

Spec == Init /\ [][Next]_vars

-----------------------------------------------------------------------------

(* The calls of execute() keep their shape (ExecutionEngine.execute()).     *)
TypeOK ==
    \A e \in Executions :
        /\ execs[e].pc \in {"idle", "remembering", "planning", "stepping", "returned", "rejected"}
        /\ execs[e].status \in {"none", "completed", "cancelled", "failed"}
        /\ execs[e].index \in 1..(Len(execs[e].response.plan) + 1)
        /\ Len(execs[e].ran) = execs[e].index - 1

(* A result of execute() says what was done: completed means that every     *)
(* step of the plan ran, once and in order; cancelled that the signal was   *)
(* raised before the last one; and nothing runs of a plan that the engine's *)
(* validation refuses (execute(), buildResult()).                           *)
ResultTellsWhatRan ==
    \A e \in Executions :
        LET r == execs[e]  planned == [i \in 1..Len(r.response.plan) |-> r.response.plan[i].id] IN
        /\ IsPrefix(r.ran, planned) /\ Cardinality(ToSet(r.ran)) = Len(r.ran)
        /\ r.status = "completed" => r.ran = planned /\ planned # <<>>
        /\ r.status = "cancelled" => r.aborted /\ Len(r.ran) < Len(planned)
        /\ r.ran # <<>> => ValidatePlanForExecution(r.response)

(* The engine wired as its usage comment shows, with the planning engine's  *)
(* plan(), gets a plan for a goal and the tools it is given                 *)
(* (ExecutionEngine.ts:67-77).                                              *)
GoalWithToolsIsPlanned ==
    \A e \in Executions :
        PlannerOf[e] = "engine" /\ execs[e].pc = "returned" => execs[e].code # "NO_PLAN"

(* An execution that has not settled; it does if its memory, its planner    *)
(* and its steps do.                                                        *)
Unanswered(e) == execs[e].pc \notin {"idle", "returned", "rejected"}
=============================================================================
