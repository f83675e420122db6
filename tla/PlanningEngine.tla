--------------------------- MODULE PlanningEngine ---------------------------
(***************************************************************************)
(* PlanningEngine.plan() and replan() (packages/llm/src/planning): each    *)
(* runs to its end without a break, telling listeners as it goes.  All but *)
(* the first event are emitted inside the try block.                       *)
(***************************************************************************)
EXTENDS Plans

CONSTANTS
    Callers,    \* who asks for a plan, once each and perhaps once more after a failure
    Requests    \* what may be asked

VARIABLES
    faulty,     \* the events some listener throws on
    calls

vars == <<faulty, calls>>

PlanningEvents == {"PlanningStarted", "PlanValidated", "PlanningCompleted", "PlanningFailed"}

IdleCall == [pc |-> "idle", request |-> <<>>, events |-> <<>>, response |-> PlanError("none")]

Init ==
    /\ faulty = {}
    /\ calls = [c \in Callers |-> IdleCall]

OnEvent(event) ==
    /\ faulty' = faulty \cup {event}
    /\ UNCHANGED calls

(* What is told of these events: up to the first that a listener throws on. *)
Told(events) ==
    LET i == SelectInSeq(events, LAMBDA e : e \in faulty)
    IN  IF i = 0 THEN events ELSE SubSeq(events, 1, i)

Interrupted(events) == \E i \in 1..Len(events) : events[i] \in faulty

(* What plan() tells of a request whose answer it has.                      *)
Report(response) ==
    CASE response.code = "OK"                -> <<"PlanValidated", "PlanningCompleted">>
      [] response.code = "VALIDATION_FAILED" -> <<"PlanValidated", "PlanningFailed">>
      [] OTHER                               -> <<"PlanningFailed">>

(* A request refused before anything is validated throws into the catch     *)
(* block, which tells PlanningFailed as it does of a listener's exception;  *)
(* whatever throws there or on PlanningStarted rejects the call.            *)
Settled(request, response) ==
    LET report == Report(response)
        threw  == Interrupted(report)
        again  == threw /\ Len(report) > 1
    IN  [request |-> request,
         pc |-> IF \/ "PlanningStarted" \in faulty
                   \/ threw /\ (~again \/ "PlanningFailed" \in faulty)
                THEN "rejected" ELSE "returned",
         response |-> IF threw THEN PlanError("PLANNING_FAILED") ELSE response,
         events |-> IF "PlanningStarted" \in faulty THEN <<"PlanningStarted">>
                    ELSE <<"PlanningStarted">> \o Told(report) \o
                         IF again THEN <<"PlanningFailed">> ELSE <<>>]

Plan(c, request) ==
    /\ calls[c].pc = "idle"
    /\ calls' = [calls EXCEPT ![c] = Settled(request, Planned(request))]
    /\ UNCHANGED faulty

(* After a failure of a step of the plan.                                   *)
Replan(c) ==
    /\ calls[c].pc = "returned" /\ calls[c].response.code = "OK"
    /\ LET request == ReplanRequest(calls[c].request)
       IN  calls' = [calls EXCEPT ![c] = Settled(request, Planned(request))]
    /\ UNCHANGED faulty

Next ==
    \/ \E event \in PlanningEvents : OnEvent(event)
    \/ \E c \in Callers : Replan(c) \/ \E request \in Requests : Plan(c, request)

Spec == Init /\ [][Next]_vars

-----------------------------------------------------------------------------

(* The listeners and the calls keep their shape (PlanningEngine.ts).        *)
TypeOK ==
    /\ faulty \subseteq PlanningEvents
    /\ \A c \in Callers :
          /\ calls[c].pc \in {"idle", "returned", "rejected"}
          /\ calls[c].events \in Seq(PlanningEvents)
          /\ calls[c].pc = "idle" => calls[c] = IdleCall

(* A plan that is returned can be run as it stands: the loop takes steps in *)
(* the order of the array, so each must come after those it depends on; the *)
(* tools it names were offered and enabled, both validators accept it, the  *)
(* strategy's dependencies agree with the steps' own, and beyond its two    *)
(* steps of reasoning it keeps to the bound asked for (planSteps()): of one *)
(* step two are made, not the MaxStepsExceededError of planning-engine.md.  *)
PlansAreExecutable ==
    \A c \in Callers :
        LET plan == calls[c].response.plan  request == calls[c].request IN
        calls[c].pc = "returned" /\ calls[c].response.code = "OK" =>
            /\ ValidatePlanForExecution(calls[c].response) /\ StepFieldsPresent(plan)
            /\ \A i \in 1..Len(plan) :
                  /\ plan[i].dependsOn \subseteq {plan[k].id : k \in 1..(i - 1)}
                  /\ plan[i].tool # "none" =>
                        \E t \in 1..Len(request.tools) :
                            request.tools[t].id = plan[i].tool /\ request.tools[t].enabled
            /\ \A d \in GenerateDependencies(request.strategy, plan) :
                  d[2] \in DependsOn(plan, d[1])
            /\ request.maxSteps # NoBound => Len(plan) <= request.maxSteps \/ Len(plan) <= 2
            /\ AssessRisk(plan) = "none" => WithTools(plan) = {}
            /\ EstimateComplexity(plan) = "trivial" => Len(plan) <= 2
=============================================================================
