------------------------ MODULE GraphitiEventWriter ------------------------
(***************************************************************************)
(* The event writer (packages/hermes/src/graphiti) and the graph it fills  *)
(* for mission control: executions run side by side, each loop emits its   *)
(* events in the order of ExecutionLoop.execute(), and the writer, a       *)
(* synchronous listener, turns each into nodes and edges at once.          *)
(***************************************************************************)
EXTENDS GraphOperations

CONSTANTS
    Executions,
    StepsOf,        \* the ids of the steps of each plan
    MaxAttempts     \* retries of a step

(* A plan without steps is refused before (validatePlanForExecution()); an  *)
(* id may be there twice.                                                   *)
ASSUME WriterAssumption ==
    /\ MaxAttempts \in Nat
    /\ \A e \in Executions : StepsOf[e] \in Seq(Range(StepsOf[e])) /\ StepsOf[e] # <<>>

VARIABLES
    written,        \* the graph
    runs

writerVars == <<written, runs>>

IdleRun == [pc |-> "idle", index |-> 1, attempts |-> 0, cancelled |-> FALSE]

WriterInit ==
    /\ written = EmptyGraph
    /\ runs = [e \in Executions |-> IdleRun]

-----------------------------------------------------------------------------
(* Nodes and edges.  Goal and plan are the execution's own; a step's node   *)
(* is named by its id alone.                                                *)

GoalNode(e) == <<"goal", e>>
PlanNode(e) == <<"plan", e>>
ExecutionNode(e) == <<"exec", e>>
StepNode(step) == <<"step", step>>
CheckpointNode(e, step) == <<"checkpoint", e, step>>

EnsureNode(g, id) == IF id \in DOMAIN g.nodes THEN g ELSE AddNode(g, id, "none")

(* mutant: no edge to a node that another execution's edge leads to         *)
EnsureFirstEdge(g, source, target) ==
    IF Listed(g.inc, target) # <<>> THEN g
    ELSE AddEdge(g, <<source, target>>, source, target)

EnsureEdge(g, source, target) ==
    IF <<source, target>> \in DOMAIN g.edges THEN g
    ELSE AddEdge(g, <<source, target>>, source, target)

OnExecutionStarted(g, e) ==
    LET known == AddNode(EnsureNode(EnsureNode(g, GoalNode(e)), PlanNode(e)),
                         ExecutionNode(e), "running")
    IN  EnsureEdge(EnsureEdge(known, ExecutionNode(e), GoalNode(e)), PlanNode(e), ExecutionNode(e))

OnStepStarted(g, e, step) ==
    EnsureEdge(AddNode(g, StepNode(step), "running"), ExecutionNode(e), StepNode(step))

OnCheckpointCreated(g, e, step) ==
    EnsureEdge(AddNode(g, CheckpointNode(e, step), "none"),
               ExecutionNode(e), CheckpointNode(e, step))

(* mutant: a retry is not noted                                             *)
HandleEventButRetries(g, event) ==
    LET e == event.execution  step == event.step IN
    CASE event.type = "ExecutionStarted"   -> OnExecutionStarted(g, e)
      [] event.type = "ExecutionCompleted" -> UpdateNode(g, ExecutionNode(e), "completed")
      [] event.type = "ExecutionFailed"    -> UpdateNode(g, ExecutionNode(e), "failed")
      [] event.type = "StepStarted"        -> OnStepStarted(g, e, step)
      [] event.type = "StepCompleted"      -> UpdateNode(g, StepNode(step), "completed")
      [] event.type = "StepFailed"         -> UpdateNode(g, StepNode(step), "failed")
      [] event.type = "CheckpointCreated"  -> OnCheckpointCreated(g, e, step)
      [] OTHER                             -> g

(* Cancellation, progress, pause and resume are not listened to.            *)
HandleEvent(g, event) ==
    LET e == event.execution  step == event.step IN
    CASE event.type = "ExecutionStarted"   -> OnExecutionStarted(g, e)
      [] event.type = "ExecutionCompleted" -> UpdateNode(g, ExecutionNode(e), "completed")
      [] event.type = "ExecutionFailed"    -> UpdateNode(g, ExecutionNode(e), "failed")
      [] event.type = "StepStarted"        -> OnStepStarted(g, e, step)
      [] event.type = "StepCompleted"      -> UpdateNode(g, StepNode(step), "completed")
      [] event.type = "StepFailed"         -> UpdateNode(g, StepNode(step), "failed")
      [] event.type = "RetryStarted"       -> UpdateNode(g, StepNode(step), "retrying")
      [] event.type = "CheckpointCreated"  -> OnCheckpointCreated(g, e, step)
      [] OTHER                             -> g

-----------------------------------------------------------------------------
(* The executions                                                           *)

Step(e) == StepsOf[e][runs[e].index]

(* Every event carries the ids of its execution (eventBase()).              *)
Event(type, e, step) == [type |-> type, execution |-> e, step |-> step]

(* The graph once the writer heard of that.                                 *)
Noted(g, type, e, step) == HandleEvent(g, Event(type, e, step))

RunBecomes(e, run) == runs' = [runs EXCEPT ![e] = run]

StartExecution(e) ==
    /\ runs[e].pc = "idle"
    /\ written' = Noted(Noted(written, "ExecutionStarted", e, Step(e)), "StepStarted", e, Step(e))
    /\ RunBecomes(e, [runs[e] EXCEPT !.pc = "stepping"])

(* A step is over, with its checkpoint.                                     *)
Ended(e, type) == Noted(Noted(written, "CheckpointCreated", e, Step(e)), type, e, Step(e))

(* The next step starts at once, whether the execution is cancelled or not. *)
StepSucceeds(e) ==
    /\ runs[e].pc = "stepping" /\ runs[e].index < Len(StepsOf[e])
    /\ written' = Noted(Ended(e, "StepCompleted"), "StepStarted", e, StepsOf[e][runs[e].index + 1])
    /\ RunBecomes(e, [runs[e] EXCEPT !.index = @ + 1, !.attempts = 0])

(* The loop ends, and a cancelled execution was told to be so before.       *)
Over(e, g, status, type) ==
    /\ written' = IF runs[e].cancelled THEN g ELSE Noted(g, type, e, Step(e))
    /\ RunBecomes(e, [runs[e] EXCEPT !.pc = IF runs[e].cancelled THEN "cancelled" ELSE status])

LastStepSucceeds(e) ==
    /\ runs[e].pc = "stepping" /\ runs[e].index = Len(StepsOf[e])
    /\ Over(e, Ended(e, "StepCompleted"), "completed", "ExecutionCompleted")

(* Its attempts are used up, or its error is none to try again for.         *)
StepFailsForGood(e) ==
    /\ runs[e].pc = "stepping"
    /\ Over(e, Ended(e, "StepFailed"), "failed", "ExecutionFailed")

StepFails(e) ==
    /\ runs[e].pc = "stepping" /\ runs[e].attempts < MaxAttempts
    /\ written' = Noted(Ended(e, "StepFailed"), "RetryStarted", e, Step(e))
    /\ RunBecomes(e, [runs[e] EXCEPT !.pc = "waiting", !.attempts = @ + 1])

Retry(e) ==
    /\ runs[e].pc = "waiting"
    /\ written' = Noted(written, "StepStarted", e, Step(e))
    /\ RunBecomes(e, [runs[e] EXCEPT !.pc = "stepping"])

Cancel(e) ==
    /\ runs[e].pc \in {"stepping", "waiting"} /\ ~runs[e].cancelled
    /\ written' = Noted(written, "ExecutionCancelled", e, Step(e))
    /\ RunBecomes(e, [runs[e] EXCEPT !.cancelled = TRUE])

WriterNext ==
    \E e \in Executions :
        \/ StartExecution(e) \/ StepSucceeds(e) \/ LastStepSucceeds(e)
        \/ StepFails(e) \/ StepFailsForGood(e) \/ Retry(e) \/ Cancel(e)

WriterSpec == WriterInit /\ [][WriterNext]_writerVars

-----------------------------------------------------------------------------

(* An id that stands in two places, of one plan or of two.                  *)
Shared(step) ==
    \E e, d \in Executions : \E i \in 1..Len(StepsOf[e]), j \in 1..Len(StepsOf[d]) :
        StepsOf[e][i] = step /\ StepsOf[d][j] = step /\ (e # d \/ i # j)

(* What the loop made of the execution and of its i-th step, as far as the  *)
(* graph can tell.                                                          *)
ExecutionStatus(run) == IF run.pc \in {"completed", "failed"} THEN run.pc ELSE "running"

StepStatus(run, i) ==
    CASE i < run.index                               -> "completed"
      [] i = run.index /\ run.pc = "stepping"        -> "running"
      [] i = run.index /\ run.pc = "waiting"         -> "retrying"
      [] i = run.index /\ run.pc \in {"completed", "failed"} -> run.pc
      [] OTHER -> "unknown"

(* What mission control shows of an execution is what became of it, as far  *)
(* as it completed or failed (of a cancelled one it goes on showing         *)
(* "running"); every step it began hangs on it, below its plan; and a step  *)
(* with an id of its own has the status the loop gave it, retries included  *)
(* (GraphitiEventWriter.handleEvent()).                                     *)
GraphTellsTheExecutions ==
    \A e \in Executions : runs[e].pc # "idle" =>
        /\ written.nodes[ExecutionNode(e)] = ExecutionStatus(runs[e])
        /\ \A i \in 1..runs[e].index : LET step == StepsOf[e][i] IN
              /\ PathLength(written, ExecutionNode(e), StepNode(step), 10) = 1
              /\ PathLength(written, PlanNode(e), StepNode(step), 10) = 2
              /\ \/ Shared(step) \/ StepStatus(runs[e], i) = "unknown"
                 \/ written.nodes[StepNode(step)] = StepStatus(runs[e], i)
=============================================================================
