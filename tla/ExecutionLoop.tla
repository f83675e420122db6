--------------------------- MODULE ExecutionLoop ---------------------------
(***************************************************************************)
(* The agent's execution loop (packages/hermes/src/execution): one         *)
(* ExecutionContext, the calls of ExecutionLoop.execute() over it, and the *)
(* callers that pause, resume, cancel or abort it meanwhile.  Nothing      *)
(* keeps execute() from being called again on a context that is paused or  *)
(* replanning: each accepted call runs a loop of its own over the same     *)
(* state.                                                                  *)
(*                                                                         *)
(* JavaScript runs to completion, so an action is a stretch of execute()   *)
(* between two points where other code can run: an await, or an event      *)
(* handler (handlers are called synchronously and may call pause(),        *)
(* resume(), cancel(), abort() and execute() themselves).  pc[c] names the *)
(* point call c is at:                                                     *)
(*                                                                         *)
(*   idle      the call has not been made                                  *)
(*   started   the handlers of ExecutionStarted run                        *)
(*   head      top of the while loop                                       *)
(*   wait      awaiting waitForResume()                                    *)
(*   announced the handlers of StepStarted run                             *)
(*   step      awaiting stepExecutor.execute()                             *)
(*   refused   awaiting executeStep(), which threw before it got there     *)
(*   succeeded, failing   the handlers of CheckpointCreated run            *)
(*   progress  the handlers of StepCompleted and ExecutionProgress run     *)
(*   failed    the handlers of StepFailed run                              *)
(*   retry     the handlers of RetryStarted run                            *)
(*   sleep     awaiting the delay before a retry                           *)
(*   replan    awaiting replanCallback()                                   *)
(*   exit      past the loop                                               *)
(*   cancelled, error   in the catch block, with an ExecutionCancelledError *)
(*             or with any other error                                     *)
(*   returned, rejected   the promise of execute() is settled              *)
(*                                                                         *)
(* A call made by a handler runs until its first await before the handler  *)
(* returns, so the calls that are between two awaits form a stack, the     *)
(* latest on top.  At head, exit and in the catch block no other code can  *)
(* run.  The handlers of the closing events run when the status is already *)
(* terminal: no call of theirs can change it, so they are not told apart.  *)
(***************************************************************************)
EXTENDS Naturals, Sequences, FiniteSets, Functions, SequenceFilters

CONSTANTS
    StepIds,            \* ids of plan steps
    InitialPlans,       \* plans (sequences of step ids) execute() may be given
    ReplanPlans,        \* plans replanCallback() may return, which nothing validates
    MaxAttempts,        \* retryPolicy.maxAttempts; 0 also stands for strategy "none"
    EnableCheckpoints,  \* policy.enableCheckpoints
    MaxPauses,          \* bound: how often pause() takes effect
    MaxExecutes         \* bound: how often execute() is called

ASSUME LoopAssumption ==
    /\ InitialPlans \subseteq Seq(StepIds)
    /\ ReplanPlans \subseteq Seq(StepIds)
    /\ MaxAttempts \in Nat
    /\ EnableCheckpoints \in BOOLEAN
    /\ MaxPauses \in Nat
    /\ MaxExecutes \in Nat

VARIABLES
    status,       \* stateMachine.currentStatus
    stepState,    \* stateMachine.stepStates
    plan,         \* context.plan, the ids of its steps in order
    index,        \* context.currentStepIndex, from 1
    results,      \* context.stepResults; which call recorded one is kept for
                  \* the properties, no action reads it
    checkpoints,  \* context.checkpoints
    attempts,     \* retryManager.retryStates[step].attempt
    history,      \* the history entries that are not about one step
    aborted,      \* context.signal.aborted
    pauses,       \* how often pause() took effect
    pc,           \* where each call of execute() is
    step,         \* its local variable of that name
    canReplan     \* whether it was given a replanCallback

context == <<status, stepState, plan, index, results, checkpoints, attempts,
             history, aborted, pauses>>

vars == <<context, pc, step, canReplan>>

(* The calls of execute() that are accepted, in order.                      *)
Calls == 1..MaxExecutes

-----------------------------------------------------------------------------
(* The two state machines.  A transition that is not listed throws.         *)

Statuses == {"pending", "running", "waiting", "retrying", "replanning",
             "completed", "cancelled", "failed", "paused"}

ValidTransitions ==
    [from \in Statuses |->
        CASE from = "pending"    -> {"running", "cancelled"}
          [] from = "running"    -> Statuses \ {"pending", "running"}
          [] from \in {"waiting", "retrying", "replanning"}
                                 -> {"running", "cancelled", "failed"}
          [] from = "paused"     -> {"running", "cancelled"}
          [] OTHER               -> {}]

StepStates == {"pending", "running", "completed", "failed", "skipped",
               "retrying", "waiting"}

(* mutant: setStepState() without its check                                 *)
AnyStepTransition == [from \in StepStates |-> StepStates]

ValidStepTransitions ==
    [from \in StepStates |->
        CASE from = "pending"  -> {"running", "skipped"}
          [] from = "running"  -> {"completed", "failed", "retrying", "waiting", "skipped"}
          [] from = "failed"   -> {"retrying"}
          [] from \in {"retrying", "waiting"} -> {"running", "failed"}
          [] OTHER             -> {}]

Terminal == {"completed", "cancelled", "failed"}

CanTransition(to) == to \in ValidTransitions[status]

CanStep(s, to) == to \in ValidStepTransitions[stepState[s]]

-----------------------------------------------------------------------------
(* What the context derives from its step results.                          *)

(* getStepsCompleted(): the ids of the successful results, in order         *)
Succeeded(rs) ==
    LET ok == KeepIn(rs, [step : StepIds, ok : {TRUE}, by : Calls])
    IN  [i \in 1..Len(ok) |-> ok[i].step]

(* history.getStatistics().stepsCompleted: the history keeps one result per *)
(* step id, the last                                                        *)
StatsCompleted(rs) ==
    Cardinality({s \in StepIds :
        \E i \in 1..Len(rs) :
            /\ rs[i].step = s /\ rs[i].ok
            /\ \A j \in (i + 1)..Len(rs) : rs[j].step # s})

InitialCheckpoint(p) ==
    [kind |-> "initial", current |-> p[1], completed |-> <<>>,
     remaining |-> Tail(p), statsCompleted |-> 0]

(* mutant: the current step stays in the remaining list                     *)
CheckpointKeepingCurrent(s, rs) ==
    [kind |-> "step", current |-> s, completed |-> Succeeded(rs),
     remaining |-> KeepIn(plan, StepIds \ Range(Succeeded(rs))),
     statsCompleted |-> StatsCompleted(rs)]

StepCheckpoint(s, rs) ==
    [kind |-> "step", current |-> s, completed |-> Succeeded(rs),
     remaining |-> KeepIn(plan, StepIds \ (Range(Succeeded(rs)) \cup {s})),
     statsCompleted |-> StatsCompleted(rs)]

(* setPlan() checkpoints every plan that has a step                         *)
WithInitialCheckpoint(cs, p) ==
    IF p = <<>> THEN cs ELSE Append(cs, InitialCheckpoint(p))

Init ==
    /\ plan \in InitialPlans
    /\ status = "pending"
    /\ stepState = [s \in StepIds |-> "pending"]
    /\ index = 1
    /\ results = <<>>
    /\ checkpoints = WithInitialCheckpoint(<<>>, plan)
    /\ attempts = [s \in StepIds |-> 0]
    /\ history = <<>>
    /\ aborted = FALSE
    /\ pauses = 0
    /\ pc = [c \in Calls |-> "idle"]
    /\ step = [c \in Calls |-> "none"]
    /\ canReplan = [c \in Calls |-> FALSE]

-----------------------------------------------------------------------------
(* Which code can run                                                       *)

(* Without checkpoints there is no CheckpointCreated to handle.             *)
HandlerPoints ==
    {"started", "announced", "progress", "failed", "retry"}
        \cup (IF EnableCheckpoints THEN {"succeeded", "failing"} ELSE {})

OnStack ==
    {"started", "announced", "succeeded", "failing", "progress", "failed",
     "retry", "head", "exit", "cancelled", "error"}

(* Nothing but the event handlers and the awaits let other code run.        *)
OthersRun == \A c \in Calls : pc[c] \in OnStack => pc[c] \in HandlerPoints

(* c is at one of these points, and no call its handlers made is in its way *)
Runs(c, points) ==
    /\ pc[c] \in points
    /\ \A d \in Calls : d > c => pc[d] \notin OnStack

(* What c awaits is there, and the stack is empty.                          *)
Continues(c, point) ==
    /\ pc[c] = point
    /\ \A d \in Calls : pc[d] \notin OnStack

Goes(c, point) == pc' = [pc EXCEPT ![c] = point]

(* setStepState(), which throws when the state machine has no such          *)
(* transition                                                               *)
SetStepState(c, to, point) ==
    \/ /\ CanStep(step[c], to)
       /\ stepState' = [stepState EXCEPT ![step[c]] = to]
       /\ Goes(c, point)
    \/ /\ ~CanStep(step[c], to)
       /\ Goes(c, "error")
       /\ UNCHANGED stepState

-----------------------------------------------------------------------------
(* execute()                                                                *)

Executes == Cardinality({i \in 1..Len(history) : history[i] = "started"})

Accepted == {c \in Calls : pc[c] # "idle"}

(* A call is accepted from every status that may become 'running': pending, *)
(* paused, waiting, retrying and replanning.                                *)
Execute(c, withCallback) ==
    /\ OthersRun /\ CanTransition("running") /\ Executes < MaxExecutes
    /\ pc[c] = "idle" /\ \A d \in Calls : d < c => pc[d] # "idle"
    /\ history' = Append(history, "started")
    /\ status' = "running"
    /\ canReplan' = [canReplan EXCEPT ![c] = withCallback]
    /\ Goes(c, "started")
    /\ UNCHANGED <<stepState, plan, index, results, checkpoints, attempts,
                   aborted, pauses, step>>

(* From any other status it restarts the clock and the history of the       *)
(* context, then throws to its caller.                                      *)
ExecuteRejected ==
    /\ OthersRun /\ ~CanTransition("running") /\ Executes < MaxExecutes
    /\ history' = Append(history, "started")
    /\ UNCHANGED <<status, stepState, plan, index, results, checkpoints,
                   attempts, aborted, pauses, pc, step, canReplan>>

(* executeStep() up to emit(StepStarted).  When it throws, its promise is   *)
(* rejected, which execute() learns later.                                  *)
BeginStep(c) ==
    /\ \/ /\ index > Len(plan)
          /\ Goes(c, "exit")
          /\ UNCHANGED <<stepState, step>>
       \/ /\ index <= Len(plan)
          /\ step' = [step EXCEPT ![c] = plan[index]]
          /\ \/ /\ stepState[plan[index]] = "running" \/ CanStep(plan[index], "running")
                /\ stepState' = [stepState EXCEPT ![plan[index]] = "running"]
                /\ Goes(c, "announced")
             \/ /\ stepState[plan[index]] # "running" /\ ~CanStep(plan[index], "running")
                /\ Goes(c, "refused")
                /\ UNCHANGED stepState
    /\ UNCHANGED <<status, plan, index, results, checkpoints, attempts,
                   history, aborted, pauses, canReplan>>

LoopHead(c) ==
    /\ Runs(c, {"started", "head"})
    /\ \/ /\ aborted \/ status = "paused"
          /\ Goes(c, IF aborted THEN "cancelled" ELSE "wait")
          /\ UNCHANGED <<context, step, canReplan>>
       \/ /\ ~aborted /\ status # "paused"
          /\ BeginStep(c)

(* mutant: the poll ends only when the execution runs again                 *)
WaitForRunning(c) ==
    /\ Continues(c, "wait") /\ status = "running"
    /\ BeginStep(c)

(* waitForResume() polls the status; the abort signal is not read again.    *)
WaitOver(c) ==
    /\ Continues(c, "wait") /\ status # "paused"
    /\ BeginStep(c)

(* The handlers of StepStarted have run: the step goes to the executor,     *)
(* whatever they did.                                                       *)
HandOver(c) ==
    /\ Runs(c, {"announced"})
    /\ Goes(c, "step")
    /\ UNCHANGED <<context, step, canReplan>>

RefusalArrives(c) ==
    /\ Continues(c, "refused")
    /\ Goes(c, "error")
    /\ UNCHANGED <<context, step, canReplan>>

(* The executor settles: with success, or with a result or an exception     *)
(* that makes the step a failure.  The result and its checkpoint are kept   *)
(* before the step is marked.                                               *)
StepSettles(c, ok) ==
    /\ Continues(c, "step")
    /\ LET rs == Append(results, [step |-> step[c], ok |-> ok, by |-> c]) IN
          /\ results' = rs
          /\ checkpoints' = IF EnableCheckpoints
                            THEN Append(checkpoints, StepCheckpoint(step[c], rs))
                            ELSE checkpoints
    /\ Goes(c, IF ok THEN "succeeded" ELSE "failing")
    /\ UNCHANGED <<status, stepState, plan, index, attempts, history, aborted,
                   pauses, step, canReplan>>

MarkCompleted(c) ==
    /\ Runs(c, {"succeeded"})
    /\ SetStepState(c, "completed", "progress")
    /\ UNCHANGED <<status, plan, index, results, checkpoints, attempts,
                   history, aborted, pauses, step, canReplan>>

(* mutant: the index restarts after the last step                           *)
MoveOnCyclically(c) ==
    /\ Runs(c, {"progress"})
    /\ index' = (index + 1) % (Len(plan) + 1)
    /\ Goes(c, IF index + 1 <= Len(plan) THEN "head" ELSE "exit")
    /\ UNCHANGED <<status, stepState, plan, results, checkpoints, attempts,
                   history, aborted, pauses, step, canReplan>>

MoveOn(c) ==
    /\ Runs(c, {"progress"})
    /\ index' = index + 1
    /\ Goes(c, IF index + 1 <= Len(plan) THEN "head" ELSE "exit")
    /\ UNCHANGED <<status, stepState, plan, results, checkpoints, attempts,
                   history, aborted, pauses, step, canReplan>>

MarkFailed(c) ==
    /\ Runs(c, {"failing"})
    /\ SetStepState(c, "failed", "failed")
    /\ UNCHANGED <<status, plan, index, results, checkpoints, attempts,
                   history, aborted, pauses, step, canReplan>>

(* retryManager.shouldRetry(): retryable says whether retryOn lists the     *)
(* result's error code                                                      *)
ShouldRetry(s, retryable) == retryable /\ attempts[s] + 1 <= MaxAttempts

(* mutant: an off-by-one that grants one retry more                         *)
ExhaustedTooLate(s) == attempts[s] + 1 > MaxAttempts

(* recordAttempt(): the attempt being recorded uses up the budget           *)
Exhausted(s) == attempts[s] + 1 >= MaxAttempts

(* An exhausted budget is a RetryExhaustedError.                            *)
Retry(c) ==
    /\ attempts' = [attempts EXCEPT ![step[c]] = @ + 1]
    /\ Goes(c, IF Exhausted(step[c]) THEN "error" ELSE "retry")
    /\ UNCHANGED <<status, history>>

(* transition('replanning') throws when the execution was paused or         *)
(* cancelled during the step.                                               *)
Replan(c) ==
    /\ canReplan[c]
    /\ history' = Append(history, "replan")
    /\ \/ /\ CanTransition("replanning")
          /\ status' = "replanning"
          /\ Goes(c, "replan")
       \/ /\ ~CanTransition("replanning")
          /\ Goes(c, "error")
          /\ UNCHANGED status
    /\ UNCHANGED attempts

(* mutant: a failed step is passed over                                     *)
PassOver(c) ==
    /\ ~canReplan[c]
    /\ Goes(c, "progress")
    /\ UNCHANGED <<status, history, attempts>>

GiveUp(c) ==
    /\ ~canReplan[c]
    /\ Goes(c, "error")
    /\ UNCHANGED <<status, history, attempts>>

AfterFailure(c, retryable) ==
    /\ Runs(c, {"failed"})
    /\ \/ ShouldRetry(step[c], retryable) /\ Retry(c)
       \/ ~ShouldRetry(step[c], retryable) /\ (Replan(c) \/ GiveUp(c))
    /\ UNCHANGED <<stepState, plan, index, results, checkpoints, aborted,
                   pauses, step, canReplan>>

BackOff(c) ==
    /\ Runs(c, {"retry"})
    /\ SetStepState(c, "retrying", "sleep")
    /\ UNCHANGED <<status, plan, index, results, checkpoints, attempts,
                   history, aborted, pauses, step, canReplan>>

(* mutant: the retry is made at once, not through the head of the loop      *)
SleepThenStep(c) ==
    /\ Continues(c, "sleep")
    /\ SetStepState(c, "running", "announced")
    /\ UNCHANGED <<status, plan, index, results, checkpoints, attempts,
                   history, aborted, pauses, step, canReplan>>

(* The timer fires, or the abort signal cuts the delay short.               *)
SleepOver(c) ==
    /\ Continues(c, "sleep")
    /\ SetStepState(c, "running", "head")
    /\ UNCHANGED <<status, plan, index, results, checkpoints, attempts,
                   history, aborted, pauses, step, canReplan>>

(* The new plan replaces the old one; the step index is kept.               *)
ReplanReturns(c, p) ==
    /\ Continues(c, "replan")
    /\ plan' = p
    /\ checkpoints' = WithInitialCheckpoint(checkpoints, p)
    /\ \/ /\ CanTransition("running")
          /\ status' = "running"
          /\ Goes(c, "head")
       \/ /\ ~CanTransition("running")
          /\ Goes(c, "error")
          /\ UNCHANGED status
    /\ UNCHANGED <<stepState, index, results, attempts, history, aborted,
                   pauses, step, canReplan>>

ReplanFails(c) ==
    /\ Continues(c, "replan")
    /\ Goes(c, "error")
    /\ UNCHANGED <<context, step, canReplan>>

Exit(c) ==
    /\ Runs(c, {"exit"})
    /\ \/ /\ CanTransition("completed")
          /\ status' = "completed"
          /\ history' = Append(history, "completed")
          /\ Goes(c, "returned")
       \/ /\ ~CanTransition("completed")
          /\ Goes(c, IF status = "cancelled" THEN "returned" ELSE "error")
          /\ UNCHANGED <<status, history>>
    /\ UNCHANGED <<stepState, plan, index, results, checkpoints, attempts,
                   aborted, pauses, step, canReplan>>

(* How the catch block closes the execution: as cancelled after an          *)
(* ExecutionCancelledError or a cancel(), else as failed.                   *)
ClosedAs(c) == IF pc[c] = "cancelled" \/ status = "cancelled" THEN "cancelled" ELSE "failed"

(* The catch block.  A status from which that is not a transition makes the *)
(* block itself throw.                                                      *)
Catch(c) ==
    /\ Runs(c, {"cancelled", "error"})
    /\ \/ /\ status = ClosedAs(c) \/ CanTransition(ClosedAs(c))
          /\ status' = ClosedAs(c)
          /\ history' = Append(history, ClosedAs(c))
          /\ Goes(c, "returned")
       \/ /\ status # ClosedAs(c) /\ ~CanTransition(ClosedAs(c))
          /\ Goes(c, "rejected")
          /\ UNCHANGED <<status, history>>
    /\ UNCHANGED <<stepState, plan, index, results, checkpoints, attempts,
                   aborted, pauses, step, canReplan>>

-----------------------------------------------------------------------------
(* pause(), resume() and cancel() do nothing from any other status.         *)

Pause ==
    /\ OthersRun /\ status = "running" /\ pauses < MaxPauses
    /\ status' = "paused"
    /\ pauses' = pauses + 1
    /\ UNCHANGED <<stepState, plan, index, results, checkpoints, attempts,
                   history, aborted, pc, step, canReplan>>

Resume ==
    /\ OthersRun /\ status = "paused"
    /\ status' = "running"
    /\ UNCHANGED <<stepState, plan, index, results, checkpoints, attempts,
                   history, aborted, pauses, pc, step, canReplan>>

(* mutant: only a second cancel() is refused                                *)
CanCancelUnlessCancelled == status # "cancelled"

CanCancel == status \notin Terminal

Cancel ==
    /\ OthersRun /\ CanCancel
    /\ status' = "cancelled"
    /\ history' = Append(history, "cancelled")
    /\ UNCHANGED <<stepState, plan, index, results, checkpoints, attempts,
                   aborted, pauses, pc, step, canReplan>>

(* the caller's AbortController                                             *)
Abort ==
    /\ OthersRun /\ ~aborted
    /\ aborted' = TRUE
    /\ UNCHANGED <<status, stepState, plan, index, results, checkpoints,
                   attempts, history, pauses, pc, step, canReplan>>

-----------------------------------------------------------------------------
(* What a call of execute() does by itself, what it awaits, and what        *)
(* callers do.                                                              *)

Run(c) ==
    \/ LoopHead(c) \/ WaitOver(c) \/ HandOver(c) \/ RefusalArrives(c)
    \/ MarkCompleted(c) \/ MoveOn(c)
    \/ MarkFailed(c) \/ (\E retryable \in BOOLEAN : AfterFailure(c, retryable))
    \/ BackOff(c) \/ SleepOver(c) \/ Exit(c) \/ Catch(c)

ExecutorSettles(c) == \E ok \in BOOLEAN : StepSettles(c, ok)

ReplanSettles(c) == ReplanFails(c) \/ \E p \in ReplanPlans : ReplanReturns(c, p)

Callers ==
    \/ \E c \in Calls, withCallback \in BOOLEAN : Execute(c, withCallback)
    \/ ExecuteRejected \/ Pause \/ Resume \/ Cancel \/ Abort

Next ==
    \/ \E c \in Calls : Run(c) \/ ExecutorSettles(c) \/ ReplanSettles(c)
    \/ Callers

Spec == Init /\ [][Next]_vars

(* The event loop runs what is runnable, and timers fire.  That executors   *)
(* and planners settle is an assumption about them: execute() sets them no  *)
(* deadline.  Callers owe nothing.                                          *)
FairSpec ==
    /\ Spec
    /\ \A c \in Calls :
          WF_vars(Run(c)) /\ WF_vars(ExecutorSettles(c)) /\ WF_vars(ReplanSettles(c))

-----------------------------------------------------------------------------
(* The properties.                                                          *)

(* where a call is at a step of its own                                     *)
AtStep == {"announced", "step", "succeeded", "failing", "progress", "failed", "retry", "sleep"}

Ended == {"returned", "rejected"}

PcValues == OnStack \cup Ended \cup {"idle", "wait", "step", "refused", "sleep", "replan"}

HistoryEntries == Terminal \cup {"started", "replan"}

(* The type of the loop's state.                                            *)
TypeOK ==
    /\ status \in Statuses
    /\ stepState \in [StepIds -> StepStates]
    /\ plan \in Seq(StepIds)
    /\ index \in Nat \ {0}
    /\ results \in Seq([step : StepIds, ok : BOOLEAN, by : Calls])
    /\ attempts \in [StepIds -> Nat]
    /\ history \in Seq(HistoryEntries)
    /\ aborted \in BOOLEAN
    /\ pauses \in Nat
    /\ pc \in [Calls -> PcValues]
    /\ step \in [Calls -> StepIds \cup {"none"}]
    /\ \A c \in Calls : pc[c] \in AtStep => step[c] \in StepIds
    /\ canReplan \in [Calls -> BOOLEAN]

Done == {results[i].step : i \in {j \in 1..Len(results) : results[j].ok}}

Tries(s) == Cardinality({i \in 1..Len(results) : results[i].step = s})

Budget == IF MaxAttempts = 0 THEN 1 ELSE MaxAttempts

(* execute() was called on this context once at most, as the engine does    *)
CalledOnce == \A c, d \in Accepted : c = d

-----------------------------------------------------------------------------
(* Safety                                                                   *)

Marked == {s \in StepIds : stepState[s] = "completed"}

IndexCountsCompletions ==
    Cardinality(Marked) = index - 1 + Cardinality({c \in Calls : pc[c] = "progress"})

PlanDoneUnlessReplanned ==
    (status = "completed" /\ "replan" \notin Range(history)) => Range(plan) \subseteq Done

(* Every step that is marked completed moves the index by one and nothing   *)
(* else does, whatever was retried, paused, resumed or replanned and        *)
(* however many calls of execute() work on the context; and without a       *)
(* replan the status is 'completed' only when every step of the plan has    *)
(* succeeded (ExecutionLoop.ts:148, 159, 221).                              *)
CompletedMeansEveryStepSucceeded == IndexCountsCompletions /\ PlanDoneUnlessReplanned

(* A call of execute() never runs a step again that it saw succeed, neither *)
(* by a retry nor after a replan that repeats its id: setStepState refuses  *)
(* it (ExecutionState.ts:38).  Another call may: see StepsRunOneAtATime.    *)
NoStepSucceedsTwice ==
    \A i, j \in 1..Len(results) :
        (/\ results[i].ok
         /\ results[i].step = results[j].step
         /\ results[i].by = results[j].by) => j <= i

(* The executor is called for one step at most maxAttempts times, and once  *)
(* when retries are off, over the whole execution: attempts survive pauses  *)
(* and replans (ExecutionRetry.ts:51, 65).  Every further call of execute() *)
(* that is accepted adds at most one try of a step to that: the budget of   *)
(* retries is the context's, not the call's.                                *)
RetryBudget ==
    \A s \in StepIds :
        /\ attempts[s] <= MaxAttempts
        /\ Tries(s) <= Budget + (IF Accepted = {} THEN 0 ELSE Cardinality(Accepted) - 1)

(* The history, which is read as the record of the run, is closed with the  *)
(* final status and with no other; it is closed twice only when the run was *)
(* cancelled, or failed under more than one call of execute(); a call that  *)
(* returned leaves it closed (ExecutionLoop.ts:219, 233, 255, 290).         *)
HistoryAgreesWithStatus ==
    /\ \A i \in 1..Len(history) : history[i] \in Terminal => history[i] = status
    /\ \A i, j \in 1..Len(history) :
          (history[i] \in Terminal /\ history[j] \in Terminal /\ i # j)
              => status = "cancelled" \/ (status = "failed" /\ ~CalledOnce)
    /\ \A c \in Calls : pc[c] = "returned" =>
          \E i \in 1..Len(history) : history[i] \in Terminal

(* A checkpoint taken after a step tells how far the execution was          *)
(* (ExecutionLoop.ts:329): its completed steps are those that had succeeded *)
(* by then, none of which is still to do; as long as nothing was replanned, *)
(* completed, current and remaining steps are the whole plan; and, as long  *)
(* as execute() was called once, its statistics agree with its list, so     *)
(* that validateCheckpoint() can refuse it for one reason only, that its    *)
(* current step is a completed one (which it does after every success:      *)
(* ExecutionCheckpoint.ts:78).                                              *)
CheckpointsTellTheRun ==
    \A i \in 1..Len(checkpoints) :
        LET k == checkpoints[i] IN k.kind = "step" =>
            /\ k.completed = SubSeq(Succeeded(results), 1, Len(k.completed))
            /\ Range(k.completed) \cap Range(k.remaining) = {}
            /\ k.current \notin Range(k.remaining)
            /\ "replan" \notin Range(history) =>
                  Range(k.completed) \cup Range(k.remaining) \cup {k.current} = Range(plan)
            /\ CalledOnce => k.statsCompleted = Len(k.completed)

-----------------------------------------------------------------------------
(* Action properties                                                        *)

Announces(c) == pc[c] # "announced" /\ pc'[c] = "announced"

(* No step is started (StepStarted is emitted) while the execution is       *)
(* paused: the polling loop and the check at the head of the loop leave no  *)
(* gap.  After abort() a step starts only on the way out of a pause, whose  *)
(* poll does not look at the signal; anywhere else the abort is seen first. *)
(* So a step that reaches the executor while the execution is halted was    *)
(* halted by the handlers of its own StepStarted (ExecutionLoop.ts:310).    *)
NoStepStartsWhenHalted ==
    [][\A c \in Calls : Announces(c) =>
           status # "paused" /\ (aborted => pc[c] = "wait")]_vars

-----------------------------------------------------------------------------
(* The contract                                                             *)

Contract == INSTANCE ExecutionContract WITH
    Steps   <- StepIds,
    Budget  <- Budget,
    calls   <- Cardinality(Accepted),
    outcome <- IF status \in Terminal THEN status ELSE "open",
    done    <- Done,
    tries   <- [s \in StepIds |-> Tries(s)]

(* The loop implements the contract.                                        *)
ImplementsContract == Contract!Spec

-----------------------------------------------------------------------------
(* Liveness                                                                 *)

(* If executors and planners settle, every call of execute() that is        *)
(* accepted is settled in the end, unless it is left paused for ever:       *)
(* retries and replans cannot go on without end.                            *)
SettlesUnlessLeftPaused ==
    \A c \in Calls :
        pc[c] = "started" ~> (pc[c] \in Ended \/ [](pc[c] = "wait" /\ status = "paused"))

-----------------------------------------------------------------------------
(* What the documentation says and the loop does not do.                    *)

(* docs/architecture/execution-loop.md:91 and :101: the execution completes *)
(* when all steps are done, after a replan as well.                         *)
CompletedMeansPlanDone ==
    status = "completed" => Range(plan) \subseteq Done

(* docs/architecture/execution-loop.md:91: all steps done, the execution    *)
(* transitions to completed (unless it was cancelled or aborted).           *)
AllStepsDoneCompletes ==
    ((\A c \in Accepted : pc[c] \in Ended) /\ Accepted # {}
        /\ Range(plan) \subseteq Done /\ ~aborted /\ status # "cancelled")
        => status = "completed"

(* ExecutionLoop.ts:6: the loop executes one step at a time.                *)
StepsRunOneAtATime ==
    \A c, d \in Calls : (pc[c] = "step" /\ pc[d] = "step") => c = d
=============================================================================
