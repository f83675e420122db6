------------------------ MODULE ExecutionLoopProofs ------------------------
(***************************************************************************)
(* Proofs about the execution loop, for every set of step ids, every plan  *)
(* and replan, every retry budget, every number of calls of execute() on   *)
(* one context and every bound.                                            *)
(***************************************************************************)
EXTENDS ExecutionLoop, FiniteSetTheorems, SequenceTheorems, TLAPS

-----------------------------------------------------------------------------
(* What a step of the specification does to the steps of the plan: one      *)
(* action for each way in which pc, step, stepState, index, plan, attempts  *)
(* and results change together.  The invariants about steps are proved over *)
(* these.                                                                   *)

Results == [step : StepIds, ok : BOOLEAN, by : Calls]

stepVars == <<stepState, index, plan, attempts, results, step>>

Enter(c) ==
    /\ CanTransition("running") /\ status' = "running"
    /\ pc[c] = "idle"
    /\ Goes(c, "started")
    /\ UNCHANGED stepVars

Announce(c) ==
    /\ pc[c] \in {"started", "head", "wait"}
    /\ step' = [step EXCEPT ![c] = plan[index]]
    /\ plan[index] \in StepIds /\ plan[index] \in Range(plan)
    /\ stepState[plan[index]] = "running" \/ CanStep(plan[index], "running")
    /\ stepState' = [stepState EXCEPT ![plan[index]] = "running"]
    /\ Goes(c, "announced")
    /\ UNCHANGED <<index, plan, attempts, results>>

Refuse(c) ==
    /\ pc[c] \in {"started", "head", "wait"}
    /\ step' = [step EXCEPT ![c] = plan[index]]
    /\ plan[index] \in StepIds
    /\ Goes(c, "refused")
    /\ UNCHANGED <<stepState, index, plan, attempts, results>>

Settle(c, ok) ==
    /\ pc[c] = "step"
    /\ results' = Append(results, [step |-> step[c], ok |-> ok, by |-> c])
    /\ Goes(c, IF ok THEN "succeeded" ELSE "failing")
    /\ UNCHANGED <<status, stepState, index, plan, attempts, step>>

(* from where to where a call marks its step, and how                       *)
Marks == {<<"succeeded", "completed", "progress">>, <<"failing", "failed", "failed">>,
          <<"retry", "retrying", "sleep">>, <<"sleep", "running", "head">>}

Mark(c, m) ==
    /\ pc[c] = m[1]
    /\ CanStep(step[c], m[2])
    /\ stepState' = [stepState EXCEPT ![step[c]] = m[2]]
    /\ Goes(c, m[3])
    /\ UNCHANGED <<index, plan, attempts, results, step>>

Pay(c) ==
    /\ pc[c] = "failed"
    /\ attempts' = [attempts EXCEPT ![step[c]] = @ + 1]
    /\ \/ attempts[step[c]] + 1 < MaxAttempts /\ Goes(c, "retry")
       \/ attempts[step[c]] + 1 = MaxAttempts /\ Goes(c, "error")
    /\ UNCHANGED <<stepState, index, plan, results, step>>

Advance(c) ==
    /\ pc[c] = "progress"
    /\ index' = index + 1
    /\ \E q \in {"head", "exit"} : Goes(c, q)
    /\ pc'[c] = "exit" => index + 1 > Len(plan)
    /\ UNCHANGED <<stepState, plan, attempts, results, step>>

Adopt(c) ==
    /\ pc[c] = "replan"
    /\ plan' \in Seq(StepIds)
    /\ \E q \in {"head", "error"} : Goes(c, q)
    /\ UNCHANGED <<stepState, index, attempts, results, step>>

(* where a call goes without touching a step                                *)
Hops(p) ==
    CASE p \in {"started", "head"}      -> {"cancelled", "wait", "exit"}
      [] p = "wait"                     -> {"exit"}
      [] p = "announced"                -> {"step"}
      [] p = "failed"                   -> {"replan", "error"}
      [] p \in {"refused", "succeeded", "failing", "retry", "sleep", "replan"}
                                        -> {"error"}
      [] p = "exit"                     -> {"returned", "error"}
      [] p \in {"cancelled", "error"}   -> {"returned", "rejected"}
      [] OTHER                          -> {}

Hop(c) ==
    /\ \E q \in Hops(pc[c]) : Goes(c, q)
    /\ pc'[c] = "exit" => index > Len(plan)
    /\ pc'[c] = "replan" => history' = Append(history, "replan")
    /\ UNCHANGED stepVars

Aside == UNCHANGED <<stepVars, pc>>

Effect(c) ==
    \/ Enter(c) \/ Announce(c) \/ Refuse(c)
    \/ \E ok \in BOOLEAN : Settle(c, ok)
    \/ \E m \in Marks : Mark(c, m)
    \/ Pay(c) \/ Advance(c) \/ Adopt(c) \/ Hop(c)

-----------------------------------------------------------------------------
(* Type correctness: the loop never leaves the statuses and step states its *)
(* state machines name, its index stays positive, and every result is one   *)
(* of a step of the plan.                                                   *)

LEMMA StepIsTyped ==
    ASSUME TypeOK, NEW c \in Calls, pc[c] \in AtStep
    PROVE  step[c] \in StepIds
BY DEF TypeOK

LEMMA PlanIsTyped ==
    ASSUME TypeOK, index <= Len(plan)
    PROVE  plan[index] \in StepIds /\ plan[index] \in Range(plan)
BY DEF TypeOK, Range

(* One action for every line of Next, with its call named.                  *)
LEMMA NextIs ==
    ASSUME Next
    PROVE  \/ \E c \in Calls : LoopHead(c) \/ WaitOver(c)
           \/ \E c \in Calls : HandOver(c) \/ RefusalArrives(c) \/ ReplanFails(c)
           \/ \E c \in Calls : MarkCompleted(c) \/ MarkFailed(c) \/ BackOff(c) \/ SleepOver(c)
           \/ \E c \in Calls : MoveOn(c)
           \/ \E c \in Calls, retryable \in BOOLEAN : AfterFailure(c, retryable)
           \/ \E c \in Calls : Exit(c)
           \/ \E c \in Calls : Catch(c)
           \/ \E c \in Calls, ok \in BOOLEAN : StepSettles(c, ok)
           \/ \E c \in Calls, p \in ReplanPlans : ReplanReturns(c, p)
           \/ \E c \in Calls, withCallback \in BOOLEAN : Execute(c, withCallback)
           \/ ExecuteRejected \/ Pause \/ Resume \/ Cancel \/ Abort
BY DEF Next, Run, ExecutorSettles, ReplanSettles, Callers

(* The marking of a step, or the error when its state machine refuses.      *)
LEMMA SetStepStateIs ==
    ASSUME TypeOK, NEW c \in Calls, NEW m \in Marks, pc[c] = m[1],
           SetStepState(c, m[2], m[3]),
           UNCHANGED <<index, plan, attempts, results, step>>
    PROVE  Mark(c, m) \/ Hop(c)
<1>1. CASE CanStep(step[c], m[2]) /\ stepState' = [stepState EXCEPT ![step[c]] = m[2]] /\ Goes(c, m[3])
  BY <1>1 DEF Mark
<1>2. CASE Goes(c, "error") /\ UNCHANGED stepState
  <2>1. "error" \in Hops(pc[c])
    BY DEF Marks, Hops
  <2>2. pc'[c] = "error"
    BY <1>2 DEF Goes, TypeOK
  <2> QED BY <1>2, <2>1, <2>2 DEF Hop, stepVars
<1> QED BY <1>1, <1>2 DEF SetStepState

LEMMA BeginStepIs ==
    ASSUME TypeOK, NEW c \in Calls, pc[c] \in {"started", "head", "wait"}, BeginStep(c)
    PROVE  Announce(c) \/ Refuse(c) \/ Hop(c)
<1>1. CASE index > Len(plan)
  <2>1. Goes(c, "exit") /\ UNCHANGED stepVars
    BY <1>1 DEF BeginStep, TypeOK, stepVars
  <2>2. "exit" \in Hops(pc[c]) /\ pc'[c] = "exit"
    BY <2>1 DEF Hops, Goes, TypeOK
  <2> QED BY <1>1, <2>1, <2>2 DEF Hop
<1>2. CASE ~(index > Len(plan))
  <2>1. plan[index] \in StepIds /\ plan[index] \in Range(plan)
    BY <1>2, PlanIsTyped DEF TypeOK
  <2> QED BY <1>2, <2>1 DEF BeginStep, Announce, Refuse
<1> QED BY <1>1, <1>2

LEMMA FailureIs ==
    ASSUME TypeOK, NEW c \in Calls, NEW retryable \in BOOLEAN, AfterFailure(c, retryable)
    PROVE  Pay(c) \/ Hop(c)
<1>1. pc[c] = "failed" /\ UNCHANGED <<stepState, index, plan, results, step>>
  BY DEF AfterFailure, Runs
<1>2. step[c] \in StepIds /\ attempts[step[c]] \in Nat /\ MaxAttempts \in Nat
  BY <1>1, StepIsTyped, LoopAssumption DEF AtStep, TypeOK, LoopAssumption
<1>3. CASE ShouldRetry(step[c], retryable) /\ Retry(c)
  BY <1>1, <1>2, <1>3 DEF ShouldRetry, Retry, Exhausted, Pay
<1>4. CASE Replan(c) \/ GiveUp(c)
  <2>1. /\ UNCHANGED attempts
        /\ (Goes(c, "replan") /\ history' = Append(history, "replan")) \/ Goes(c, "error")
    BY <1>4 DEF Replan, GiveUp
  <2>2. {"replan", "error"} \subseteq Hops(pc[c])
    BY <1>1 DEF Hops
  <2>3. pc'[c] # "exit" /\ (pc'[c] = "replan" => history' = Append(history, "replan"))
    BY <2>1 DEF Goes, TypeOK
  <2> QED BY <1>1, <2>1, <2>2, <2>3 DEF Hop, stepVars
<1> QED BY <1>3, <1>4 DEF AfterFailure

LEMMA StepEffects ==
    ASSUME TypeOK, [Next]_vars
    PROVE  Aside \/ \E c \in Calls : Effect(c)
<1>1. ASSUME NEW c \in Calls, LoopHead(c) \/ WaitOver(c) PROVE Effect(c)
  <2>0. pc[c] \in {"started", "head", "wait"}
    BY <1>1 DEF LoopHead, WaitOver, Runs, Continues
  <2>1. CASE BeginStep(c)
    BY <2>0, <2>1, BeginStepIs DEF Effect
  <2>2. CASE pc[c] \in {"started", "head"} /\ UNCHANGED <<context, step, canReplan>>
             /\ (Goes(c, "cancelled") \/ Goes(c, "wait"))
    <3>1. {"cancelled", "wait"} \subseteq Hops(pc[c]) /\ pc'[c] \notin {"exit", "replan"}
      BY <2>2 DEF Hops, Goes, TypeOK
    <3> QED BY <2>2, <3>1 DEF Effect, Hop, stepVars, context
  <2> QED BY <1>1, <2>1, <2>2 DEF LoopHead, WaitOver, Runs
<1>2. ASSUME NEW c \in Calls, HandOver(c) \/ RefusalArrives(c) \/ ReplanFails(c) PROVE Effect(c)
  <2>1. (pc[c] = "announced" /\ Goes(c, "step")) \/ (pc[c] \in {"refused", "replan"} /\ Goes(c, "error"))
    BY <1>2 DEF HandOver, RefusalArrives, ReplanFails, Runs, Continues
  <2>2. UNCHANGED stepVars
    BY <1>2 DEF HandOver, RefusalArrives, ReplanFails, context, stepVars
  <2>3. (\E q \in Hops(pc[c]) : Goes(c, q)) /\ pc'[c] \notin {"exit", "replan"}
    BY <2>1 DEF Hops, Goes, TypeOK
  <2> QED BY <2>2, <2>3 DEF Effect, Hop
<1>3. ASSUME NEW c \in Calls, MarkCompleted(c) \/ MarkFailed(c) \/ BackOff(c) \/ SleepOver(c)
      PROVE  Effect(c)
  <2>1. \E m \in Marks : pc[c] = m[1] /\ SetStepState(c, m[2], m[3])
    BY <1>3 DEF MarkCompleted, MarkFailed, BackOff, SleepOver, Runs, Continues, Marks
  <2>2. UNCHANGED <<index, plan, attempts, results, step>>
    BY <1>3 DEF MarkCompleted, MarkFailed, BackOff, SleepOver
  <2> QED BY <2>1, <2>2, SetStepStateIs DEF Effect
<1>4. ASSUME NEW c \in Calls, MoveOn(c) PROVE Effect(c)
  <2>1. /\ pc[c] = "progress" /\ index' = index + 1
        /\ Goes(c, IF index + 1 <= Len(plan) THEN "head" ELSE "exit")
        /\ UNCHANGED <<stepState, plan, attempts, results, step>>
    BY <1>4 DEF MoveOn, Runs
  <2>2. pc'[c] = IF index + 1 <= Len(plan) THEN "head" ELSE "exit"
    BY <2>1 DEF Goes, TypeOK
  <2>3. index + 1 \in Nat /\ Len(plan) \in Nat
    BY DEF TypeOK
  <2>4. pc'[c] = "exit" => index + 1 > Len(plan)
    BY <2>2, <2>3
  <2>5. \E q \in {"head", "exit"} : Goes(c, q)
    BY <2>1
  <2>6. Advance(c)
    BY <2>1, <2>4, <2>5 DEF Advance
  <2> QED BY <2>6 DEF Effect
<1>5. ASSUME NEW c \in Calls, NEW retryable \in BOOLEAN, AfterFailure(c, retryable) PROVE Effect(c)
  BY <1>5, FailureIs DEF Effect
<1>6. ASSUME NEW c \in Calls, Exit(c) \/ Catch(c) PROVE Effect(c)
  <2>1. UNCHANGED stepVars
    BY <1>6 DEF Exit, Catch, stepVars
  <2>2. \/ pc[c] = "exit" /\ (Goes(c, "returned") \/ Goes(c, "error"))
        \/ pc[c] \in {"cancelled", "error"} /\ (Goes(c, "returned") \/ Goes(c, "rejected"))
    BY <1>6 DEF Exit, Catch, Runs
  <2>3. (\E q \in Hops(pc[c]) : Goes(c, q)) /\ pc'[c] \notin {"exit", "replan"}
    BY <2>2 DEF Hops, Goes, TypeOK
  <2> QED BY <2>1, <2>3 DEF Effect, Hop
<1>7. ASSUME NEW c \in Calls, NEW ok \in BOOLEAN, StepSettles(c, ok) PROVE Effect(c)
  <2>1. Settle(c, ok)
    BY <1>7 DEF StepSettles, Continues, Settle
  <2> QED BY <2>1 DEF Effect
<1>8. ASSUME NEW c \in Calls, NEW p \in ReplanPlans, ReplanReturns(c, p) PROVE Effect(c)
  <2>1. Adopt(c)
    BY <1>8, LoopAssumption DEF LoopAssumption, ReplanReturns, Continues, Adopt
  <2> QED BY <2>1 DEF Effect
<1>9. ASSUME NEW c \in Calls, NEW withCallback \in BOOLEAN, Execute(c, withCallback) PROVE Effect(c)
  <2>1. Enter(c)
    BY <1>9 DEF Execute, Enter, stepVars
  <2> QED BY <2>1 DEF Effect
<1>10. CASE ExecuteRejected \/ Pause \/ Resume \/ Cancel \/ Abort \/ UNCHANGED vars
  BY <1>10 DEF ExecuteRejected, Pause, Resume, Cancel, Abort, vars, context, Aside, stepVars
<1> QED
  BY <1>1, <1>2, <1>3, <1>4, <1>5, <1>6, <1>7, <1>8, <1>9, <1>10, NextIs

(* What every action leaves of the state's type, its steps apart.           *)
LEMMA EffectIsTyped ==
    ASSUME TypeOK, NEW c \in Calls, Effect(c)
    PROVE  /\ stepState' \in [StepIds -> StepStates]
           /\ plan' \in Seq(StepIds)
           /\ index' \in Nat \ {0}
           /\ results' \in Seq(Results)
           /\ attempts' \in [StepIds -> Nat]
           /\ pc' \in [Calls -> PcValues]
           /\ step' \in [Calls -> StepIds \cup {"none"}]
           /\ \A d \in Calls : pc'[d] \in AtStep => step'[d] \in StepIds
<1>t. /\ pc \in [Calls -> PcValues] /\ step \in [Calls -> StepIds \cup {"none"}]
      /\ results \in Seq(Results) /\ stepState \in [StepIds -> StepStates]
      /\ plan \in Seq(StepIds) /\ index \in Nat \ {0} /\ attempts \in [StepIds -> Nat]
      /\ \A d \in Calls : pc[d] \in AtStep => step[d] \in StepIds
  BY DEF TypeOK, Results
<1>g. ASSUME NEW q \in PcValues, Goes(c, q), q \in AtStep => step'[c] \in StepIds,
             \A d \in Calls : d # c => step'[d] = step[d]
      PROVE  /\ pc' \in [Calls -> PcValues]
             /\ \A d \in Calls : pc'[d] \in AtStep => step'[d] \in StepIds
  BY <1>g, <1>t DEF Goes
<1>1. CASE Enter(c)
  <2>1. "started" \in PcValues /\ "started" \notin AtStep
    BY DEF PcValues, OnStack, AtStep
  <2> QED BY <1>1, <1>t, <1>g, <2>1 DEF Enter, stepVars
<1>2. CASE Announce(c)
  <2>1. "announced" \in PcValues /\ "running" \in StepStates
    BY DEF PcValues, OnStack, StepStates
  <2>2. step'[c] \in StepIds /\ step' \in [Calls -> StepIds \cup {"none"}]
        /\ \A d \in Calls : d # c => step'[d] = step[d]
    BY <1>2, <1>t DEF Announce
  <2> QED BY <1>2, <1>t, <1>g, <2>1, <2>2 DEF Announce
<1>3. CASE Refuse(c)
  <2>1. "refused" \in PcValues
    BY DEF PcValues, OnStack
  <2>2. step'[c] \in StepIds /\ step' \in [Calls -> StepIds \cup {"none"}]
        /\ \A d \in Calls : d # c => step'[d] = step[d]
    BY <1>3, <1>t DEF Refuse
  <2> QED BY <1>3, <1>t, <1>g, <2>1, <2>2 DEF Refuse
<1>4. ASSUME NEW ok \in BOOLEAN, Settle(c, ok)
      PROVE  /\ results' \in Seq(Results) /\ pc' \in [Calls -> PcValues]
             /\ \A d \in Calls : pc'[d] \in AtStep => step'[d] \in StepIds
  <2>1. {"succeeded", "failing"} \subseteq PcValues
    BY DEF PcValues, OnStack
  <2>2. step[c] \in StepIds /\ UNCHANGED step
    BY <1>4, <1>t DEF Settle, AtStep
  <2>3. [step |-> step[c], ok |-> ok, by |-> c] \in Results
    BY <2>2 DEF Results
  <2>4. results' \in Seq(Results)
    BY <1>4, <1>t, <2>3 DEF Settle
  <2> QED BY <1>4, <1>g, <2>1, <2>2, <2>4 DEF Settle
<1>5. ASSUME NEW m \in Marks, Mark(c, m)
      PROVE  /\ stepState' \in [StepIds -> StepStates] /\ pc' \in [Calls -> PcValues]
             /\ \A d \in Calls : pc'[d] \in AtStep => step'[d] \in StepIds
  <2>1. m[1] \in AtStep /\ m[2] \in StepStates /\ m[3] \in PcValues
    BY DEF Marks, AtStep, StepStates, PcValues, OnStack
  <2>2. step[c] \in StepIds /\ UNCHANGED step
    BY <1>5, <1>t, <2>1 DEF Mark
  <2> QED BY <1>5, <1>t, <1>g, <2>1, <2>2 DEF Mark
<1>6. CASE Pay(c)
  <2>1. {"retry", "error"} \subseteq PcValues
    BY DEF PcValues, OnStack
  <2>2. step[c] \in StepIds /\ UNCHANGED step
    BY <1>6, <1>t DEF Pay, AtStep
  <2>3. attempts' \in [StepIds -> Nat]
    BY <1>6, <1>t, <2>2 DEF Pay
  <2> QED BY <1>6, <1>t, <1>g, <2>1, <2>2, <2>3 DEF Pay
<1>7. CASE Advance(c)
  <2>1. {"head", "exit"} \subseteq PcValues \ AtStep
    BY DEF PcValues, OnStack, AtStep
  <2> QED BY <1>7, <1>t, <1>g, <2>1 DEF Advance
<1>8. CASE Adopt(c)
  <2>1. {"head", "error"} \subseteq PcValues \ AtStep
    BY DEF PcValues, OnStack, AtStep
  <2> QED BY <1>8, <1>t, <1>g, <2>1 DEF Adopt
<1>9. CASE Hop(c)
  <2>1. PICK q \in Hops(pc[c]) : Goes(c, q)
    BY <1>9 DEF Hop
  <2>2. q \in PcValues
    BY <2>1 DEF Hops, PcValues, OnStack, Ended
  <2>3. q \in AtStep => pc[c] \in AtStep
    BY <2>1 DEF Hops, AtStep
  <2> QED BY <1>9, <1>t, <1>g, <2>1, <2>2, <2>3 DEF Hop, stepVars
<1> QED
  BY <1>1, <1>2, <1>3, <1>4, <1>5, <1>6, <1>7, <1>8, <1>9, <1>t
     DEF Effect, Settle, Mark, Results

(* What every action leaves of the type of the rest.                        *)
LEMMA OthersAreTyped ==
    ASSUME TypeOK, [Next]_vars
    PROVE  /\ status' \in Statuses /\ history' \in Seq(HistoryEntries)
           /\ aborted' \in BOOLEAN /\ pauses' \in Nat
           /\ canReplan' \in [Calls -> BOOLEAN]
<1>h. ASSUME NEW e \in {"started", "replan", "completed", "cancelled", "failed"}
      PROVE  Append(history, e) \in Seq(HistoryEntries)
  BY DEF TypeOK, HistoryEntries, Terminal
<1> USE DEF TypeOK
<1>0. {"running", "paused", "replanning", "completed", "cancelled", "failed"} \subseteq Statuses
  BY DEF Statuses
<1>1. ASSUME NEW c \in Calls, LoopHead(c) \/ WaitOver(c) \/ HandOver(c) \/ RefusalArrives(c)
                              \/ ReplanFails(c)
      PROVE  UNCHANGED <<status, history, aborted, pauses, canReplan>>
  BY <1>1 DEF LoopHead, WaitOver, BeginStep, HandOver, RefusalArrives, ReplanFails, context
<1>2. ASSUME NEW c \in Calls, MarkCompleted(c) \/ MarkFailed(c) \/ BackOff(c) \/ SleepOver(c)
                              \/ MoveOn(c)
      PROVE  UNCHANGED <<status, history, aborted, pauses, canReplan>>
  BY <1>2 DEF MarkCompleted, MarkFailed, BackOff, SleepOver, MoveOn
<1>3. ASSUME NEW c \in Calls, NEW retryable \in BOOLEAN, AfterFailure(c, retryable)
      PROVE  /\ status' \in Statuses /\ history' \in Seq(HistoryEntries)
             /\ UNCHANGED <<aborted, pauses, canReplan>>
  BY <1>3, <1>h, <1>0 DEF AfterFailure, Retry, Replan, GiveUp
<1>4. ASSUME NEW c \in Calls, Exit(c) \/ Catch(c)
      PROVE  /\ status' \in Statuses /\ history' \in Seq(HistoryEntries)
             /\ UNCHANGED <<aborted, pauses, canReplan>>
  BY <1>4, <1>h, <1>0 DEF Exit, Catch, ClosedAs
<1>5. ASSUME NEW c \in Calls, NEW ok \in BOOLEAN, StepSettles(c, ok)
      PROVE  UNCHANGED <<status, history, aborted, pauses, canReplan>>
  BY <1>5 DEF StepSettles
<1>6. ASSUME NEW c \in Calls, NEW p \in ReplanPlans, ReplanReturns(c, p)
      PROVE  status' \in Statuses /\ UNCHANGED <<history, aborted, pauses, canReplan>>
  BY <1>6, <1>0 DEF ReplanReturns
<1>7. ASSUME NEW c \in Calls, NEW withCallback \in BOOLEAN, Execute(c, withCallback)
      PROVE  /\ status' \in Statuses /\ history' \in Seq(HistoryEntries)
             /\ canReplan' \in [Calls -> BOOLEAN] /\ UNCHANGED <<aborted, pauses>>
  <2>1. canReplan' \in [Calls -> BOOLEAN]
    BY <1>7 DEF Execute
  <2>2. history' \in Seq(HistoryEntries)
    BY <1>7, <1>h DEF Execute
  <2> QED BY <1>7, <1>0, <2>1, <2>2 DEF Execute
<1>8. CASE ExecuteRejected \/ Pause \/ Resume \/ Cancel
  <2>1. UNCHANGED <<aborted, canReplan>>
    BY <1>8 DEF ExecuteRejected, Pause, Resume, Cancel
  <2>2. status' \in Statuses
    BY <1>8, <1>0 DEF ExecuteRejected, Pause, Resume, Cancel
  <2>3. history' \in Seq(HistoryEntries)
    BY <1>8, <1>h DEF ExecuteRejected, Pause, Resume, Cancel
  <2>4. pauses' \in Nat
    BY <1>8 DEF ExecuteRejected, Pause, Resume, Cancel
  <2> QED BY <2>1, <2>2, <2>3, <2>4
<1>9. CASE Abort
  BY <1>9 DEF Abort
<1>10. CASE UNCHANGED vars
  BY <1>10 DEF vars, context
<1> QED
  BY <1>1, <1>2, <1>3, <1>4, <1>5, <1>6, <1>7, <1>8, <1>9, <1>10, NextIs

THEOREM TypeCorrect == Spec => []TypeOK
<1>1. Init => TypeOK
  <2> SUFFICES ASSUME Init PROVE TypeOK
    OBVIOUS
  <2>1. /\ <<>> \in Seq(HistoryEntries)
        /\ <<>> \in Seq([step : StepIds, ok : BOOLEAN, by : Calls])
    OBVIOUS
  <2>2. plan \in Seq(StepIds)
    BY LoopAssumption DEF LoopAssumption, Init
  <2>3. status \in Statuses /\ "pending" \in StepStates /\ "idle" \in PcValues \ AtStep
    BY DEF Init, Statuses, StepStates, PcValues, AtStep, OnStack, Ended
  <2>4. /\ pc \in [Calls -> PcValues] /\ \A c \in Calls : pc[c] \notin AtStep
        /\ step \in [Calls -> StepIds \cup {"none"}] /\ canReplan \in [Calls -> BOOLEAN]
    BY <2>3 DEF Init
  <2>5. stepState \in [StepIds -> StepStates] /\ attempts \in [StepIds -> Nat]
    BY <2>3 DEF Init
  <2>6. index \in Nat \ {0} /\ pauses \in Nat
    BY DEF Init
  <2>7. aborted \in BOOLEAN
    BY DEF Init
  <2>8. /\ history \in Seq(HistoryEntries)
        /\ results \in Seq([step : StepIds, ok : BOOLEAN, by : Calls])
    BY <2>1 DEF Init
  <2> QED BY <2>2, <2>3, <2>4, <2>5, <2>6, <2>7, <2>8 DEF TypeOK
<1>2. TypeOK /\ [Next]_vars => TypeOK'
  <2> SUFFICES ASSUME TypeOK, [Next]_vars PROVE TypeOK'
    OBVIOUS
  <2>1. CASE Aside
    BY <2>1, OthersAreTyped DEF TypeOK, Aside, stepVars
  <2>2. ASSUME NEW c \in Calls, Effect(c) PROVE TypeOK'
    BY <2>2, OthersAreTyped, EffectIsTyped DEF TypeOK, Results
  <2> QED BY <2>1, <2>2, StepEffects
<1> QED BY <1>1, <1>2, PTL DEF Spec

-----------------------------------------------------------------------------
(* What every effect leaves alone: the other calls, and what is completed.  *)

LEMMA OthersStay ==
    ASSUME TypeOK, NEW c \in Calls, Effect(c), NEW d \in Calls, d # c
    PROVE  pc'[d] = pc[d] /\ step'[d] = step[d]
<1>t. pc \in [Calls -> PcValues] /\ step \in [Calls -> StepIds \cup {"none"}]
  BY DEF TypeOK
<1>1. ASSUME NEW q, Goes(c, q) PROVE pc'[d] = pc[d]
  BY <1>1, <1>t DEF Goes
<1>2. pc'[d] = pc[d]
  BY <1>1 DEF Effect, Enter, Announce, Refuse, Settle, Mark, Pay, Advance, Adopt, Hop
<1>3. step'[d] = step[d]
  BY <1>t DEF Effect, Enter, Announce, Refuse, Settle, Mark, Pay, Advance, Adopt, Hop, stepVars
<1> QED BY <1>2, <1>3

LEMMA CompletedStays ==
    ASSUME TypeOK, NEW c \in Calls, Effect(c), NEW s \in StepIds, stepState[s] = "completed"
    PROVE  stepState'[s] = "completed"
<1>t. stepState \in [StepIds -> StepStates] /\ "completed" \in StepStates
  BY DEF TypeOK, StepStates
<1>1. ~CanStep(s, "running") /\ \A to \in StepStates : ~CanStep(s, to)
  BY DEF CanStep, ValidStepTransitions, StepStates
<1>2. CASE Announce(c)
  BY <1>2, <1>t, <1>1 DEF Announce
<1>3. ASSUME NEW m \in Marks, Mark(c, m) PROVE stepState'[s] = "completed"
  <2>1. m[2] \in StepStates
    BY DEF Marks, StepStates
  <2>2. step[c] # s
    BY <1>3, <1>1, <2>1 DEF Mark
  <2> QED BY <1>3, <1>t, <2>2 DEF Mark
<1>4. CASE UNCHANGED stepState
  BY <1>4
<1> QED
  BY <1>2, <1>3, <1>4 DEF Effect, Enter, Refuse, Settle, Pay, Advance, Adopt, Hop, stepVars

-----------------------------------------------------------------------------
(* A call never runs a step again that it saw succeed: by then the step is  *)
(* marked, or the call is about to mark it, or it failed to and is over.    *)

Won(c, s) ==
    \E i \in 1..Len(results) : results[i].ok /\ results[i].by = c /\ results[i].step = s

Kept(c, s) ==
    \/ stepState[s] = "completed"
    \/ pc[c] = "succeeded" /\ step[c] = s
    \/ pc[c] \in {"error", "returned", "rejected"}

StepInv ==
    \A c \in Calls :
        /\ \A s \in StepIds : Won(c, s) => Kept(c, s)
        /\ pc[c] \in {"announced", "step"} => ~Won(c, step[c])

(* Only the call that settles a step gets a new result.                     *)
LEMMA WonGrows ==
    ASSUME TypeOK, NEW c \in Calls, Effect(c), NEW d \in Calls, NEW s, Won(d, s)'
    PROVE  Won(d, s) \/ (d = c /\ pc[c] = "step" /\ s = step[c] /\ pc'[c] = "succeeded")
<1>1. CASE UNCHANGED results
  BY <1>1 DEF Won
<1>2. ASSUME NEW ok \in BOOLEAN, Settle(c, ok)
      PROVE  Won(d, s) \/ (d = c /\ pc[c] = "step" /\ s = step[c] /\ pc'[c] = "succeeded")
  <2> DEFINE r == [step |-> step[c], ok |-> ok, by |-> c]
             n == Len(results)
  <2>1. results' = Append(results, r) /\ pc[c] = "step"
    BY <1>2 DEF Settle
  <2>2. results \in Seq(Results)
    BY DEF TypeOK, Results
  <2>3. n \in Nat /\ Len(results') = n + 1 /\ results'[n + 1] = r
        /\ \A i \in 1..n : results'[i] = results[i]
    BY <2>1, <2>2
  <2>4. PICK i \in 1..(n + 1) : results'[i].ok /\ results'[i].by = d /\ results'[i].step = s
    BY <2>3 DEF Won
  <2>5. CASE i \in 1..n
    BY <2>3, <2>4, <2>5 DEF Won
  <2>6. CASE i = n + 1
    <3>1. ok = TRUE /\ c = d /\ step[c] = s
      BY <2>3, <2>4, <2>6
    <3>2. pc'[c] = "succeeded"
      BY <1>2, <3>1 DEF Settle, Goes, TypeOK
    <3> QED BY <2>1, <3>1, <3>2
  <2> QED BY <2>3, <2>5, <2>6
<1> QED
  BY <1>1, <1>2 DEF Effect, Enter, Announce, Refuse, Mark, Pay, Advance, Adopt, Hop, stepVars

LEMMA StepInvStep == TypeOK /\ StepInv /\ [Next]_vars => StepInv'
<1> SUFFICES ASSUME TypeOK, StepInv, [Next]_vars PROVE StepInv'
  OBVIOUS
<1>1. CASE Aside
  BY <1>1 DEF Aside, stepVars, StepInv, Won, Kept
<1>2. ASSUME NEW c \in Calls, Effect(c), NEW d \in Calls, d # c
      PROVE  /\ \A s \in StepIds : Won(d, s)' => Kept(d, s)'
             /\ pc'[d] \in {"announced", "step"} => ~Won(d, step[d])'
  <2>1. pc'[d] = pc[d] /\ step'[d] = step[d]
    BY <1>2, OthersStay
  <2>2. \A s : Won(d, s)' => Won(d, s)
    BY <1>2, WonGrows
  <2>3. ASSUME NEW s \in StepIds, Won(d, s)' PROVE Kept(d, s)'
    <3>1. Kept(d, s)
      BY <2>2, <2>3 DEF StepInv
    <3> QED BY <1>2, <2>1, <3>1, CompletedStays DEF Kept
  <2>4. Won(d, step[d])' => Won(d, step'[d])
    BY <2>2 DEF Won
  <2> QED BY <2>1, <2>3, <2>4 DEF StepInv
<1>3. ASSUME NEW c \in Calls, Effect(c)
      PROVE  /\ \A s \in StepIds : Won(c, s)' => Kept(c, s)'
             /\ pc'[c] \in {"announced", "step"} => ~Won(c, step[c])'
  <2>t. pc \in [Calls -> PcValues] /\ step \in [Calls -> StepIds \cup {"none"}]
        /\ stepState \in [StepIds -> StepStates]
    BY DEF TypeOK
  <2>1. CASE Announce(c)
    <3>1. pc'[c] = "announced" /\ step'[c] = plan[index] /\ plan[index] \in StepIds
          /\ pc[c] \in {"started", "head", "wait"}
      BY <1>3, <2>1, <2>t DEF Announce, Goes
    <3>2. stepState[plan[index]] # "completed"
      BY <2>1, <2>t, <3>1 DEF Announce, CanStep, ValidStepTransitions, StepStates
    <3>3. \A s \in StepIds : Won(c, s) => stepState[s] = "completed"
      BY <3>1 DEF StepInv, Kept
    <3>4. UNCHANGED results /\ \A s : Won(c, s)' <=> Won(c, s)
      BY <2>1 DEF Announce, Won
    <3>5. \A s \in StepIds : Won(c, s)' => Kept(c, s)'
      BY <1>3, <3>3, <3>4, CompletedStays DEF Kept
    <3>6. ~Won(c, plan[index])
      BY <3>1, <3>2, <3>3
    <3> QED BY <3>1, <3>4, <3>5, <3>6 DEF Won
  <2>2. ASSUME NEW ok \in BOOLEAN, Settle(c, ok)
        PROVE  /\ \A s \in StepIds : Won(c, s)' => Kept(c, s)'
               /\ pc'[c] \notin {"announced", "step"}
    <3>1. pc[c] = "step" /\ pc'[c] \in {"succeeded", "failing"} /\ step'[c] = step[c]
      BY <2>2, <2>t DEF Settle, Goes
    <3>2. ASSUME NEW s \in StepIds, Won(c, s)' PROVE Kept(c, s)'
      <4>1. CASE Won(c, s)
        <5>1. stepState[s] = "completed"
          BY <3>1, <4>1 DEF StepInv, Kept
        <5> QED BY <1>3, <5>1, CompletedStays DEF Kept
      <4>2. CASE s = step[c] /\ pc'[c] = "succeeded"
        BY <3>1, <4>2 DEF Kept
      <4> QED BY <1>3, <3>2, <4>1, <4>2, WonGrows
    <3> QED BY <3>1, <3>2
  <2>3. CASE UNCHANGED results /\ UNCHANGED step /\ pc'[c] \notin {"announced", "step"}
             /\ (pc[c] = "succeeded" => stepState'[step[c]] = "completed" \/ pc'[c] = "error")
             /\ (pc[c] \in {"error", "returned", "rejected"} =>
                     pc'[c] \in {"error", "returned", "rejected"})
    <3>1. \A s : Won(c, s)' <=> Won(c, s)
      BY <2>3 DEF Won
    <3> QED BY <1>3, <2>3, <3>1, CompletedStays DEF StepInv, Kept
  <2>4. CASE Hop(c) /\ pc[c] = "announced"
    <3>1. pc'[c] = "step" /\ UNCHANGED stepVars
      BY <2>4, <2>t DEF Hop, Hops, Goes
    <3>2. \A s : Won(c, s)' <=> Won(c, s)
      BY <3>1 DEF Won, stepVars
    <3> QED BY <2>4, <3>1, <3>2 DEF StepInv, Kept, stepVars, Won
  <2>5. CASE Hop(c) /\ pc[c] # "announced"
    <3>1. PICK q \in Hops(pc[c]) : Goes(c, q)
      BY <2>5 DEF Hop
    <3>2. pc'[c] = q /\ UNCHANGED <<results, step>>
      BY <2>5, <2>t, <3>1 DEF Hop, Goes, stepVars
    <3>3. /\ pc'[c] \notin {"announced", "step"}
          /\ pc[c] = "succeeded" => pc'[c] = "error"
          /\ pc[c] \in {"error", "returned", "rejected"} =>
                pc'[c] \in {"error", "returned", "rejected"}
      BY <2>5, <3>1, <3>2 DEF Hops
    <3> QED BY <2>3, <3>2, <3>3
  <2>6. ASSUME NEW m \in Marks, Mark(c, m)
        PROVE  /\ \A s \in StepIds : Won(c, s)' => Kept(c, s)'
               /\ pc'[c] \in {"announced", "step"} => ~Won(c, step[c])'
    <3>1. pc[c] = m[1] /\ pc'[c] = m[3] /\ UNCHANGED <<results, step>>
      BY <2>6, <2>t DEF Mark, Goes
    <3>2. m[1] \in AtStep
      BY DEF Marks, AtStep
    <3>3. step[c] \in StepIds /\ stepState'[step[c]] = m[2]
      BY <2>6, <2>t, <3>1, <3>2, StepIsTyped DEF Mark
    <3>4. /\ m[1] = "succeeded" => m[2] = "completed"
          /\ m[1] \notin {"error", "returned", "rejected"}
          /\ m[3] \notin {"announced", "step"}
      BY DEF Marks
    <3> QED BY <2>3, <3>1, <3>3, <3>4
  <2>7. CASE Enter(c) \/ Refuse(c) \/ Pay(c) \/ Advance(c) \/ Adopt(c)
    <3>1. UNCHANGED results /\ pc'[c] \notin {"announced", "step"}
          /\ pc[c] \notin {"succeeded", "error", "returned", "rejected"}
      BY <2>7, <2>t DEF Enter, Refuse, Pay, Advance, Adopt, Goes, stepVars
    <3>2. \A s : Won(c, s)' <=> Won(c, s)
      BY <3>1 DEF Won
    <3> QED BY <1>3, <3>1, <3>2, CompletedStays DEF StepInv, Kept
  <2> QED BY <1>3, <2>1, <2>2, <2>4, <2>5, <2>6, <2>7 DEF Effect
<1> QED BY <1>1, <1>2, <1>3, StepEffects DEF StepInv

LEMMA SucceedOnceStep ==
    TypeOK /\ StepInv /\ NoStepSucceedsTwice /\ [Next]_vars => NoStepSucceedsTwice'
<1> SUFFICES ASSUME TypeOK, StepInv, NoStepSucceedsTwice, [Next]_vars
             PROVE  NoStepSucceedsTwice'
  OBVIOUS
<1>1. CASE UNCHANGED results
  BY <1>1 DEF NoStepSucceedsTwice
<1>2. ASSUME NEW c \in Calls, NEW ok \in BOOLEAN, Settle(c, ok) PROVE NoStepSucceedsTwice'
  <2> DEFINE r == [step |-> step[c], ok |-> ok, by |-> c]
             n == Len(results)
  <2>1. results' = Append(results, r) /\ pc[c] = "step"
    BY <1>2 DEF Settle
  <2>2. results \in Seq(Results)
    BY DEF TypeOK, Results
  <2>3. n \in Nat /\ Len(results') = n + 1 /\ results'[n + 1] = r
        /\ \A i \in 1..n : results'[i] = results[i]
    BY <2>1, <2>2
  <2>4. \A i \in 1..n : results[i].ok /\ results[i].by = c => results[i].step # step[c]
    BY <2>1 DEF StepInv, Won
  <2> SUFFICES ASSUME NEW i \in 1..(n + 1), NEW j \in 1..(n + 1), results'[i].ok,
                      results'[i].step = results'[j].step, results'[i].by = results'[j].by
               PROVE  j <= i
    BY <2>3 DEF NoStepSucceedsTwice
  <2>5. CASE i = n + 1
    BY <2>3, <2>5
  <2>6. CASE i \in 1..n /\ j = n + 1
    <3>1. results'[j].step = step[c] /\ results'[j].by = c
      BY <2>3, <2>6
    <3> QED BY <2>3, <2>4, <2>6, <3>1
  <2>7. CASE i \in 1..n /\ j \in 1..n
    BY <2>3, <2>7 DEF NoStepSucceedsTwice
  <2> QED BY <2>3, <2>5, <2>6, <2>7
<1> QED
  BY <1>1, <1>2, StepEffects
     DEF Effect, Enter, Announce, Refuse, Mark, Pay, Advance, Adopt, Hop, Aside, stepVars

(* No call sees a step succeed twice, for every plan, replan, retry budget  *)
(* and number of calls.                                                     *)
THEOREM StepsSucceedOnce == Spec => []NoStepSucceedsTwice
<1>1. Init => StepInv /\ NoStepSucceedsTwice
  BY DEF Init, StepInv, Won, NoStepSucceedsTwice
<1>2. Spec => []StepInv
  BY <1>1, TypeCorrect, StepInvStep, PTL DEF Spec
<1> QED BY <1>1, <1>2, TypeCorrect, SucceedOnceStep, PTL DEF Spec

-----------------------------------------------------------------------------
(* The history is closed once, with the final status; only cancel() and a   *)
(* catch block both record a cancellation, and only the catch blocks of two *)
(* calls both record a failure.                                             *)

(* What the status says of the calls.                                       *)
StatusInv ==
    /\ status \in {"completed", "failed"} => \E c \in Calls : pc[c] = "returned"
    /\ \A c \in Calls : pc[c] = "returned" => status \in Terminal

HistoryInv ==
    /\ \A i \in 1..Len(history) : history[i] \in Terminal => history[i] = status
    /\ \A i, j \in 1..Len(history) :
          (history[i] \in Terminal /\ history[j] \in Terminal /\ i # j)
              => status = "cancelled" \/ (status = "failed" /\ ~CalledOnce)
    /\ status \in Terminal => \E i \in 1..Len(history) : history[i] \in Terminal

(* What a step of the specification does to the status and the history.     *)

OpenStaysOpen == status' = status \/ (status \notin Terminal /\ status' \notin Terminal)

NoneReturns == \A d \in Calls : pc'[d] = "returned" => pc[d] = "returned" \/ status = "cancelled"

Keeps == UNCHANGED history /\ OpenStaysOpen /\ NoneReturns

Notes(e) == history' = Append(history, e) /\ OpenStaysOpen /\ NoneReturns

Closes ==
    /\ history' = Append(history, status') /\ status' \in Terminal
    /\ status \in Terminal => status' = status /\ status # "completed"
    /\ status' \in {"completed", "failed"} =>
          \E c \in Calls : pc[c] \in OnStack /\ pc'[c] = "returned"

LEMMA CallsGoOn ==
    ASSUME TypeOK, [Next]_vars, NEW d \in Calls
    PROVE  /\ pc[d] = "returned" => pc'[d] = "returned"
           /\ pc[d] # "idle" => pc'[d] # "idle"
<1>t. pc \in [Calls -> PcValues]
  BY DEF TypeOK
<1>1. ASSUME Effect(d)
      PROVE  pc[d] # "returned" /\ pc'[d] # "idle"
  <2>1. ASSUME NEW q \in Hops(pc[d]), Goes(d, q) PROVE pc[d] # "returned" /\ pc'[d] # "idle"
    BY <2>1, <1>t DEF Hops, Goes
  <2>2. ASSUME NEW m \in Marks, Mark(d, m) PROVE pc[d] # "returned" /\ pc'[d] # "idle"
    BY <2>2, <1>t DEF Mark, Marks, Goes
  <2>3. CASE Enter(d) \/ Announce(d) \/ Refuse(d) \/ Pay(d) \/ Advance(d) \/ Adopt(d)
    BY <2>3, <1>t DEF Enter, Announce, Refuse, Pay, Advance, Adopt, Goes
  <2>4. ASSUME NEW ok \in BOOLEAN, Settle(d, ok) PROVE pc[d] # "returned" /\ pc'[d] # "idle"
    BY <2>4, <1>t DEF Settle, Goes
  <2> QED BY <1>1, <2>1, <2>2, <2>3, <2>4 DEF Effect, Hop
<1>2. ASSUME NEW c \in Calls, Effect(c), c # d PROVE pc'[d] = pc[d]
  BY <1>2, OthersStay
<1> QED BY <1>1, <1>2, StepEffects DEF Aside

LEMMA CalledOnceBefore ==
    ASSUME TypeOK, [Next]_vars, CalledOnce'
    PROVE  CalledOnce
<1>1. Accepted \subseteq Accepted'
  BY CallsGoOn DEF Accepted
<1> QED BY <1>1 DEF CalledOnce

LEMMA TransitionsLeaveNonTerminal ==
    ASSUME TypeOK, NEW to, CanTransition(to)
    PROVE  status \notin Terminal
BY DEF TypeOK, CanTransition, ValidTransitions, Statuses, Terminal

LEMMA HistoryEffects ==
    ASSUME TypeOK, [Next]_vars
    PROVE  Keeps \/ Notes("started") \/ Notes("replan") \/ Closes
<1>t. pc \in [Calls -> PcValues]
  BY DEF TypeOK
<1>1. ASSUME UNCHANGED <<status, history>>, NEW c \in Calls, NEW q, Goes(c, q),
             q # "returned" \/ status = "cancelled"
      PROVE  Keeps
  BY <1>1, <1>t DEF Keeps, OpenStaysOpen, NoneReturns, Goes
<1>2. ASSUME NEW c \in Calls, LoopHead(c) \/ WaitOver(c) PROVE Keeps
  <2>1. UNCHANGED <<status, history>>
    BY <1>2 DEF LoopHead, WaitOver, BeginStep, context
  <2>2. \E q \in {"cancelled", "wait", "exit", "announced", "refused"} : Goes(c, q)
    BY <1>2 DEF LoopHead, WaitOver, BeginStep
  <2> QED BY <1>1, <2>1, <2>2
<1>3. ASSUME NEW c \in Calls, HandOver(c) \/ RefusalArrives(c) \/ ReplanFails(c) PROVE Keeps
  <2>1. UNCHANGED <<status, history>>
    BY <1>3 DEF HandOver, RefusalArrives, ReplanFails, context
  <2> QED BY <1>1, <1>3, <2>1 DEF HandOver, RefusalArrives, ReplanFails
<1>4. ASSUME NEW c \in Calls, MarkCompleted(c) \/ MarkFailed(c) \/ BackOff(c) \/ SleepOver(c)
      PROVE  Keeps
  <2>1. UNCHANGED <<status, history>>
    BY <1>4 DEF MarkCompleted, MarkFailed, BackOff, SleepOver
  <2>2. \E q \in {"progress", "failed", "sleep", "head", "error"} : Goes(c, q)
    BY <1>4 DEF MarkCompleted, MarkFailed, BackOff, SleepOver, SetStepState
  <2> QED BY <1>1, <2>1, <2>2
<1>5. ASSUME NEW c \in Calls, MoveOn(c) PROVE Keeps
  BY <1>1, <1>5 DEF MoveOn
<1>6. ASSUME NEW c \in Calls, NEW retryable \in BOOLEAN, AfterFailure(c, retryable)
      PROVE  Keeps \/ Notes("replan")
  <2>1. CASE Retry(c) \/ GiveUp(c)
    BY <1>1, <2>1 DEF Retry, GiveUp
  <2>2. CASE Replan(c)
    <3>1. OpenStaysOpen
      BY <2>2, TransitionsLeaveNonTerminal DEF Replan, OpenStaysOpen, Terminal
    <3>2. NoneReturns
      BY <2>2, <1>t DEF Replan, Goes, NoneReturns
    <3> QED BY <2>2, <3>1, <3>2 DEF Replan, Notes
  <2> QED BY <1>6, <2>1, <2>2 DEF AfterFailure
<1>7. ASSUME NEW c \in Calls, Exit(c) PROVE Keeps \/ Closes
  <2>0. pc[c] \in OnStack
    BY <1>7 DEF Exit, Runs, OnStack
  <2>1. CASE CanTransition("completed")
    <3>1. pc'[c] = "returned" /\ history' = Append(history, status') /\ status' \in Terminal
      BY <1>7, <2>1, <1>t DEF Exit, Goes, Terminal
    <3> QED BY <2>0, <2>1, <3>1, TransitionsLeaveNonTerminal DEF Closes
  <2>2. CASE ~CanTransition("completed")
    BY <1>1, <1>7, <2>2 DEF Exit
  <2> QED BY <2>1, <2>2
<1>8. ASSUME NEW c \in Calls, Catch(c) PROVE Keeps \/ Closes
  <2>0. pc[c] \in OnStack /\ ClosedAs(c) \in {"cancelled", "failed"}
    BY <1>8 DEF Catch, Runs, OnStack, ClosedAs
  <2>1. CASE status = ClosedAs(c) \/ CanTransition(ClosedAs(c))
    <3>1. /\ pc'[c] = "returned" /\ history' = Append(history, status')
          /\ status' = ClosedAs(c)
      BY <1>8, <2>1, <1>t DEF Catch, Goes
    <3>2. status \in Terminal => status' = status /\ status # "completed"
      BY <2>0, <2>1, <3>1, TransitionsLeaveNonTerminal
    <3> QED BY <2>0, <3>1, <3>2 DEF Closes, Terminal
  <2>2. CASE ~(status = ClosedAs(c) \/ CanTransition(ClosedAs(c)))
    BY <1>1, <1>8, <2>2 DEF Catch
  <2> QED BY <2>1, <2>2
<1>9. ASSUME NEW c \in Calls, NEW ok \in BOOLEAN, StepSettles(c, ok) PROVE Keeps
  <2>1. \E q \in {"succeeded", "failing"} : Goes(c, q)
    BY <1>9 DEF StepSettles
  <2> QED BY <1>1, <1>9, <2>1 DEF StepSettles
<1>10. ASSUME NEW c \in Calls, NEW p \in ReplanPlans, ReplanReturns(c, p) PROVE Keeps
  <2>1. OpenStaysOpen
    BY <1>10, TransitionsLeaveNonTerminal DEF ReplanReturns, OpenStaysOpen, Terminal
  <2>2. NoneReturns
    BY <1>10, <1>t DEF ReplanReturns, Goes, NoneReturns
  <2> QED BY <1>10, <2>1, <2>2 DEF ReplanReturns, Keeps
<1>11. ASSUME NEW c \in Calls, NEW withCallback \in BOOLEAN, Execute(c, withCallback)
       PROVE  Notes("started")
  <2>1. OpenStaysOpen
    BY <1>11, TransitionsLeaveNonTerminal DEF Execute, OpenStaysOpen, Terminal
  <2>2. NoneReturns
    BY <1>11, <1>t DEF Execute, Goes, NoneReturns
  <2> QED BY <1>11, <2>1, <2>2 DEF Execute, Notes
<1>12. CASE ExecuteRejected
  BY <1>12 DEF ExecuteRejected, Notes, OpenStaysOpen, NoneReturns
<1>13. CASE Pause \/ Resume
  BY <1>13 DEF Pause, Resume, Keeps, OpenStaysOpen, NoneReturns, Terminal
<1>14. CASE Cancel
  BY <1>14 DEF Cancel, CanCancel, Closes, Terminal
<1>15. CASE Abort \/ UNCHANGED vars
  BY <1>15 DEF Abort, vars, context, Keeps, OpenStaysOpen, NoneReturns
<1> QED
  BY <1>2, <1>3, <1>4, <1>5, <1>6, <1>7, <1>8, <1>9, <1>10, <1>11, <1>12, <1>13, <1>14, <1>15,
     NextIs

LEMMA StatusInvStep == TypeOK /\ StatusInv /\ [Next]_vars => StatusInv'
<1> SUFFICES ASSUME TypeOK, StatusInv, [Next]_vars PROVE StatusInv'
  OBVIOUS
<1>1. CASE OpenStaysOpen /\ NoneReturns
  <2>1. status' \in {"completed", "failed"} => \E c \in Calls : pc'[c] = "returned"
    BY <1>1, CallsGoOn DEF OpenStaysOpen, StatusInv, Terminal
  <2>2. \A c \in Calls : pc'[c] = "returned" => status' \in Terminal
    BY <1>1 DEF OpenStaysOpen, NoneReturns, StatusInv, Terminal
  <2> QED BY <2>1, <2>2 DEF StatusInv
<1>2. CASE Closes
  BY <1>2 DEF Closes, StatusInv
<1> QED BY <1>1, <1>2, HistoryEffects DEF Keeps, Notes

(* An entry that closes nothing leaves the record as it was.                *)
LEMMA OpenEntry ==
    ASSUME TypeOK, HistoryInv, OpenStaysOpen, CalledOnce' => CalledOnce,
           NEW e \in {"started", "replan"}, history' = Append(history, e)
    PROVE  HistoryInv'
<1> DEFINE n == Len(history)
<1>1. /\ n \in Nat /\ Len(history') = n + 1 /\ history'[n + 1] = e
      /\ \A i \in 1..n : history'[i] = history[i]
  BY DEF TypeOK
<1>2. e \notin Terminal
  BY DEF Terminal
<1>3. \A i \in 1..(n + 1) :
         history'[i] \in Terminal => i \in 1..n /\ history'[i] = history[i]
  BY <1>1, <1>2
<1>4. \A i \in 1..(n + 1) : history'[i] \in Terminal => status' = status /\ history'[i] = status
  BY <1>3 DEF HistoryInv, OpenStaysOpen
<1>5. \A i, j \in 1..(n + 1) :
         (history'[i] \in Terminal /\ history'[j] \in Terminal /\ i # j)
             => status' = "cancelled" \/ (status' = "failed" /\ ~CalledOnce')
  BY <1>3, <1>4 DEF HistoryInv
<1>6. status' \in Terminal => \E i \in 1..(n + 1) : history'[i] \in Terminal
  BY <1>1 DEF HistoryInv, OpenStaysOpen
<1> QED BY <1>1, <1>4, <1>5, <1>6 DEF HistoryInv

(* A closing entry agrees with the status it is recorded with.              *)
LEMMA ClosingEntry ==
    ASSUME TypeOK, HistoryInv, NEW o \in Terminal,
           history' = Append(history, o), status' = o,
           status \in Terminal =>
               status = o /\ (o = "cancelled" \/ (o = "failed" /\ ~CalledOnce'))
    PROVE  HistoryInv'
<1> DEFINE n == Len(history)
<1>1. /\ n \in Nat /\ Len(history') = n + 1 /\ history'[n + 1] = o
      /\ \A i \in 1..n : history'[i] = history[i]
  BY DEF TypeOK
<1>2. \A i \in 1..n : history[i] \in Terminal => history[i] = status
  BY DEF HistoryInv
<1>3. \A i \in 1..n : history[i] \in Terminal =>
         history[i] = o /\ (o = "cancelled" \/ (o = "failed" /\ ~CalledOnce'))
  BY <1>2
<1>4. \A i \in 1..(n + 1) : history'[i] \in Terminal => history'[i] = o
  BY <1>1, <1>3
<1>5. \A i, j \in 1..(n + 1) :
         (history'[i] \in Terminal /\ history'[j] \in Terminal /\ i # j)
             => o = "cancelled" \/ (o = "failed" /\ ~CalledOnce')
  BY <1>1, <1>3
<1>6. \E i \in 1..(n + 1) : history'[i] \in Terminal
  BY <1>1
<1> QED BY <1>1, <1>4, <1>5, <1>6 DEF HistoryInv

LEMMA HistoryInvStep == TypeOK /\ StatusInv /\ HistoryInv /\ [Next]_vars => HistoryInv'
<1> SUFFICES ASSUME TypeOK, StatusInv, HistoryInv, [Next]_vars PROVE HistoryInv'
  OBVIOUS
<1>c. CalledOnce' => CalledOnce
  BY CalledOnceBefore
<1>1. CASE Keeps
  <2>1. UNCHANGED history /\ OpenStaysOpen
    BY <1>1 DEF Keeps
  <2>2. status' # status => \A i \in 1..Len(history) : history[i] \notin Terminal
    BY <2>1 DEF HistoryInv, OpenStaysOpen
  <2> QED BY <1>c, <2>1, <2>2 DEF HistoryInv, OpenStaysOpen
<1>2. ASSUME NEW e \in {"started", "replan"}, Notes(e) PROVE HistoryInv'
  BY <1>2, <1>c, OpenEntry DEF Notes
<1>3. CASE Closes
  <2>1. status \in Terminal => status = "cancelled" \/ (status = "failed" /\ ~CalledOnce')
    <3>1. ASSUME status = "failed" PROVE ~CalledOnce'
      <4>1. PICK d \in Calls : pc[d] = "returned"
        BY <3>1 DEF StatusInv
      <4>2. PICK c \in Calls : pc[c] \in OnStack
        BY <1>3, <3>1 DEF Closes, Terminal
      <4>3. c # d /\ pc[c] # "idle" /\ pc[d] # "idle"
        BY <4>1, <4>2 DEF OnStack
      <4>4. ~CalledOnce
        BY <4>3 DEF CalledOnce, Accepted
      <4> QED BY <1>c, <4>4
    <3> QED BY <1>3, <3>1 DEF Closes, Terminal
  <2> QED BY <1>3, <2>1, ClosingEntry DEF Closes
<1> QED BY <1>1, <1>2, <1>3, HistoryEffects

(* What the history says of the outcome is what the status says, however    *)
(* many calls of execute() close it.                                        *)
THEOREM HistoryClosedOnce == Spec => []HistoryAgreesWithStatus
<1>1. Init => StatusInv /\ HistoryInv
  BY DEF Init, StatusInv, HistoryInv, Terminal
<1>2. StatusInv /\ HistoryInv => HistoryAgreesWithStatus
  BY DEF StatusInv, HistoryInv, HistoryAgreesWithStatus
<1>3. Spec => []StatusInv
  BY <1>1, TypeCorrect, StatusInvStep, PTL DEF Spec
<1>4. Spec => []HistoryInv
  BY <1>1, <1>3, TypeCorrect, HistoryInvStep, PTL DEF Spec
<1> QED BY <1>2, <1>3, <1>4, PTL

-----------------------------------------------------------------------------
(* The index counts the steps that are marked completed: MarkCompleted()    *)
(* and MoveOn() are the only actions that touch either, and between them a  *)
(* call is at 'progress'.                                                   *)

Progressing == {c \in Calls : pc[c] = "progress"}

MarkedInv == IsFiniteSet(Marked) /\ IndexCountsCompletions

LEMMA SomeFinite == IsFiniteSet(Calls) /\ \A P \in SUBSET Calls : IsFiniteSet(P)
<1>1. MaxExecutes \in Int /\ 1 \in Int
  BY LoopAssumption DEF LoopAssumption
<1>2. IsFiniteSet(1..MaxExecutes)
  BY <1>1, FS_Interval
<1> QED BY <1>2, FS_Subset DEF Calls

(* Only a call that marks its step completed changes what is marked.        *)
LEMMA MarkedStep ==
    ASSUME TypeOK, NEW c \in Calls, Effect(c)
    PROVE  \/ /\ pc[c] = "succeeded" /\ pc'[c] = "progress" /\ step[c] \in StepIds
              /\ step[c] \notin Marked /\ Marked' = Marked \cup {step[c]}
           \/ Marked' = Marked /\ ~(pc[c] # "progress" /\ pc'[c] = "progress")
<1>t. stepState \in [StepIds -> StepStates] /\ pc \in [Calls -> PcValues]
  BY DEF TypeOK
<1>1. CASE UNCHANGED stepState
  <2>1. Marked' = Marked
    BY <1>1 DEF Marked
  <2>2. CASE Hop(c)
    BY <1>t, <2>1, <2>2 DEF Hop, Hops, Goes
  <2>3. ASSUME NEW ok \in BOOLEAN, Settle(c, ok) PROVE pc'[c] # "progress"
    BY <1>t, <2>3 DEF Settle, Goes
  <2>4. CASE Enter(c) \/ Announce(c) \/ Refuse(c) \/ Pay(c) \/ Advance(c) \/ Adopt(c)
    BY <1>t, <2>1, <2>4 DEF Enter, Announce, Refuse, Pay, Advance, Adopt, Goes
  <2>5. ASSUME NEW m \in Marks, Mark(c, m), m[2] # "completed" PROVE pc'[c] # "progress"
    BY <1>t, <2>5 DEF Mark, Marks, Goes
  <2>6. ASSUME NEW m \in Marks, Mark(c, m), m[2] = "completed" PROVE FALSE
    <3>1. step[c] \in StepIds
      BY <2>6, StepIsTyped DEF Mark, Marks, AtStep
    <3>2. stepState[step[c]] = "completed" /\ CanStep(step[c], "completed")
      BY <1>1, <1>t, <2>6, <3>1 DEF Mark
    <3> QED BY <3>1, <3>2 DEF CanStep, ValidStepTransitions, StepStates
  <2> QED BY <2>1, <2>2, <2>3, <2>4, <2>5, <2>6 DEF Effect
<1>2. ASSUME NEW s \in StepIds, NEW to \in StepStates \ {"completed"}, stepState[s] # "completed",
             stepState' = [stepState EXCEPT ![s] = to]
      PROVE  Marked' = Marked
  BY <1>2, <1>t DEF Marked
<1>3. CASE Announce(c)
  <2>1. plan[index] \in StepIds /\ "running" \in StepStates \ {"completed"}
    BY <1>3 DEF Announce, StepStates
  <2>2. stepState[plan[index]] # "completed"
    BY <1>3, <1>t, <2>1 DEF Announce, CanStep, ValidStepTransitions, StepStates
  <2>3. Marked' = Marked
    BY <1>2, <1>3, <2>1, <2>2 DEF Announce
  <2> QED BY <1>3, <1>t, <2>3 DEF Announce, Goes
<1>4. ASSUME NEW m \in Marks, Mark(c, m)
      PROVE  \/ /\ pc[c] = "succeeded" /\ pc'[c] = "progress" /\ step[c] \in StepIds
                /\ step[c] \notin Marked /\ Marked' = Marked \cup {step[c]}
             \/ Marked' = Marked /\ ~(pc[c] # "progress" /\ pc'[c] = "progress")
  <2>1. step[c] \in StepIds /\ pc[c] = m[1] /\ pc'[c] = m[3]
    BY <1>4, <1>t, StepIsTyped DEF Mark, Marks, AtStep, Goes
  <2>2. m[2] \in StepStates
    BY DEF Marks, StepStates
  <2>3. stepState[step[c]] # "completed"
    BY <1>4, <2>1, <2>2 DEF Mark, CanStep, ValidStepTransitions, StepStates
  <2>4. CASE m[2] = "completed"
    <3>1. m[1] = "succeeded" /\ m[3] = "progress"
      BY <2>4 DEF Marks
    <3>2. Marked' = Marked \cup {step[c]}
      BY <1>4, <1>t, <2>1, <2>4 DEF Mark, Marked
    <3> QED BY <2>1, <2>3, <3>1, <3>2 DEF Marked
  <2>5. CASE m[2] # "completed"
    <3>1. m[3] # "progress"
      BY <2>5 DEF Marks
    <3>2. Marked' = Marked
      BY <1>2, <1>4, <2>1, <2>2, <2>3, <2>5 DEF Mark
    <3> QED BY <2>1, <3>1, <3>2
  <2> QED BY <2>4, <2>5
<1> QED
  BY <1>1, <1>3, <1>4 DEF Effect, Enter, Refuse, Settle, Pay, Advance, Adopt, Hop, stepVars

LEMMA MarkedInvStep == TypeOK /\ MarkedInv /\ [Next]_vars => MarkedInv'
<1> SUFFICES ASSUME TypeOK, MarkedInv, [Next]_vars PROVE MarkedInv'
  OBVIOUS
<1>p. IndexCountsCompletions <=> Cardinality(Marked) = index - 1 + Cardinality(Progressing)
  BY DEF IndexCountsCompletions, Progressing
<1>q. IndexCountsCompletions' <=> Cardinality(Marked') = index' - 1 + Cardinality(Progressing')
  BY DEF IndexCountsCompletions, Progressing
<1>f. /\ IsFiniteSet(Marked) /\ IsFiniteSet(Progressing)
      /\ Cardinality(Marked) \in Nat /\ Cardinality(Progressing) \in Nat /\ index \in Nat
  <2>1. Progressing \subseteq Calls
    BY DEF Progressing
  <2>2. IsFiniteSet(Progressing) /\ IsFiniteSet(Marked)
    BY <2>1, SomeFinite DEF MarkedInv
  <2> QED BY <2>2, FS_CardinalityType DEF TypeOK
<1>1. CASE Aside
  BY <1>1 DEF Aside, stepVars, MarkedInv, Marked, IndexCountsCompletions
<1>2. ASSUME NEW c \in Calls, Effect(c) PROVE MarkedInv'
  <2>1. \A d \in Calls : d # c => pc'[d] = pc[d]
    BY <1>2, OthersStay
  <2>2. CASE pc[c] = "succeeded" /\ pc'[c] = "progress" /\ step[c] \notin Marked
             /\ Marked' = Marked \cup {step[c]}
    <3>1. Progressing' = Progressing \cup {c} /\ c \notin Progressing
      BY <2>1, <2>2 DEF Progressing
    <3>2. IsFiniteSet(Marked') /\ Cardinality(Marked') = Cardinality(Marked) + 1
      BY <1>f, <2>2, FS_AddElement
    <3>3. Cardinality(Progressing') = Cardinality(Progressing) + 1
      BY <1>f, <3>1, FS_AddElement
    <3>4. index' = index
      BY <1>2, <2>2 DEF Effect, Enter, Announce, Refuse, Settle, Mark, Pay, Advance, Adopt, Hop,
                        stepVars
    <3> QED BY <1>f, <1>p, <1>q, <3>2, <3>3, <3>4 DEF MarkedInv
  <2>3. CASE Marked' = Marked /\ ~(pc[c] # "progress" /\ pc'[c] = "progress")
    <3>1. CASE Advance(c)
      <4>1. pc[c] = "progress" /\ pc'[c] # "progress" /\ index' = index + 1
        BY <3>1 DEF Advance, Goes, TypeOK
      <4>2. Progressing' = Progressing \ {c} /\ c \in Progressing
        BY <2>1, <4>1 DEF Progressing
      <4>3. Cardinality(Progressing') = Cardinality(Progressing) - 1
        BY <1>f, <4>2, FS_RemoveElement
      <4> QED BY <1>f, <1>p, <1>q, <2>3, <4>1, <4>3 DEF MarkedInv
    <3>2. CASE ~Advance(c)
      <4>0. ASSUME NEW m \in Marks, Mark(c, m) PROVE pc[c] # "progress" /\ index' = index
        BY <4>0 DEF Mark, Marks
      <4>h. Hop(c) => pc[c] # "progress" /\ index' = index
        BY DEF Hop, Hops, stepVars
      <4>1. pc[c] # "progress" /\ index' = index
        BY <1>2, <3>2, <4>0, <4>h DEF Effect, Enter, Announce, Refuse, Settle, Pay, Adopt, stepVars
      <4>2. Progressing' = Progressing
        BY <2>1, <2>3, <4>1 DEF Progressing
      <4> QED BY <1>p, <1>q, <2>3, <4>1, <4>2 DEF MarkedInv
    <3> QED BY <3>1, <3>2
  <2> QED BY <1>2, <2>2, <2>3, MarkedStep
<1> QED BY <1>1, <1>2, StepEffects

LEMMA MarkedInvInit == Init => MarkedInv
<1> SUFFICES ASSUME Init PROVE MarkedInv
  OBVIOUS
<1>1. Marked = {} /\ {c \in Calls : pc[c] = "progress"} = {} /\ index = 1
  BY DEF Init, Marked
<1> QED BY <1>1, FS_EmptySet DEF MarkedInv, IndexCountsCompletions

-----------------------------------------------------------------------------
(* A completed execution.  As long as nothing was replanned only steps of   *)
(* the plan are marked, and the index can only be past the plan when as     *)
(* many are marked as the plan has.                                         *)

Replanned == "replan" \in Range(history)

(* What is marked, or about to be, has succeeded.                           *)
DoneInv ==
    /\ Marked \subseteq Done
    /\ \A c \in Calls : pc[c] = "succeeded" => step[c] \in Done

PlanInv ==
    ~Replanned =>
        /\ Marked \subseteq Range(plan)
        /\ \A c \in Calls :
              /\ pc[c] \in AtStep => step[c] \in Range(plan)
              /\ pc[c] # "replan"
              /\ pc[c] = "exit" => index > Len(plan)
        /\ status = "completed" => Range(plan) \subseteq Done

LEMMA HistoryGrows ==
    ASSUME TypeOK, NEW e \in HistoryEntries, history' = Append(history, e)
    PROVE  Range(history)' = Range(history) \cup {e}
<1> DEFINE n == Len(history)
<1>1. /\ n \in Nat /\ DOMAIN history = 1..n
      /\ DOMAIN history' = 1..(n + 1) /\ history'[n + 1] = e
      /\ \A i \in 1..n : history'[i] = history[i]
  BY DEF TypeOK
<1>2. 1..(n + 1) = (1..n) \cup {n + 1}
  BY <1>1
<1> QED BY <1>1, <1>2 DEF Range

LEMMA ReplannedStays ==
    ASSUME TypeOK, [Next]_vars, Replanned
    PROVE  Replanned'
<1>1. UNCHANGED history \/ \E e \in HistoryEntries : history' = Append(history, e)
  BY HistoryEffects DEF Keeps, Notes, Closes, HistoryEntries
<1> QED BY <1>1, HistoryGrows DEF Replanned

(* What a result does to the steps that have succeeded.                     *)
LEMMA DoneStep ==
    ASSUME TypeOK, NEW c \in Calls, NEW ok \in BOOLEAN, Settle(c, ok)
    PROVE  Done' = IF ok THEN Done \cup {step[c]} ELSE Done
<1> DEFINE r == [step |-> step[c], ok |-> ok, by |-> c]
           n == Len(results)
<1>1. results \in Seq(Results) /\ results' = Append(results, r)
  BY DEF TypeOK, Results, Settle
<1>2. /\ n \in Nat /\ Len(results') = n + 1 /\ results'[n + 1] = r
      /\ \A i \in 1..n : results'[i] = results[i]
  BY <1>1
<1> QED BY <1>2 DEF Done

LEMMA DoneGrows ==
    ASSUME TypeOK, [Next]_vars
    PROVE  Done \subseteq Done'
<1>1. CASE UNCHANGED results
  BY <1>1 DEF Done
<1>2. ASSUME NEW c \in Calls, NEW ok \in BOOLEAN, Settle(c, ok) PROVE Done \subseteq Done'
  BY <1>2, DoneStep
<1> QED
  BY <1>1, <1>2, StepEffects
     DEF Effect, Enter, Announce, Refuse, Mark, Pay, Advance, Adopt, Hop, Aside, stepVars

LEMMA DoneInvStep == TypeOK /\ DoneInv /\ [Next]_vars => DoneInv'
<1> SUFFICES ASSUME TypeOK, DoneInv, [Next]_vars PROVE DoneInv'
  OBVIOUS
<1>t. pc \in [Calls -> PcValues]
  BY DEF TypeOK
<1>1. CASE Aside
  BY <1>1 DEF Aside, stepVars, DoneInv, Marked, Done
<1>2. ASSUME NEW c \in Calls, Effect(c) PROVE DoneInv'
  <2>1. Marked' \subseteq Done'
    <3>1. Marked' \subseteq Done
      BY <1>2, MarkedStep DEF DoneInv
    <3> QED BY <3>1, DoneGrows
  <2>2. pc'[c] = "succeeded" => step'[c] \in Done'
    <3>1. ASSUME NEW ok \in BOOLEAN, Settle(c, ok), pc'[c] = "succeeded"
          PROVE  step'[c] \in Done'
      BY <1>t, <3>1, DoneStep DEF Settle, Goes
    <3>2. ASSUME NEW m \in Marks, Mark(c, m) PROVE pc'[c] # "succeeded"
      BY <1>t, <3>2 DEF Mark, Marks, Goes
    <3>3. Hop(c) => pc'[c] # "succeeded"
      BY <1>t DEF Hop, Hops, Goes
    <3>4. CASE Enter(c) \/ Announce(c) \/ Refuse(c) \/ Pay(c) \/ Advance(c) \/ Adopt(c)
      BY <1>t, <3>4 DEF Enter, Announce, Refuse, Pay, Advance, Adopt, Goes
    <3> QED BY <1>2, <3>1, <3>2, <3>3, <3>4 DEF Effect
  <2>3. ASSUME NEW d \in Calls, d # c, pc'[d] = "succeeded" PROVE step'[d] \in Done'
    BY <1>2, <2>3, OthersStay, DoneGrows DEF DoneInv
  <2> QED BY <2>1, <2>2, <2>3 DEF DoneInv
<1> QED BY <1>1, <1>2, StepEffects

(* Past the plan everything is done.                                        *)
LEMMA PastThePlan ==
    ASSUME TypeOK, MarkedInv, DoneInv, PlanInv, ~Replanned, NEW c \in Calls, pc[c] = "exit"
    PROVE  Range(plan) \subseteq Done
<1>1. /\ plan \in Surjection(1..Len(plan), Range(plan)) /\ Len(plan) \in Nat
  <2>1. plan \in [1..Len(plan) -> Range(plan)] /\ Len(plan) \in Nat
    BY DEF TypeOK, Range
  <2>2. \A t \in Range(plan) : \E i \in 1..Len(plan) : plan[i] = t
    BY DEF TypeOK, Range
  <2> QED BY <2>1, <2>2 DEF Surjection
<1>2. IsFiniteSet(1..Len(plan)) /\ Cardinality(1..Len(plan)) = Len(plan)
  <2>1. Len(plan) \in Int /\ 1 \in Int /\ Len(plan) \in Nat
    BY <1>1
  <2> QED BY <2>1, FS_Interval
<1>3. IsFiniteSet(Range(plan)) /\ Cardinality(Range(plan)) <= Len(plan)
  BY <1>1, <1>2, FS_Surjection
<1>4. Marked \in SUBSET Range(plan) /\ index > Len(plan)
  BY DEF PlanInv
<1>5. Cardinality(Marked) <= Cardinality(Range(plan))
      /\ (Cardinality(Range(plan)) = Cardinality(Marked) => Range(plan) = Marked)
  BY <1>3, <1>4, FS_Subset
<1>6. Cardinality(Marked) >= index - 1
  <2>1. IsFiniteSet({d \in Calls : pc[d] = "progress"})
    BY SomeFinite
  <2>2. Cardinality({d \in Calls : pc[d] = "progress"}) \in Nat /\ index \in Nat
    BY <2>1, FS_CardinalityType DEF TypeOK
  <2> QED BY <2>2 DEF MarkedInv, IndexCountsCompletions
<1>7. Cardinality(Marked) \in Nat /\ Cardinality(Range(plan)) \in Nat /\ index \in Nat
  BY <1>3, FS_CardinalityType DEF MarkedInv, TypeOK
<1>8. Range(plan) = Marked
  BY <1>1, <1>3, <1>4, <1>5, <1>6, <1>7
<1> QED BY <1>8 DEF DoneInv

LEMMA CompletionAtExit ==
    ASSUME TypeOK, [Next]_vars, status' = "completed", status # "completed"
    PROVE  (\E c \in Calls : pc[c] = "exit") /\ UNCHANGED <<plan, results>>
<1>1. ASSUME NEW c \in Calls, Exit(c)
      PROVE  (\E d \in Calls : pc[d] = "exit") /\ UNCHANGED <<plan, results>>
  BY <1>1 DEF Exit, Runs
<1>2. ASSUME NEW c \in Calls, LoopHead(c) \/ WaitOver(c) \/ HandOver(c) \/ RefusalArrives(c)
                              \/ ReplanFails(c)
      PROVE  FALSE
  BY <1>2 DEF LoopHead, WaitOver, BeginStep, HandOver, RefusalArrives, ReplanFails, context
<1>3. ASSUME NEW c \in Calls, MarkCompleted(c) \/ MarkFailed(c) \/ BackOff(c) \/ SleepOver(c)
                              \/ MoveOn(c)
      PROVE  FALSE
  BY <1>3 DEF MarkCompleted, MarkFailed, BackOff, SleepOver, MoveOn
<1>4. ASSUME NEW c \in Calls, NEW retryable \in BOOLEAN, AfterFailure(c, retryable) PROVE FALSE
  BY <1>4 DEF AfterFailure, Retry, Replan, GiveUp
<1>5. ASSUME NEW c \in Calls, Catch(c) PROVE FALSE
  BY <1>5 DEF Catch, ClosedAs
<1>6. ASSUME NEW c \in Calls, NEW ok \in BOOLEAN, StepSettles(c, ok) PROVE FALSE
  BY <1>6 DEF StepSettles
<1>7. ASSUME NEW c \in Calls, NEW p \in ReplanPlans, ReplanReturns(c, p) PROVE FALSE
  BY <1>7 DEF ReplanReturns
<1>8. ASSUME NEW c \in Calls, NEW withCallback \in BOOLEAN, Execute(c, withCallback) PROVE FALSE
  BY <1>8 DEF Execute
<1>9. ~(ExecuteRejected \/ Pause \/ Resume \/ Cancel \/ Abort \/ UNCHANGED vars)
  BY DEF ExecuteRejected, Pause, Resume, Cancel, Abort, vars, context
<1> QED
  BY <1>1, <1>2, <1>3, <1>4, <1>5, <1>6, <1>7, <1>8, <1>9, NextIs

LEMMA PlanInvStep == TypeOK /\ MarkedInv /\ DoneInv /\ PlanInv /\ [Next]_vars => PlanInv'
<1> SUFFICES ASSUME TypeOK, MarkedInv, DoneInv, PlanInv, [Next]_vars, ~Replanned'
             PROVE  PlanInv'
  BY DEF PlanInv
<1>t. pc \in [Calls -> PcValues] /\ index \in Nat /\ Len(plan) \in Nat
  BY DEF TypeOK
<1>r. ~Replanned
  BY ReplannedStays
<1>1. status' = "completed" => Range(plan') \subseteq Done'
  <2>1. CASE status' = "completed" /\ status # "completed"
    <3>1. UNCHANGED <<plan, results>> /\ \E c \in Calls : pc[c] = "exit"
      BY <2>1, CompletionAtExit
    <3> QED BY <1>r, <3>1, PastThePlan DEF Done
  <2>2. CASE status = "completed"
    <3>1. UNCHANGED plan
      <4>1. \A c \in Calls : pc[c] # "replan"
        BY <1>r DEF PlanInv
      <4> QED BY <4>1, StepEffects DEF Effect, Enter, Announce, Refuse, Settle, Mark, Pay, Advance,
                                       Adopt, Hop, Aside, stepVars
    <3> QED BY <1>r, <2>2, <3>1, DoneGrows DEF PlanInv
  <2> QED BY <2>1, <2>2
<1>2. CASE Aside
  BY <1>1, <1>2, <1>r DEF Aside, stepVars, PlanInv, Marked
<1>3. ASSUME NEW c \in Calls, Effect(c) PROVE PlanInv'
  <2>0. Marked \subseteq Range(plan) /\ pc[c] # "replan"
        /\ (pc[c] \in AtStep => step[c] \in Range(plan))
    BY <1>r DEF PlanInv
  <2>1. UNCHANGED plan /\ index' \in {index, index + 1}
    BY <1>3, <2>0 DEF Effect, Enter, Announce, Refuse, Settle, Mark, Pay, Advance, Adopt, Hop,
                      stepVars
  <2>2. Marked' \subseteq Range(plan')
    <3>1. "succeeded" \in AtStep
      BY DEF AtStep
    <3> QED BY <1>3, <2>0, <2>1, <3>1, MarkedStep
  <2>3. ASSUME NEW d \in Calls, d # c
        PROVE  /\ pc'[d] \in AtStep => step'[d] \in Range(plan')
               /\ pc'[d] # "replan"
               /\ pc'[d] = "exit" => index' > Len(plan')
    <3>1. pc'[d] = pc[d] /\ step'[d] = step[d]
      BY <1>3, <2>3, OthersStay
    <3> QED BY <1>r, <1>t, <2>1, <3>1 DEF PlanInv
  <2>4. /\ pc'[c] \in AtStep => step'[c] \in Range(plan')
        /\ pc'[c] # "replan"
        /\ pc'[c] = "exit" => index' > Len(plan')
    <3>1. CASE Enter(c) \/ Refuse(c) \/ Adopt(c)
      BY <1>t, <2>0, <3>1 DEF Enter, Refuse, Adopt, Goes, AtStep
    <3>2. CASE Announce(c)
      <4>1. pc'[c] = "announced" /\ step'[c] = plan[index] /\ plan[index] \in Range(plan)
        BY <1>t, <3>2 DEF Announce, Goes, TypeOK
      <4> QED BY <2>1, <4>1
    <3>3. ASSUME NEW ok \in BOOLEAN, Settle(c, ok)
          PROVE  /\ pc'[c] \in AtStep => step'[c] \in Range(plan')
                 /\ pc'[c] # "replan" /\ pc'[c] # "exit"
      BY <1>t, <2>0, <2>1, <3>3 DEF Settle, Goes, AtStep
    <3>4. ASSUME NEW m \in Marks, Mark(c, m)
          PROVE  /\ pc'[c] \in AtStep => step'[c] \in Range(plan')
                 /\ pc'[c] # "replan" /\ pc'[c] # "exit"
      <4>1. m[1] \in AtStep /\ m[3] # "replan" /\ m[3] # "exit"
        BY DEF Marks, AtStep
      <4> QED BY <1>t, <2>0, <2>1, <3>4, <4>1 DEF Mark, Goes
    <3>5. CASE Pay(c)
      BY <1>t, <2>0, <2>1, <3>5 DEF Pay, Goes, AtStep
    <3>6. CASE Advance(c)
      BY <1>t, <2>1, <3>6 DEF Advance, Goes, AtStep
    <3>7. CASE Hop(c)
      <4>1. PICK q \in Hops(pc[c]) : Goes(c, q)
        BY <3>7 DEF Hop
      <4>2. pc'[c] = q /\ UNCHANGED <<step, plan, index>>
        BY <1>t, <3>7, <4>1 DEF Hop, Goes, stepVars
      <4>3. q \in AtStep => pc[c] \in AtStep
        BY <4>1 DEF Hops, AtStep
      <4>4. pc'[c] # "replan"
        <5>1. ASSUME history' = Append(history, "replan") PROVE Replanned'
          <6>1. "replan" \in HistoryEntries
            BY DEF HistoryEntries
          <6> QED BY <5>1, <6>1, HistoryGrows DEF Replanned
        <5> QED BY <3>7, <5>1 DEF Hop
      <4> QED BY <2>0, <3>7, <4>2, <4>3, <4>4 DEF Hop
    <3> QED BY <1>3, <3>1, <3>2, <3>3, <3>4, <3>5, <3>6, <3>7 DEF Effect
  <2> QED BY <1>1, <2>2, <2>3, <2>4 DEF PlanInv
<1> QED BY <1>2, <1>3, StepEffects

LEMMA PlanInvInit == Init => DoneInv /\ PlanInv
BY DEF Init, DoneInv, PlanInv, Marked, AtStep

(* As long as nothing was replanned, 'completed' means that every step of   *)
(* the plan has succeeded, for every plan, retry, pause and number of calls.*)
THEOREM CompletedMeansDone == Spec => []PlanDoneUnlessReplanned
<1>1. Spec => []MarkedInv
  BY TypeCorrect, MarkedInvInit, MarkedInvStep, PTL DEF Spec
<1>2. Spec => []DoneInv
  BY TypeCorrect, PlanInvInit, DoneInvStep, PTL DEF Spec
<1>3. Spec => []PlanInv
  BY <1>1, <1>2, TypeCorrect, PlanInvInit, PlanInvStep, PTL DEF Spec
<1>4. PlanInv => PlanDoneUnlessReplanned
  BY DEF PlanInv, PlanDoneUnlessReplanned, Replanned
<1> QED BY <1>3, <1>4, PTL

(* The index counts what is marked completed in every state, and a          *)
(* completed execution that was not replanned has done its whole plan.      *)
THEOREM CompletionIsEarned == Spec => []CompletedMeansEveryStepSucceeded
<1>1. Spec => []MarkedInv
  BY TypeCorrect, MarkedInvInit, MarkedInvStep, PTL DEF Spec
<1>2. MarkedInv /\ PlanDoneUnlessReplanned => CompletedMeansEveryStepSucceeded
  BY DEF MarkedInv, CompletedMeansEveryStepSucceeded
<1> QED BY <1>1, <1>2, CompletedMeansDone, PTL

-----------------------------------------------------------------------------
(* What has succeeded: the list the progress and the checkpoints are made   *)
(* of, and the statistics' number of it.                                    *)

Successes == [step : StepIds, ok : {TRUE}, by : Calls]

LEMMA SucceededType ==
    ASSUME NEW rs \in Seq(Results)
    PROVE  /\ Succeeded(rs) \in Seq(StepIds)
           /\ KeepIn(rs, Successes) \in Seq(Successes)
           /\ Len(Succeeded(rs)) = Len(KeepIn(rs, Successes))
           /\ \A i \in 1..Len(Succeeded(rs)) : Succeeded(rs)[i] = KeepIn(rs, Successes)[i].step
<1> DEFINE ok == KeepIn(rs, Successes)
<1>1. ok \in Seq(Results \cap Successes)
  BY KeepInRange
<1>2. Results \cap Successes = Successes
  BY DEF Results, Successes
<1>3. ok \in Seq(Successes) /\ Len(ok) \in Nat /\ \A i \in 1..Len(ok) : ok[i].step \in StepIds
  <2>1. ok \in Seq(Successes)
    BY <1>1, <1>2
  <2> HIDE DEF ok
  <2>2. Len(ok) \in Nat /\ \A i \in 1..Len(ok) : ok[i] \in Successes
    BY <2>1
  <2> QED BY <2>1, <2>2 DEF Successes
<1>4. Succeeded(rs) = [i \in 1..Len(ok) |-> ok[i].step]
  BY DEF Succeeded, Successes
<1> HIDE DEF ok
<1>5. Succeeded(rs) \in [1..Len(ok) -> StepIds]
  BY <1>3, <1>4
<1>6. Succeeded(rs) \in Seq(StepIds) /\ Len(Succeeded(rs)) = Len(ok)
  BY <1>3, <1>5
<1> QED BY <1>3, <1>4, <1>6 DEF ok

(* A success is added at the end; a failure changes nothing.                *)
LEMMA SucceededAppend ==
    ASSUME NEW rs \in Seq(Results), NEW r \in Results
    PROVE  Succeeded(Append(rs, r)) =
              IF r.ok THEN Append(Succeeded(rs), r.step) ELSE Succeeded(rs)
<1> DEFINE old == KeepIn(rs, Successes)
           new == KeepIn(Append(rs, r), Successes)
           n == Len(old)
<1>1. /\ old \in Seq(Successes) /\ n \in Nat
      /\ Succeeded(rs) \in Seq(StepIds) /\ Len(Succeeded(rs)) = n
      /\ \A i \in 1..n : Succeeded(rs)[i] = old[i].step
  BY SucceededType
<1>2. Append(rs, r) \in Seq(Results)
  OBVIOUS
<1>3. /\ Succeeded(Append(rs, r)) \in Seq(StepIds) /\ Len(Succeeded(Append(rs, r))) = Len(new)
      /\ \A i \in 1..Len(new) : Succeeded(Append(rs, r))[i] = new[i].step
  BY <1>2, SucceededType
<1>4. new = IF r \in Successes THEN Append(old, r) ELSE old
  BY KeepInAppend
<1>5. r \in Successes <=> r.ok
  BY DEF Results, Successes
<1> HIDE DEF old, new, n
<1>6. CASE r.ok
  <2>1. new = Append(old, r) /\ r \in Successes
    BY <1>4, <1>5, <1>6
  <2>2. Len(new) = n + 1 /\ new[n + 1] = r /\ \A i \in 1..n : new[i] = old[i]
    BY <1>1, <2>1 DEF n
  <2>3. /\ Append(Succeeded(rs), r.step) \in Seq(StepIds)
        /\ Len(Append(Succeeded(rs), r.step)) = n + 1
        /\ Append(Succeeded(rs), r.step)[n + 1] = r.step
        /\ \A i \in 1..n : Append(Succeeded(rs), r.step)[i] = Succeeded(rs)[i]
    BY <1>1 DEF Results
  <2>4. \A i \in 1..(n + 1) : Succeeded(Append(rs, r))[i] = Append(Succeeded(rs), r.step)[i]
    <3> TAKE i \in 1..(n + 1)
    <3>1. CASE i = n + 1
      BY <1>3, <2>2, <2>3, <3>1
    <3>2. CASE i \in 1..n
      BY <1>1, <1>3, <2>2, <2>3, <3>2
    <3> QED BY <1>1, <3>1, <3>2
  <2>5. Succeeded(Append(rs, r)) = Append(Succeeded(rs), r.step)
    BY <1>3, <2>2, <2>3, <2>4, SeqEqual
  <2> QED BY <1>6, <2>5
<1>7. CASE ~r.ok
  <2>1. new = old
    BY <1>4, <1>5, <1>7
  <2>2. Succeeded(Append(rs, r)) = Succeeded(rs)
    BY <2>1 DEF Succeeded, Successes, new, old
  <2> QED BY <1>7, <2>2
<1> QED BY <1>6, <1>7

LEMMA SucceededRange ==
    ASSUME NEW rs \in Seq(Results)
    PROVE  Range(Succeeded(rs)) = {rs[i].step : i \in {j \in 1..Len(rs) : rs[j].ok}}
<1> DEFINE ok == KeepIn(rs, Successes)
<1>1. Range(ok) = Range(rs) \cap Successes
  BY KeepInRange
<1>2. /\ ok \in Seq(Successes) /\ Succeeded(rs) \in Seq(StepIds)
      /\ Len(Succeeded(rs)) = Len(ok)
      /\ \A i \in 1..Len(ok) : Succeeded(rs)[i] = ok[i].step
  BY SucceededType
<1> HIDE DEF ok
<1>3. Range(Succeeded(rs)) = {r.step : r \in Range(ok)}
  BY <1>2 DEF Range
<1>4. \A i \in 1..Len(rs) : rs[i].ok <=> rs[i] \in Successes
  <2>1. \A r \in Results : r.ok <=> r \in Successes
    BY DEF Results, Successes
  <2> QED BY <2>1
<1>5. Range(rs) = {rs[i] : i \in 1..Len(rs)}
  BY DEF Range
<1>6. {r.step : r \in Range(rs) \cap Successes} =
         {rs[i].step : i \in {j \in 1..Len(rs) : rs[j].ok}}
  BY <1>4, <1>5
<1> QED BY <1>1, <1>3, <1>6

-----------------------------------------------------------------------------
(* As long as execute() was called once no step is counted twice: the call  *)
(* that settles a step would be the one that saw it succeed before.         *)

ByInv == \A i \in 1..Len(results) : results[i].by \in Accepted

SuccessInv ==
    CalledOnce => IsFiniteSet(Done) /\ Cardinality(Done) = Len(Succeeded(results))

(* What a settled step does to the results.                                 *)
LEMMA SettledIs ==
    ASSUME TypeOK, NEW c \in Calls, NEW ok \in BOOLEAN, Settle(c, ok)
    PROVE  /\ step[c] \in StepIds /\ results \in Seq(Results) /\ results' \in Seq(Results)
           /\ [step |-> step[c], ok |-> ok, by |-> c] \in Results
           /\ results' = Append(results, [step |-> step[c], ok |-> ok, by |-> c])
           /\ Len(results) \in Nat /\ Len(results') = Len(results) + 1
           /\ results'[Len(results) + 1] = [step |-> step[c], ok |-> ok, by |-> c]
           /\ \A i \in 1..Len(results) : results'[i] = results[i]
<1> DEFINE r == [step |-> step[c], ok |-> ok, by |-> c]
           n == Len(results)
<1>1. pc[c] = "step" /\ results' = Append(results, r)
  BY DEF Settle
<1>2. step[c] \in StepIds
  BY <1>1, StepIsTyped DEF AtStep
<1>3. r \in Results /\ results \in Seq(Results)
  BY <1>2 DEF Results, TypeOK
<1> HIDE DEF r
<1>4. /\ n \in Nat /\ results' \in Seq(Results) /\ Len(results') = n + 1
      /\ results'[n + 1] = r /\ \A i \in 1..n : results'[i] = results[i]
  BY <1>1, <1>3
<1> QED BY <1>1, <1>2, <1>3, <1>4 DEF r

LEMMA ByInvStep == TypeOK /\ ByInv /\ [Next]_vars => ByInv'
<1> SUFFICES ASSUME TypeOK, ByInv, [Next]_vars PROVE ByInv'
  OBVIOUS
<1>1. Accepted \subseteq Accepted'
  BY CallsGoOn DEF Accepted
<1>2. CASE UNCHANGED results
  BY <1>1, <1>2 DEF ByInv
<1>3. ASSUME NEW c \in Calls, NEW ok \in BOOLEAN, Settle(c, ok) PROVE ByInv'
  <2>1. c \in Accepted
    BY <1>3 DEF Settle, Accepted
  <2>2. \A i \in 1..(Len(results) + 1) :
           results'[i].by = c \/ (i \in 1..Len(results) /\ results'[i] = results[i])
    <3>1. [step |-> step[c], ok |-> ok, by |-> c].by = c
      OBVIOUS
    <3>2. /\ Len(results) \in Nat /\ results'[Len(results) + 1].by = c
          /\ \A i \in 1..Len(results) : results'[i] = results[i]
      BY <1>3, <3>1, SettledIs
    <3> QED BY <3>2
  <2>3. Len(results') = Len(results) + 1
    BY <1>3, SettledIs
  <2> QED BY <1>1, <2>1, <2>2, <2>3 DEF ByInv
<1> QED
  BY <1>2, <1>3, StepEffects
     DEF Effect, Enter, Announce, Refuse, Mark, Pay, Advance, Adopt, Hop, Aside, stepVars

LEMMA SuccessInvInit == Init => SuccessInv /\ ByInv
<1> SUFFICES ASSUME Init PROVE SuccessInv /\ ByInv
  OBVIOUS
<1>1. results = <<>>
  BY DEF Init
<1>2. Len(Succeeded(<<>>)) = 0
  <2>1. Len(KeepIn(<<>>, Successes)) = 0
    BY KeepInEmpty
  <2>2. <<>> \in Seq(Results)
    OBVIOUS
  <2> QED BY <2>1, <2>2, SucceededType
<1>3. Done = {}
  BY <1>1 DEF Done
<1>4. ByInv
  BY <1>1 DEF ByInv
<1> QED BY <1>1, <1>2, <1>3, <1>4, FS_EmptySet DEF SuccessInv

LEMMA SuccessInvStep == TypeOK /\ StepInv /\ ByInv /\ SuccessInv /\ [Next]_vars => SuccessInv'
<1> SUFFICES ASSUME TypeOK, StepInv, ByInv, SuccessInv, [Next]_vars, CalledOnce'
             PROVE  IsFiniteSet(Done') /\ Cardinality(Done') = Len(Succeeded(results'))
  BY DEF SuccessInv
<1>1. CalledOnce /\ IsFiniteSet(Done) /\ Cardinality(Done) = Len(Succeeded(results))
  BY CalledOnceBefore DEF SuccessInv
<1>2. CASE UNCHANGED results
  BY <1>1, <1>2 DEF Done
<1>3. ASSUME NEW c \in Calls, NEW ok \in BOOLEAN, Settle(c, ok)
      PROVE  IsFiniteSet(Done') /\ Cardinality(Done') = Len(Succeeded(results'))
  <2> DEFINE s == step[c]
             r == [step |-> s, ok |-> ok, by |-> c]
  <2>1. s \in StepIds /\ r \in Results /\ results \in Seq(Results) /\ results' = Append(results, r)
    BY <1>3, SettledIs
  <2>2. Succeeded(results') = IF ok THEN Append(Succeeded(results), s) ELSE Succeeded(results)
    BY <2>1, SucceededAppend
  <2>3. /\ Len(Succeeded(results)) \in Nat
        /\ Len(Append(Succeeded(results), s)) = Len(Succeeded(results)) + 1
    BY <2>1, SucceededType
  <2>4. Done' = IF ok THEN Done \cup {s} ELSE Done
    BY <1>3, DoneStep
  <2>5. s \notin Done
    <3> SUFFICES ASSUME NEW i \in 1..Len(results), results[i].ok, results[i].step = s
                 PROVE  FALSE
      BY DEF Done
    <3>1. pc[c] = "step" /\ c \in Accepted
      BY <1>3 DEF Settle, Accepted
    <3>2. results[i].by = c
      BY <1>1, <3>1 DEF ByInv, CalledOnce
    <3> QED BY <3>1, <3>2 DEF StepInv, Won
  <2> QED BY <1>1, <2>2, <2>3, <2>4, <2>5, FS_AddElement
<1> QED
  BY <1>2, <1>3, StepEffects
     DEF Effect, Enter, Announce, Refuse, Mark, Pay, Advance, Adopt, Hop, Aside, stepVars

-----------------------------------------------------------------------------
(* Checkpoints.  What one lists as completed stays the beginning of what    *)
(* has succeeded, because successes are only ever added at the end; and its *)
(* lists make up the plan, because every result is of a step of the plan as *)
(* long as nothing was replanned.                                           *)

Checkpoints ==
    [kind : {"initial", "step"}, current : StepIds, completed : Seq(StepIds),
     remaining : Seq(StepIds), statsCompleted : Nat]

(* What CheckpointsTellTheRun says of one checkpoint, of the steps that     *)
(* have succeeded, the plan, whether it was replanned, and whether execute()*)
(* was called once.                                                         *)
Tells(k, succeeded, steps, replanned, once) ==
    k.kind = "step" =>
        /\ Len(k.completed) <= Len(succeeded)
        /\ k.completed = SubSeq(succeeded, 1, Len(k.completed))
        /\ Range(k.completed) \cap Range(k.remaining) = {}
        /\ k.current \notin Range(k.remaining)
        /\ ~replanned =>
              Range(k.completed) \cup Range(k.remaining) \cup {k.current} = Range(steps)
        /\ once => k.statsCompleted = Len(k.completed)

CheckpointInv ==
    /\ checkpoints \in Seq(Checkpoints)
    /\ ~Replanned => Done \subseteq Range(plan)
    /\ \A i \in 1..Len(checkpoints) :
          Tells(checkpoints[i], Succeeded(results), plan, Replanned, CalledOnce)

LEMMA InitialCheckpointType ==
    ASSUME NEW p \in Seq(StepIds), p # <<>>
    PROVE  InitialCheckpoint(p) \in Checkpoints /\ InitialCheckpoint(p).kind = "initial"
<1>1. p[1] \in StepIds /\ Tail(p) \in Seq(StepIds) /\ <<>> \in Seq(StepIds)
  OBVIOUS
<1> QED BY <1>1 DEF InitialCheckpoint, Checkpoints

(* The statistics count the last result of each step; when no step is run   *)
(* again after a success, these are the successes.                          *)
LEMMA StatsCountSuccesses ==
    ASSUME NEW rs \in Seq(Results),
           \A i, j \in 1..Len(rs) : (rs[i].ok /\ rs[i].step = rs[j].step) => j <= i
    PROVE  StatsCompleted(rs) = Cardinality({rs[i].step : i \in {j \in 1..Len(rs) : rs[j].ok}})
<1> DEFINE done == {rs[i].step : i \in {j \in 1..Len(rs) : rs[j].ok}}
           last == {s \in StepIds :
                       \E i \in 1..Len(rs) :
                          /\ rs[i].step = s /\ rs[i].ok
                          /\ \A j \in (i + 1)..Len(rs) : rs[j].step # s}
<1>1. \A i \in 1..Len(rs) : rs[i] \in Results /\ rs[i].step \in StepIds
  <2>1. \A i \in 1..Len(rs) : rs[i] \in Results
    OBVIOUS
  <2> QED BY <2>1 DEF Results
<1>2. last \subseteq done
  OBVIOUS
<1>3. done \subseteq last
  <2> SUFFICES ASSUME NEW i \in 1..Len(rs), rs[i].ok
               PROVE  rs[i].step \in last
    OBVIOUS
  <2>1. \A j \in (i + 1)..Len(rs) : rs[j].step # rs[i].step
    <3> SUFFICES ASSUME NEW j \in (i + 1)..Len(rs), rs[j].step = rs[i].step PROVE FALSE
      OBVIOUS
    <3>1. j \in 1..Len(rs) /\ ~(j <= i)
      OBVIOUS
    <3> QED BY <3>1
  <2> QED BY <1>1, <2>1
<1> QED BY <1>2, <1>3 DEF StatsCompleted

(* What a step's checkpoint says of the results it was taken with.          *)
LEMMA StepCheckpointIs ==
    ASSUME NEW rs \in Seq(Results), NEW s \in StepIds, plan \in Seq(StepIds)
    PROVE  LET k == StepCheckpoint(s, rs) IN
           /\ k.kind = "step" /\ k.current = s
           /\ k.completed = Succeeded(rs) /\ k.completed \in Seq(StepIds)
           /\ k.remaining \in Seq(StepIds)
           /\ Range(k.remaining) = Range(plan) \ (Range(Succeeded(rs)) \cup {s})
           /\ k.statsCompleted = StatsCompleted(rs)
<1> DEFINE T == StepIds \ (Range(Succeeded(rs)) \cup {s})
<1>1. KeepIn(plan, T) \in Seq(StepIds \cap T) /\ Range(KeepIn(plan, T)) = Range(plan) \cap T
  BY KeepInRange
<1>2. Range(plan) \subseteq StepIds
  BY DEF Range
<1>3. Succeeded(rs) \in Seq(StepIds)
  BY SucceededType
<1>4. Range(plan) \cap T = Range(plan) \ (Range(Succeeded(rs)) \cup {s})
  BY <1>2
<1>5. KeepIn(plan, T) \in Seq(StepIds)
  BY <1>1
<1> QED BY <1>1, <1>3, <1>4, <1>5 DEF StepCheckpoint

LEMMA PrefixOfAppend ==
    ASSUME NEW S, NEW t \in Seq(S), NEW e \in S, NEW k \in Nat, k <= Len(t)
    PROVE  SubSeq(Append(t, e), 1, k) = SubSeq(t, 1, k)
<1>1. /\ Append(t, e) \in Seq(S) /\ Len(Append(t, e)) = Len(t) + 1 /\ Len(t) \in Nat
      /\ \A i \in 1..Len(t) : Append(t, e)[i] = t[i]
  OBVIOUS
<1> QED BY <1>1

LEMMA StatsType ==
    ASSUME NEW rs \in Seq(Results)
    PROVE  StatsCompleted(rs) \in Nat
<1> DEFINE all == {rs[i].step : i \in 1..Len(rs)}
           last == {s \in StepIds :
                       \E i \in 1..Len(rs) :
                          /\ rs[i].step = s /\ rs[i].ok
                          /\ \A j \in (i + 1)..Len(rs) : rs[j].step # s}
           f == [i \in 1..Len(rs) |-> rs[i].step]
<1>1. IsFiniteSet(1..Len(rs))
  <2>1. Len(rs) \in Int /\ 1 \in Int
    OBVIOUS
  <2> QED BY <2>1, FS_Interval
<1>2. f \in Surjection(1..Len(rs), all)
  BY DEF Surjection
<1>3. IsFiniteSet(all)
  BY <1>1, <1>2, FS_Surjection
<1>4. last \in SUBSET all
  OBVIOUS
<1>5. IsFiniteSet(last)
  BY <1>3, <1>4, FS_Subset
<1> QED BY <1>5, FS_CardinalityType DEF StatsCompleted

(* More successes, a replan, or a further call leave a checkpoint true.     *)
LEMMA GoesOnTelling ==
    ASSUME NEW c \in Checkpoints, NEW old \in Seq(StepIds), NEW new, NEW steps, NEW p,
           NEW replanned \in BOOLEAN, NEW later \in BOOLEAN,
           NEW once \in BOOLEAN, NEW still \in BOOLEAN,
           Tells(c, old, steps, replanned, once),
           new = old \/ \E e \in StepIds : new = Append(old, e),
           replanned => later, ~later => p = steps, still => once
    PROVE  Tells(c, new, p, later, still)
<1> SUFFICES ASSUME c.kind = "step"
             PROVE  Tells(c, new, p, later, still)
  BY DEF Tells
<1> DEFINE k == Len(c.completed)
<1>1. k \in Nat /\ k <= Len(old) /\ c.completed = SubSeq(old, 1, k)
  <2>1. c.completed \in Seq(StepIds)
    BY DEF Checkpoints
  <2> QED BY <2>1 DEF Tells
<1> HIDE DEF k
<1>2. k <= Len(new) /\ SubSeq(new, 1, k) = SubSeq(old, 1, k)
  <2>1. CASE new = old
    BY <1>1, <2>1
  <2>2. ASSUME NEW e \in StepIds, new = Append(old, e)
        PROVE  k <= Len(new) /\ SubSeq(new, 1, k) = SubSeq(old, 1, k)
    <3>1. SubSeq(new, 1, k) = SubSeq(old, 1, k)
      BY <1>1, <2>2, PrefixOfAppend
    <3>2. Len(new) = Len(old) + 1 /\ Len(old) \in Nat
      BY <2>2
    <3> QED BY <1>1, <3>1, <3>2
  <2> QED BY <2>1, <2>2
<1> QED BY <1>1, <1>2 DEF Tells, k

(* A result keeps the older checkpoints true, and adds one that is.         *)
LEMMA CheckpointRecord ==
    ASSUME TypeOK, PlanInv, CheckpointInv, NoStepSucceedsTwice', ByInv', SuccessInv',
           [Next]_vars, NEW c \in Calls, NEW ok \in BOOLEAN, StepSettles(c, ok)
    PROVE  CheckpointInv'
<1> DEFINE s == step[c]
<1>0. Settle(c, ok) /\ pc[c] = "step" /\ UNCHANGED <<plan, step, history>>
  BY DEF StepSettles, Continues, Settle
<1>1. /\ s \in StepIds /\ results \in Seq(Results) /\ results' \in Seq(Results)
      /\ \E r \in Results : r.ok = ok /\ r.step = s /\ results' = Append(results, r)
      /\ plan \in Seq(StepIds)
  <2>1. [step |-> s, ok |-> ok, by |-> c] \in Results
    BY <1>0, SettledIs
  <2> QED BY <1>0, <2>1, SettledIs DEF TypeOK
<1>2. PICK rs \in Seq(Results) : rs = results'
  BY <1>1
<1>3. PICK t \in StepIds : t = s
  BY <1>1
<1> DEFINE old == Succeeded(results)
           new == Succeeded(rs)
           k == StepCheckpoint(t, rs)
           n == Len(checkpoints)
<1>4. /\ old \in Seq(StepIds) /\ new \in Seq(StepIds)
      /\ new = old \/ \E e \in StepIds : new = Append(old, e)
  BY <1>1, <1>2, SucceededType, SucceededAppend
<1>r. Replanned' <=> Replanned
  BY <1>0 DEF Replanned
<1>o. CalledOnce' => CalledOnce
  BY CalledOnceBefore
<1>5. Done' = Range(new) /\ Done' \subseteq Done \cup {s}
  <2>1. Done' = Range(new)
    BY <1>2, SucceededRange DEF Done
  <2> QED BY <1>0, <2>1, DoneStep
<1>6. ~Replanned' => Done' \subseteq Range(plan) /\ s \in Range(plan)
  BY <1>0, <1>r, <1>5 DEF CheckpointInv, PlanInv, AtStep
<1>7. ASSUME NEW i \in 1..n
      PROVE  Tells(checkpoints[i], new, plan, Replanned', CalledOnce')
  <2>1. checkpoints[i] \in Checkpoints /\ Tells(checkpoints[i], old, plan, Replanned, CalledOnce)
    BY <1>7 DEF CheckpointInv
  <2>2. Replanned \in BOOLEAN /\ Replanned' \in BOOLEAN
    BY DEF Replanned
  <2>3. CalledOnce \in BOOLEAN /\ CalledOnce' \in BOOLEAN
    BY DEF CalledOnce
  <2> QED BY <1>4, <1>r, <1>o, <2>1, <2>2, <2>3, GoesOnTelling
<1>8. /\ k.kind = "step" /\ k.current = s /\ k.completed = new /\ k.completed \in Seq(StepIds)
      /\ k.remaining \in Seq(StepIds) /\ Range(k.remaining) = Range(plan) \ (Range(new) \cup {s})
      /\ CalledOnce' => k.statsCompleted = Len(new)
  <2>1. /\ k.kind = "step" /\ k.current = s /\ k.completed = new /\ k.completed \in Seq(StepIds)
        /\ k.remaining \in Seq(StepIds) /\ Range(k.remaining) = Range(plan) \ (Range(new) \cup {s})
        /\ k.statsCompleted = StatsCompleted(rs)
    BY <1>1, <1>3, StepCheckpointIs
  <2>2. ASSUME CalledOnce' PROVE StatsCompleted(rs) = Len(new)
    <3>1. \A i, j \in 1..Len(rs) : rs[i].by = rs[j].by
      BY <1>2, <2>2 DEF ByInv, CalledOnce
    <3>2. StatsCompleted(rs) = Cardinality(Done')
      BY <1>2, <3>1, StatsCountSuccesses DEF NoStepSucceedsTwice, Done
    <3>3. Cardinality(Done') = Len(new)
      BY <1>2, <2>2 DEF SuccessInv
    <3> QED BY <3>2, <3>3
  <2> QED BY <2>1, <2>2
<1>9. k \in Checkpoints
  <2>1. k.statsCompleted \in Nat
    <3>1. k.statsCompleted = StatsCompleted(rs)
      BY <1>1, <1>3, StepCheckpointIs
    <3> QED BY <3>1, StatsType
  <2> QED BY <1>1, <1>4, <1>8, <2>1 DEF Checkpoints, StepCheckpoint
<1>10. Tells(k, new, plan, Replanned', CalledOnce')
  <2>1. SubSeq(new, 1, Len(new)) = new /\ Len(new) <= Len(new)
    BY <1>4
  <2> QED BY <1>1, <1>5, <1>6, <1>8, <2>1 DEF Tells
<1>11. checkpoints' = Append(checkpoints, k) \/ checkpoints' = checkpoints
  BY <1>2, <1>3 DEF StepSettles
<1> HIDE DEF k, new, old, n
<1>12. n \in Nat /\ checkpoints' \in Seq(Checkpoints)
       /\ \A i \in 1..Len(checkpoints') : checkpoints'[i] = k \/ (i \in 1..n /\ checkpoints'[i] = checkpoints[i])
  <2>1. checkpoints \in Seq(Checkpoints) /\ n \in Nat
    BY DEF CheckpointInv, n
  <2>2. CASE checkpoints' = checkpoints
    BY <2>1, <2>2 DEF n
  <2>3. CASE checkpoints' = Append(checkpoints, k)
    <3>1. /\ checkpoints' \in Seq(Checkpoints) /\ Len(checkpoints') = n + 1
          /\ \A i \in 1..n : checkpoints'[i] = checkpoints[i]
          /\ checkpoints'[n + 1] = k
      BY <1>9, <2>1, <2>3 DEF n
    <3> QED BY <2>1, <3>1
  <2> QED BY <1>11, <2>2, <2>3
<1>13. Succeeded(results') = new /\ plan' = plan
  BY <1>0, <1>2 DEF new
<1> QED BY <1>6, <1>7, <1>10, <1>12, <1>13 DEF CheckpointInv

(* A new plan's checkpoint is an initial one.                               *)
LEMMA CheckpointPlan ==
    ASSUME NEW cs \in Seq(Checkpoints), NEW p \in Seq(StepIds)
    PROVE  /\ WithInitialCheckpoint(cs, p) \in Seq(Checkpoints)
           /\ \A i \in 1..Len(WithInitialCheckpoint(cs, p)) :
                 \/ WithInitialCheckpoint(cs, p)[i].kind = "initial"
                 \/ i \in 1..Len(cs) /\ WithInitialCheckpoint(cs, p)[i] = cs[i]
<1>1. CASE p = <<>>
  BY <1>1 DEF WithInitialCheckpoint
<1>2. CASE p # <<>>
  <2> DEFINE k == InitialCheckpoint(p)
  <2>1. k \in Checkpoints /\ k.kind = "initial"
    BY <1>2, InitialCheckpointType
  <2>2. WithInitialCheckpoint(cs, p) = Append(cs, k)
    BY <1>2 DEF WithInitialCheckpoint
  <2> HIDE DEF k
  <2>3. /\ Append(cs, k) \in Seq(Checkpoints) /\ Len(Append(cs, k)) = Len(cs) + 1 /\ Len(cs) \in Nat
        /\ Append(cs, k)[Len(cs) + 1] = k /\ \A i \in 1..Len(cs) : Append(cs, k)[i] = cs[i]
    BY <2>1
  <2> QED BY <2>1, <2>2, <2>3
<1> QED BY <1>1, <1>2

LEMMA CheckpointInvInit == Init => CheckpointInv
<1> SUFFICES ASSUME Init PROVE CheckpointInv
  OBVIOUS
<1>1. plan \in Seq(StepIds) /\ Done = {} /\ <<>> \in Seq(Checkpoints)
  BY LoopAssumption DEF Init, LoopAssumption, Done
<1>2. checkpoints = WithInitialCheckpoint(<<>>, plan)
  BY DEF Init
<1>3. /\ checkpoints \in Seq(Checkpoints)
      /\ \A i \in 1..Len(checkpoints) : checkpoints[i].kind = "initial"
  <2> DEFINE cs == WithInitialCheckpoint(<<>>, plan)
  <2>1. /\ cs \in Seq(Checkpoints)
        /\ \A i \in 1..Len(cs) : cs[i].kind = "initial" \/ i \in 1..Len(<<>>)
    BY <1>1, CheckpointPlan
  <2>2. 1..Len(<<>>) = {}
    OBVIOUS
  <2> QED BY <1>2, <2>1, <2>2
<1> QED BY <1>1, <1>3 DEF CheckpointInv, Tells

(* Which actions touch what the checkpoints tell.                           *)
LEMMA CheckpointEffects ==
    ASSUME [Next]_vars
    PROVE  \/ UNCHANGED <<plan, results, checkpoints>>
           \/ \E c \in Calls, ok \in BOOLEAN : StepSettles(c, ok)
           \/ \E c \in Calls, p \in ReplanPlans : ReplanReturns(c, p)
<1>1. ASSUME NEW c \in Calls, LoopHead(c) \/ WaitOver(c) \/ HandOver(c) \/ RefusalArrives(c)
                              \/ ReplanFails(c)
      PROVE  UNCHANGED <<plan, results, checkpoints>>
  BY <1>1 DEF LoopHead, WaitOver, BeginStep, HandOver, RefusalArrives, ReplanFails, context
<1>2. ASSUME NEW c \in Calls, MarkCompleted(c) \/ MarkFailed(c) \/ BackOff(c) \/ SleepOver(c)
                              \/ MoveOn(c) \/ Exit(c) \/ Catch(c)
      PROVE  UNCHANGED <<plan, results, checkpoints>>
  BY <1>2 DEF MarkCompleted, MarkFailed, BackOff, SleepOver, MoveOn, Exit, Catch
<1>3. ASSUME NEW c \in Calls, NEW retryable \in BOOLEAN, AfterFailure(c, retryable)
      PROVE  UNCHANGED <<plan, results, checkpoints>>
  BY <1>3 DEF AfterFailure
<1>4. ASSUME NEW c \in Calls, NEW withCallback \in BOOLEAN, Execute(c, withCallback)
      PROVE  UNCHANGED <<plan, results, checkpoints>>
  BY <1>4 DEF Execute
<1>5. CASE ExecuteRejected \/ Pause \/ Resume \/ Cancel \/ Abort \/ UNCHANGED vars
  BY <1>5 DEF ExecuteRejected, Pause, Resume, Cancel, Abort, vars, context
<1> QED BY <1>1, <1>2, <1>3, <1>4, <1>5, NextIs

LEMMA CheckpointInvStep ==
    TypeOK /\ PlanInv /\ CheckpointInv /\ NoStepSucceedsTwice' /\ ByInv' /\ SuccessInv'
        /\ [Next]_vars => CheckpointInv'
<1> SUFFICES ASSUME TypeOK, PlanInv, CheckpointInv, NoStepSucceedsTwice', ByInv', SuccessInv',
                    [Next]_vars
             PROVE  CheckpointInv'
  OBVIOUS
<1>m. (Replanned => Replanned') /\ (CalledOnce' => CalledOnce)
  BY ReplannedStays, CalledOnceBefore
<1>1. CASE UNCHANGED <<plan, results, checkpoints>>
  BY <1>1, <1>m DEF CheckpointInv, Tells, Done
<1>2. ASSUME NEW c \in Calls, NEW ok \in BOOLEAN, StepSettles(c, ok) PROVE CheckpointInv'
  BY <1>2, CheckpointRecord
<1>3. ASSUME NEW c \in Calls, NEW p \in ReplanPlans, ReplanReturns(c, p) PROVE CheckpointInv'
  <2>1. Replanned /\ Replanned' /\ UNCHANGED results
    BY <1>3, <1>m DEF ReplanReturns, Continues, PlanInv
  <2>2. p \in Seq(StepIds) /\ checkpoints \in Seq(Checkpoints)
        /\ checkpoints' = WithInitialCheckpoint(checkpoints, p)
    BY <1>3, LoopAssumption DEF LoopAssumption, CheckpointInv, ReplanReturns
  <2>3. /\ checkpoints' \in Seq(Checkpoints)
        /\ \A i \in 1..Len(checkpoints') :
              \/ checkpoints'[i].kind = "initial"
              \/ i \in 1..Len(checkpoints) /\ checkpoints'[i] = checkpoints[i]
    BY <2>2, CheckpointPlan
  <2>4. ASSUME NEW i \in 1..Len(checkpoints')
        PROVE  Tells(checkpoints'[i], Succeeded(results'), plan', Replanned', CalledOnce')
    <3>1. CASE checkpoints'[i].kind = "initial"
      BY <3>1 DEF Tells
    <3>2. CASE i \in 1..Len(checkpoints) /\ checkpoints'[i] = checkpoints[i]
      BY <1>m, <2>1, <3>2 DEF CheckpointInv, Tells
    <3> QED BY <2>3, <2>4, <3>1, <3>2
  <2> QED BY <2>1, <2>3, <2>4 DEF CheckpointInv
<1> QED BY <1>1, <1>2, <1>3, CheckpointEffects

(* Every checkpoint taken after a step tells the run it was taken in, for   *)
(* ever after.                                                              *)
THEOREM CheckpointsTell == Spec => []CheckpointsTellTheRun
<1>1. Init => StepInv
  BY DEF Init, StepInv, Won
<1>2. Spec => []StepInv
  BY <1>1, TypeCorrect, StepInvStep, PTL DEF Spec
<1>3. Spec => []ByInv
  BY TypeCorrect, SuccessInvInit, ByInvStep, PTL DEF Spec
<1>4. Spec => []SuccessInv
  BY <1>2, <1>3, TypeCorrect, SuccessInvInit, SuccessInvStep, PTL DEF Spec
<1>5. Spec => [](MarkedInv /\ DoneInv)
  BY TypeCorrect, MarkedInvInit, MarkedInvStep, PlanInvInit, DoneInvStep, PTL DEF Spec
<1>6. Spec => []PlanInv
  BY <1>5, TypeCorrect, PlanInvInit, PlanInvStep, PTL DEF Spec
<1>7. Spec => []CheckpointInv
  BY <1>3, <1>4, <1>6, TypeCorrect, StepsSucceedOnce, CheckpointInvInit, CheckpointInvStep, PTL
     DEF Spec
<1>8. CheckpointInv => CheckpointsTellTheRun
  BY DEF CheckpointInv, Tells, Replanned, CheckpointsTellTheRun
<1> QED BY <1>7, <1>8, PTL

-----------------------------------------------------------------------------
(* The retry budget.  The results of a step are of two kinds: those that    *)
(* were paid for with an attempt, and those whose call cannot come back to  *)
(* the step without paying: it is about to mark it, or it is over, or the   *)
(* step is dead.  There is at most one of the second kind for every call.   *)

(* A call that decides about the retry of its step, or makes it             *)
Window == {"failed", "retry"}

WindowInv ==
    \A c \in Calls : pc[c] \in Window =>
        /\ stepState[step[c]] = "failed"
        /\ \A d \in Calls : (pc[d] \in Window /\ step[d] = step[c]) => d = c

(* Nothing leads a step out of these states.                                *)
Dead(s) ==
    \/ stepState[s] = "completed"
    \/ stepState[s] = "failed" /\ \A c \in Calls : ~(pc[c] \in Window /\ step[c] = s)

Stuck(c, s) ==
    \/ pc[c] \in {"error", "returned", "rejected"}
    \/ step[c] = s /\ pc[c] \in {"succeeded", "failing", "failed"}
    \/ Dead(s) /\ ~(step[c] = s /\ pc[c] \in {"announced", "step"})

Tried(s) == {i \in 1..Len(results) : results[i].step = s}

Paid(s, R) ==
    /\ R \subseteq Tried(s)
    /\ Cardinality(R) <= attempts[s] /\ Cardinality(R) <= Budget - 1
    /\ \A i \in Tried(s) \ R :
          /\ \A d \in Calls : results[i].by = d => Stuck(d, s)
          /\ \A j \in Tried(s) \ R : results[j].by = results[i].by => j = i

PaidInv ==
    \A s \in StepIds : attempts[s] <= MaxAttempts /\ \E R : Paid(s, R)

LEMMA BudgetType ==
    /\ Budget \in Nat /\ Budget >= 1 /\ MaxAttempts \in Nat
    /\ MaxAttempts > 0 => Budget = MaxAttempts
BY LoopAssumption DEF LoopAssumption, Budget

(* How a call comes to decide about a retry.                                *)
LEMMA WindowEntry ==
    ASSUME TypeOK, NEW c \in Calls, Effect(c), pc'[c] \in Window
    PROVE  /\ step'[c] = step[c] /\ step[c] \in StepIds
           /\ \/ pc[c] = "failed" /\ UNCHANGED stepState
              \/ /\ pc[c] = "failing" /\ CanStep(step[c], "failed")
                 /\ stepState'[step[c]] = "failed"
<1>t. pc \in [Calls -> PcValues] /\ stepState \in [StepIds -> StepStates]
  BY DEF TypeOK
<1>1. ASSUME NEW ok \in BOOLEAN, Settle(c, ok) PROVE FALSE
  BY <1>t, <1>1 DEF Settle, Goes, Window
<1>2. ASSUME Hop(c) PROVE FALSE
  BY <1>t, <1>2 DEF Hop, Hops, Goes, Window
<1>3. ASSUME Enter(c) \/ Announce(c) \/ Refuse(c) \/ Advance(c) \/ Adopt(c) PROVE FALSE
  BY <1>t, <1>3 DEF Enter, Announce, Refuse, Advance, Adopt, Goes, Window
<1>4. ASSUME NEW m \in Marks, Mark(c, m)
      PROVE  /\ step'[c] = step[c] /\ step[c] \in StepIds
             /\ pc[c] = "failing" /\ CanStep(step[c], "failed")
             /\ stepState'[step[c]] = "failed"
  <2>1. m[1] = "failing" /\ m[2] = "failed"
    BY <1>t, <1>4 DEF Mark, Marks, Goes, Window
  <2>2. step[c] \in StepIds
    BY <1>4, <2>1, StepIsTyped DEF Mark, AtStep
  <2> QED BY <1>t, <1>4, <2>1, <2>2 DEF Mark
<1>5. CASE Pay(c)
  BY <1>5, StepIsTyped DEF Pay, AtStep
<1> QED BY <1>1, <1>2, <1>3, <1>4, <1>5 DEF Effect

(* A failed step stays failed unless its retry is made.                     *)
LEMMA FailedStays ==
    ASSUME TypeOK, NEW c \in Calls, Effect(c), NEW s \in StepIds, stepState[s] = "failed"
    PROVE  stepState'[s] = "failed" \/ (pc[c] = "retry" /\ step[c] = s)
<1>t. stepState \in [StepIds -> StepStates]
  BY DEF TypeOK
<1>0. \A to \in StepStates : CanStep(s, to) => to = "retrying"
  BY DEF CanStep, ValidStepTransitions, StepStates
<1>1. CASE Announce(c)
  <2>1. "running" \in StepStates
    BY DEF StepStates
  <2> QED BY <1>t, <1>0, <1>1, <2>1 DEF Announce
<1>2. ASSUME NEW m \in Marks, Mark(c, m)
      PROVE  stepState'[s] = "failed" \/ (pc[c] = "retry" /\ step[c] = s)
  <2>1. m[2] \in StepStates /\ (m[2] = "retrying" => m[1] = "retry")
    BY DEF Marks, StepStates
  <2> QED BY <1>t, <1>0, <1>2, <2>1 DEF Mark
<1>3. CASE UNCHANGED stepState
  BY <1>3
<1> QED
  BY <1>1, <1>2, <1>3 DEF Effect, Enter, Refuse, Settle, Pay, Advance, Adopt, Hop, stepVars

LEMMA WindowInvStep == TypeOK /\ WindowInv /\ [Next]_vars => WindowInv'
<1> SUFFICES ASSUME TypeOK, WindowInv, [Next]_vars PROVE WindowInv'
  OBVIOUS
<1>0. \A s \in StepIds : stepState[s] = "failed" => ~CanStep(s, "failed")
  BY DEF CanStep, ValidStepTransitions, StepStates
<1>w. \A c \in Calls : pc[c] \in Window => step[c] \in StepIds
  BY StepIsTyped DEF Window, AtStep
<1>1. CASE Aside
  BY <1>1 DEF Aside, stepVars, WindowInv
<1>2. ASSUME NEW c \in Calls, Effect(c), NEW e \in Calls, pc'[e] \in Window
      PROVE  /\ stepState'[step'[e]] = "failed"
             /\ \A d \in Calls : (pc'[d] \in Window /\ step'[d] = step'[e]) => d = e
  <2>o. \A d \in Calls : d # c => pc'[d] = pc[d] /\ step'[d] = step[d]
    BY <1>2, OthersStay
  <2>1. CASE e # c
    <3>1. pc[e] \in Window /\ step'[e] = step[e] /\ stepState[step[e]] = "failed"
          /\ step[e] \in StepIds
      BY <1>2, <1>w, <2>o, <2>1 DEF WindowInv
    <3>2. ~(pc[c] = "retry" /\ step[c] = step[e])
      BY <2>1, <3>1 DEF WindowInv, Window
    <3>3. stepState'[step[e]] = "failed"
      BY <1>2, <3>1, <3>2, FailedStays
    <3>4. ~(pc'[c] \in Window /\ step'[c] = step[e])
      <4> SUFFICES ASSUME pc'[c] \in Window, step'[c] = step[e] PROVE FALSE
        OBVIOUS
      <4>1. step[c] = step[e]
        BY <1>2, WindowEntry
      <4>2. CASE pc[c] = "failed"
        BY <2>1, <3>1, <4>1, <4>2 DEF WindowInv, Window
      <4>3. CASE CanStep(step[c], "failed")
        BY <1>0, <3>1, <4>1, <4>3
      <4> QED BY <1>2, <4>2, <4>3, WindowEntry
    <3> QED BY <2>o, <3>1, <3>3, <3>4 DEF WindowInv
  <2>2. CASE e = c
    <3>1. step'[c] = step[c] /\ step[c] \in StepIds
      BY <1>2, <2>2, WindowEntry
    <3>2. CASE pc[c] = "failed" /\ UNCHANGED stepState
      BY <2>o, <2>2, <3>1, <3>2 DEF WindowInv, Window
    <3>3. CASE CanStep(step[c], "failed") /\ stepState'[step[c]] = "failed"
      <4>1. \A d \in Calls : ~(pc[d] \in Window /\ step[d] = step[c])
        BY <1>0, <3>1, <3>3 DEF WindowInv
      <4> QED BY <2>o, <2>2, <3>1, <3>3, <4>1
    <3> QED BY <1>2, <2>2, <3>2, <3>3, WindowEntry
  <2> QED BY <2>1, <2>2
<1> QED BY <1>1, <1>2, StepEffects DEF WindowInv

LEMMA DeadStays ==
    ASSUME TypeOK, WindowInv, NEW c \in Calls, Effect(c), NEW s \in StepIds, Dead(s)
    PROVE  Dead(s)'
<1>1. CASE stepState[s] = "completed"
  BY <1>1, CompletedStays DEF Dead
<1>2. CASE stepState[s] = "failed" /\ \A d \in Calls : ~(pc[d] \in Window /\ step[d] = s)
  <2>1. stepState'[s] = "failed"
    BY <1>2, FailedStays DEF Window
  <2>2. ~CanStep(s, "failed")
    BY <1>2 DEF CanStep, ValidStepTransitions, StepStates
  <2>3. ~(pc'[c] \in Window /\ step'[c] = s)
    BY <1>2, <2>2, WindowEntry DEF Window
  <2>4. \A d \in Calls : d # c => pc'[d] = pc[d] /\ step'[d] = step[d]
    BY OthersStay
  <2>5. \A d \in Calls : ~(pc'[d] \in Window /\ step'[d] = s)
    BY <1>2, <2>3, <2>4
  <2> QED BY <2>1, <2>5 DEF Dead
<1> QED BY <1>1, <1>2 DEF Dead

(* Only an attempt makes a call free to try its step again.                 *)
LEMMA StuckStays ==
    ASSUME TypeOK, WindowInv, NEW c \in Calls, Effect(c), NEW d \in Calls, NEW s \in StepIds,
           Stuck(d, s), ~(d = c /\ step[c] = s /\ Pay(c) /\ pc'[c] = "retry")
    PROVE  Stuck(d, s)'
<1>t. pc \in [Calls -> PcValues] /\ step \in [Calls -> StepIds \cup {"none"}]
      /\ stepState \in [StepIds -> StepStates]
  BY DEF TypeOK
<1>1. CASE d # c
  <2>1. pc'[d] = pc[d] /\ step'[d] = step[d]
    BY <1>1, OthersStay
  <2>2. Dead(s) => Dead(s)'
    BY DeadStays
  <2> QED BY <2>1, <2>2 DEF Stuck
<1>2. CASE d = c /\ pc[c] \in {"error", "returned", "rejected"}
  <2>1. pc'[c] \in {"error", "returned", "rejected"}
    <3>1. Hop(c)
      <4>1. \A m \in Marks : ~Mark(c, m)
        BY <1>2 DEF Mark, Marks
      <4>2. \A ok \in BOOLEAN : ~Settle(c, ok)
        BY <1>2 DEF Settle
      <4> QED BY <1>2, <4>1, <4>2 DEF Effect, Enter, Announce, Refuse, Pay, Advance, Adopt
    <3> QED BY <1>t, <1>2, <3>1 DEF Hop, Hops, Goes
  <2> QED BY <1>2, <2>1 DEF Stuck
<1>3. CASE d = c /\ step[c] = s /\ pc[c] \in {"succeeded", "failing", "failed"}
  <2>1. CASE Pay(c)
    <3>1. pc'[c] = "error"
      BY <1>t, <1>3, <2>1 DEF Pay, Goes
    <3> QED BY <1>3, <3>1 DEF Stuck
  <2>2. ASSUME NEW m \in Marks, Mark(c, m) PROVE Stuck(c, s)'
    <3>1. \/ m[1] = "succeeded" /\ m[2] = "completed" /\ m[3] = "progress"
          \/ m[1] = "failing" /\ m[3] = "failed"
      BY <1>3, <2>2 DEF Mark, Marks
    <3>2. pc'[c] = m[3] /\ step'[c] = s /\ stepState'[s] = m[2]
      BY <1>t, <1>3, <2>2 DEF Mark, Goes
    <3> QED BY <3>1, <3>2 DEF Stuck, Dead
  <2>3. CASE Hop(c)
    <3>1. pc'[c] = "error" \/ (pc[c] = "failed" /\ pc'[c] = "replan")
      BY <1>t, <1>3, <2>3 DEF Hop, Hops, Goes
    <3>2. ASSUME pc[c] = "failed", pc'[c] = "replan" PROVE Dead(s)'
      <4>1. stepState'[s] = "failed"
        BY <1>3, <2>3, <3>2 DEF WindowInv, Window, Hop, stepVars
      <4>2. \A e \in Calls : e # c => pc'[e] = pc[e] /\ step'[e] = step[e]
        BY OthersStay
      <4>3. \A e \in Calls : ~(pc'[e] \in Window /\ step'[e] = s)
        BY <1>3, <3>2, <4>2 DEF WindowInv, Window
      <4> QED BY <4>1, <4>3 DEF Dead
    <3> QED BY <1>3, <3>1, <3>2 DEF Stuck
  <2> QED
    BY <1>3, <2>1, <2>2, <2>3 DEF Effect, Enter, Announce, Refuse, Settle, Advance, Adopt
<1>4. CASE d = c /\ Dead(s) /\ ~(step[c] = s /\ pc[c] \in {"announced", "step"})
  <2>1. Dead(s)'
    BY <1>4, DeadStays
  <2>2. ~(step'[c] = s /\ pc'[c] \in {"announced", "step"})
    <3>1. ASSUME Announce(c) PROVE step'[c] # s
      <4>1. ~(stepState[s] = "running" \/ CanStep(s, "running"))
        BY <1>4 DEF Dead, CanStep, ValidStepTransitions, StepStates
      <4> QED BY <1>t, <3>1, <4>1 DEF Announce
    <3>2. ASSUME Hop(c), pc'[c] \in {"announced", "step"} PROVE pc[c] = "announced" /\ UNCHANGED step
      BY <1>t, <3>2 DEF Hop, Hops, Goes, stepVars
    <3>3. ASSUME NEW m \in Marks, Mark(c, m) PROVE pc'[c] \notin {"announced", "step"}
      BY <1>t, <3>3 DEF Mark, Marks, Goes
    <3>4. ASSUME NEW ok \in BOOLEAN, Settle(c, ok) PROVE pc'[c] \notin {"announced", "step"}
      BY <1>t, <3>4 DEF Settle, Goes
    <3>5. CASE Enter(c) \/ Refuse(c) \/ Pay(c) \/ Advance(c) \/ Adopt(c)
      BY <1>t, <3>5 DEF Enter, Refuse, Pay, Advance, Adopt, Goes
    <3> QED BY <1>4, <3>1, <3>2, <3>3, <3>4, <3>5 DEF Effect
  <2> QED BY <1>4, <2>1, <2>2 DEF Stuck
<1> QED BY <1>1, <1>2, <1>3, <1>4 DEF Stuck

LEMMA TriedType ==
    ASSUME TypeOK, NEW s
    PROVE  /\ IsFiniteSet(Tried(s)) /\ \A R \in SUBSET Tried(s) : IsFiniteSet(R)
           /\ \A i \in Tried(s) : results[i].by \in Calls
<1>1. Len(results) \in Int /\ 1 \in Int /\ results \in Seq(Results)
  BY DEF TypeOK, Results
<1>2. IsFiniteSet(1..Len(results))
  BY <1>1, FS_Interval
<1>3. Tried(s) \in SUBSET (1..Len(results))
  BY DEF Tried
<1>4. IsFiniteSet(Tried(s))
  BY <1>2, <1>3, FS_Subset
<1>5. \A i \in Tried(s) : results[i] \in Results
  BY <1>1, <1>3
<1> QED BY <1>4, <1>5, FS_Subset DEF Results

(* A result is one more try of its step.                                    *)
LEMMA TriedGrows ==
    ASSUME TypeOK, NEW c \in Calls, NEW ok \in BOOLEAN, Settle(c, ok), NEW s
    PROVE  /\ Tried(s)' = IF s = step[c] THEN Tried(s) \cup {Len(results) + 1} ELSE Tried(s)
           /\ Len(results) + 1 \notin Tried(s) /\ results'[Len(results) + 1].by = c
           /\ \A i \in Tried(s) : results'[i] = results[i]
<1> DEFINE n == Len(results)
<1>1. [step |-> step[c], ok |-> ok, by |-> c].by = c
      /\ [step |-> step[c], ok |-> ok, by |-> c].step = step[c]
  OBVIOUS
<1>2. /\ n \in Nat /\ Len(results') = n + 1
      /\ results'[n + 1].by = c /\ results'[n + 1].step = step[c]
      /\ \A i \in 1..n : results'[i] = results[i]
  BY <1>1, SettledIs
<1> QED BY <1>2 DEF Tried

LEMMA PaidSettle ==
    ASSUME TypeOK, WindowInv, NEW c \in Calls, Effect(c), NEW ok \in BOOLEAN, Settle(c, ok),
           NEW s \in StepIds, NEW R, Paid(s, R)
    PROVE  Paid(s, R)'
<1> DEFINE n == Len(results)
<1>1. pc[c] = "step" /\ pc'[c] \in {"succeeded", "failing"} /\ UNCHANGED <<step, attempts>>
  BY DEF Settle, Goes, TypeOK
<1>2. ASSUME NEW i \in Tried(s) \ R
      PROVE  /\ results'[i] = results[i] /\ (s = step[c] => results[i].by # c)
             /\ \A d \in Calls : results[i].by = d => Stuck(d, s)'
  <2>1. results'[i] = results[i] /\ results[i].by \in Calls
    BY <1>2, TriedGrows, TriedType
  <2>2. ASSUME NEW d \in Calls, results[i].by = d
        PROVE  Stuck(d, s)' /\ (s = step[c] => d # c)
    <3>1. Stuck(d, s)
      BY <1>2, <2>2 DEF Paid
    <3>2. Stuck(d, s)'
      BY <1>1, <3>1, StuckStays
    <3> QED BY <1>1, <3>1, <3>2 DEF Stuck
  <2> QED BY <2>1, <2>2
<1>3. CASE s = step[c]
  <2>1. Tried(s)' = Tried(s) \cup {n + 1} /\ n + 1 \notin Tried(s) /\ results'[n + 1].by = c
    BY <1>3, TriedGrows
  <2>2. Stuck(c, s)'
    BY <1>1, <1>3 DEF Stuck
  <2>3. R \subseteq Tried(s) /\ Cardinality(R) <= attempts'[s] /\ Cardinality(R) <= Budget - 1
    BY <1>1 DEF Paid
  <2>4. ASSUME NEW i \in Tried(s)' \ R
        PROVE  /\ \A d \in Calls : results'[i].by = d => Stuck(d, s)'
               /\ \A j \in Tried(s)' \ R : results'[j].by = results'[i].by => j = i
    <3>1. CASE i = n + 1
      BY <1>2, <1>3, <2>1, <2>2, <3>1
    <3>2. CASE i \in Tried(s) \ R
      BY <1>2, <1>3, <2>1, <3>2 DEF Paid
    <3> QED BY <2>1, <3>1, <3>2
  <2> QED BY <2>1, <2>3, <2>4 DEF Paid
<1>4. CASE s # step[c]
  <2>1. Tried(s)' = Tried(s)
    BY <1>4, TriedGrows
  <2> QED BY <1>1, <1>2, <2>1 DEF Paid
<1> QED BY <1>3, <1>4

LEMMA PaidRetry ==
    ASSUME TypeOK, WindowInv, NEW c \in Calls, Effect(c), Pay(c), pc'[c] = "retry",
           NEW s \in StepIds, s = step[c], NEW R, Paid(s, R)
    PROVE  \E Q : Paid(s, Q)'
<1>1. UNCHANGED results /\ Tried(s)' = Tried(s)
  BY DEF Pay, Tried
<1>2. attempts'[s] = attempts[s] + 1 /\ attempts[s] + 1 <= Budget - 1 /\ attempts[s] \in Nat
  <2>1. attempts[s] + 1 < MaxAttempts /\ attempts'[s] = attempts[s] + 1 /\ attempts[s] \in Nat
    BY DEF Pay, Goes, TypeOK
  <2> QED BY <2>1, BudgetType
<1>3. ASSUME NEW i \in Tried(s) \ R, NEW d \in Calls, results[i].by = d, d # c
      PROVE  Stuck(d, s)'
  <2>1. Stuck(d, s)
    BY <1>3 DEF Paid
  <2> QED BY <1>3, <2>1, StuckStays
<1>4. CASE \A i \in Tried(s) \ R : results[i].by # c
  <2>1. /\ R \subseteq Tried(s)' /\ Cardinality(R) <= attempts'[s] /\ Cardinality(R) <= Budget - 1
    <3>1. IsFiniteSet(R) /\ R \subseteq Tried(s)
      BY TriedType DEF Paid
    <3>2. Cardinality(R) \in Nat
      BY <3>1, FS_CardinalityType
    <3> QED BY <1>1, <1>2, <3>1, <3>2 DEF Paid
  <2>2. Paid(s, R)'
    BY <1>1, <1>3, <1>4, <2>1 DEF Paid
  <2> QED BY <2>2
<1>5. ASSUME NEW k \in Tried(s) \ R, results[k].by = c
      PROVE  \E Q : Paid(s, Q)'
  <2> DEFINE Q == R \cup {k}
  <2>1. IsFiniteSet(R) /\ R \subseteq Tried(s) /\ k \notin R
    BY <1>5, TriedType DEF Paid
  <2>2. Cardinality(Q) = Cardinality(R) + 1 /\ Cardinality(R) \in Nat
    BY <2>1, FS_AddElement, FS_CardinalityType
  <2>3. Q \subseteq Tried(s)' /\ Cardinality(Q) <= attempts'[s] /\ Cardinality(Q) <= Budget - 1
    BY <1>1, <1>2, <1>5, <2>1, <2>2, BudgetType DEF Paid
  <2>4. ASSUME NEW i \in Tried(s)' \ Q
        PROVE  /\ \A d \in Calls : results'[i].by = d => Stuck(d, s)'
               /\ \A j \in Tried(s)' \ Q : results'[j].by = results'[i].by => j = i
    <3>1. i \in Tried(s) \ R /\ i # k
      BY <1>1, <2>4
    <3>2. results[i].by # c
      BY <1>5, <3>1 DEF Paid
    <3> QED BY <1>1, <1>3, <3>1, <3>2 DEF Paid
  <2> HIDE DEF Q
  <2>5. Paid(s, Q)'
    BY <2>3, <2>4 DEF Paid
  <2> QED BY <2>5
<1> QED BY <1>4, <1>5

LEMMA PaidElsewhere ==
    ASSUME TypeOK, WindowInv, NEW c \in Calls, Effect(c), UNCHANGED results,
           NEW s \in StepIds, NEW R, Paid(s, R), attempts'[s] >= attempts[s],
           ~(step[c] = s /\ Pay(c) /\ pc'[c] = "retry"), attempts' \in [StepIds -> Nat]
    PROVE  Paid(s, R)'
<1>1. Tried(s)' = Tried(s)
  BY DEF Tried
<1>2. ASSUME NEW i \in Tried(s) \ R, NEW d \in Calls, results[i].by = d PROVE Stuck(d, s)'
  <2>1. Stuck(d, s)
    BY <1>2 DEF Paid
  <2> QED BY <2>1, StuckStays
<1>3. Cardinality(R) <= attempts'[s]
  <2>1. IsFiniteSet(R)
    BY TriedType DEF Paid
  <2>2. Cardinality(R) \in Nat /\ attempts[s] \in Nat /\ attempts'[s] \in Nat
    BY <2>1, FS_CardinalityType DEF TypeOK
  <2> QED BY <2>2 DEF Paid
<1> QED BY <1>1, <1>2, <1>3 DEF Paid

LEMMA PaidInvStep == TypeOK /\ WindowInv /\ PaidInv /\ [Next]_vars => PaidInv'
<1> SUFFICES ASSUME TypeOK, WindowInv, PaidInv, [Next]_vars, NEW s \in StepIds
             PROVE  attempts'[s] <= MaxAttempts /\ \E R : Paid(s, R)'
  BY DEF PaidInv
<1>0. PICK R : attempts[s] <= MaxAttempts /\ Paid(s, R)
  BY DEF PaidInv
<1>t. attempts \in [StepIds -> Nat] /\ pc \in [Calls -> PcValues] /\ MaxAttempts \in Nat
  BY BudgetType DEF TypeOK
<1>1. CASE Aside
  <2>1. UNCHANGED attempts /\ Paid(s, R)'
    BY <1>0, <1>1 DEF Aside, stepVars, Paid, Tried, Stuck, Dead
  <2> QED BY <1>0, <2>1
<1>2. ASSUME NEW c \in Calls, Effect(c)
      PROVE  attempts'[s] <= MaxAttempts /\ \E Q : Paid(s, Q)'
  <2>1. ASSUME NEW ok \in BOOLEAN, Settle(c, ok)
        PROVE  attempts'[s] <= MaxAttempts /\ \E Q : Paid(s, Q)'
    <3>1. UNCHANGED attempts
      BY <2>1 DEF Settle
    <3>2. Paid(s, R)'
      BY <1>0, <1>2, <2>1, PaidSettle
    <3> QED BY <1>0, <3>1, <3>2
  <2>2. CASE Pay(c)
    <3>1. step[c] \in StepIds
      BY <2>2, StepIsTyped DEF Pay, AtStep
    <3>2. /\ attempts' \in [StepIds -> Nat]
          /\ attempts'[s] >= attempts[s] /\ attempts'[s] <= MaxAttempts
      BY <1>0, <1>t, <2>2, <3>1 DEF Pay
    <3>3. CASE s = step[c] /\ pc'[c] = "retry"
      BY <1>0, <1>2, <2>2, <3>2, <3>3, PaidRetry
    <3>4. CASE ~(s = step[c] /\ pc'[c] = "retry")
      <4>1. UNCHANGED results
        BY <2>2 DEF Pay
      <4>2. Paid(s, R)'
        BY <1>0, <1>2, <3>2, <3>4, <4>1, PaidElsewhere
      <4> QED BY <3>2, <4>2
    <3> QED BY <3>3, <3>4
  <2>3. CASE ~Pay(c) /\ UNCHANGED <<attempts, results>>
    <3>1. attempts'[s] >= attempts[s] /\ attempts' \in [StepIds -> Nat]
      BY <1>t, <2>3
    <3>2. Paid(s, R)'
      BY <1>0, <1>2, <2>3, <3>1, PaidElsewhere
    <3> QED BY <1>0, <2>3, <3>2
  <2> QED
    BY <1>2, <2>1, <2>2, <2>3
       DEF Effect, Enter, Announce, Refuse, Mark, Advance, Adopt, Hop, stepVars
<1> QED BY <1>1, <1>2, StepEffects

LEMMA PaidInvInit == Init => WindowInv /\ PaidInv
<1> SUFFICES ASSUME Init PROVE WindowInv /\ PaidInv
  OBVIOUS
<1>1. WindowInv
  BY DEF Init, WindowInv, Window
<1>2. ASSUME NEW s \in StepIds PROVE attempts[s] = 0 /\ Paid(s, {})
  <2>1. Tried(s) = {} /\ attempts[s] = 0
    BY DEF Init, Tried
  <2> QED BY <2>1, FS_EmptySet, BudgetType DEF Paid
<1> QED BY <1>1, <1>2, BudgetType DEF PaidInv

(* The unpaid results of a step are of different calls.                     *)
LEMMA TriesBound ==
    ASSUME TypeOK, ByInv, PaidInv, NEW s \in StepIds
    PROVE  /\ Tries(s) \in Nat /\ Cardinality(Accepted) \in Nat
           /\ Tries(s) <= Budget - 1 + Cardinality(Accepted)
           /\ Accepted = {} => Tries(s) = 0
<1>0. PICK R : Paid(s, R)
  BY DEF PaidInv
<1> DEFINE rest == Tried(s) \ R
           f == [i \in rest |-> results[i].by]
<1>1. Tries(s) = Cardinality(Tried(s))
  BY DEF Tries, Tried
<1>2. IsFiniteSet(Tried(s)) /\ IsFiniteSet(R) /\ IsFiniteSet(rest) /\ IsFiniteSet(Accepted)
  BY <1>0, TriedType, SomeFinite DEF Paid, Accepted
<1>3. /\ Cardinality(Tried(s)) \in Nat /\ Cardinality(R) \in Nat
      /\ Cardinality(rest) \in Nat /\ Cardinality(Accepted) \in Nat
  BY <1>2, FS_CardinalityType
<1>4. Tried(s) \cap R = R
  BY <1>0 DEF Paid
<1>5. Cardinality(rest) = Cardinality(Tried(s)) - Cardinality(R)
  BY <1>2, <1>4, FS_Difference
<1>6. \A i \in Tried(s) : results[i].by \in Accepted
  BY DEF ByInv, Tried
<1>7. f \in Injection(rest, Accepted)
  BY <1>0, <1>6 DEF Injection, IsInjective, Paid
<1>8. Cardinality(rest) <= Cardinality(Accepted)
  BY <1>2, <1>7, FS_Injection
<1>9. Cardinality(R) <= Budget - 1
  BY <1>0 DEF Paid
<1>10. Accepted = {} => Tries(s) = 0
  <2> SUFFICES ASSUME Accepted = {} PROVE Tried(s) = {}
    BY <1>1, FS_EmptySet
  <2> QED BY <1>6
<1> QED BY <1>1, <1>3, <1>5, <1>8, <1>9, <1>10, BudgetType

(* No step is tried more often than the budget, to which every further call *)
(* of execute() adds one try, for every plan, replan and interleaving.      *)
THEOREM BudgetKept == Spec => []RetryBudget
<1>1. Spec => []WindowInv
  BY TypeCorrect, PaidInvInit, WindowInvStep, PTL DEF Spec
<1>2. Spec => []PaidInv
  BY <1>1, TypeCorrect, PaidInvInit, PaidInvStep, PTL DEF Spec
<1>3. Spec => []ByInv
  BY TypeCorrect, SuccessInvInit, ByInvStep, PTL DEF Spec
<1>4. TypeOK /\ ByInv /\ PaidInv => RetryBudget
  <2> SUFFICES ASSUME TypeOK, ByInv, PaidInv, NEW s \in StepIds
               PROVE  /\ attempts[s] <= MaxAttempts
                      /\ Tries(s) <= Budget + (IF Accepted = {} THEN 0 ELSE Cardinality(Accepted) - 1)
    BY DEF RetryBudget
  <2>1. attempts[s] <= MaxAttempts
    BY DEF PaidInv
  <2>2. /\ Tries(s) \in Nat /\ Cardinality(Accepted) \in Nat
        /\ Tries(s) <= Budget - 1 + Cardinality(Accepted)
        /\ Accepted = {} => Tries(s) = 0
    BY TriesBound
  <2> QED BY <2>1, <2>2, BudgetType
<1> QED BY <1>2, <1>3, <1>4, TypeCorrect, PTL

-----------------------------------------------------------------------------
(* No step is started while the execution is halted.                        *)

LEMMA AnnouncedBy ==
    ASSUME TypeOK, Next, NEW c \in Calls, Announces(c)
    PROVE  LoopHead(c) \/ WaitOver(c)
<1>t. pc \in [Calls -> PcValues]
  BY DEF TypeOK
<1>0. pc[c] # "announced" /\ pc'[c] = "announced"
  BY DEF Announces
<1>1. ASSUME NEW d \in Calls, NEW q, Goes(d, q)
      PROVE  d = c /\ q = "announced"
  BY <1>0, <1>1, <1>t DEF Goes
<1>2. ASSUME NEW d \in Calls, LoopHead(d) \/ WaitOver(d) PROVE d = c
  <2>1. \E q \in {"cancelled", "wait", "exit", "announced", "refused"} : Goes(d, q)
    BY <1>2 DEF LoopHead, WaitOver, BeginStep
  <2> QED BY <1>1, <2>1
<1>3. ASSUME NEW d \in Calls, HandOver(d) \/ RefusalArrives(d) \/ ReplanFails(d) PROVE FALSE
  BY <1>1, <1>3 DEF HandOver, RefusalArrives, ReplanFails
<1>4. ASSUME NEW d \in Calls, MarkCompleted(d) \/ MarkFailed(d) \/ BackOff(d) \/ SleepOver(d)
      PROVE  FALSE
  <2>1. \E q \in {"progress", "failed", "sleep", "head", "error"} : Goes(d, q)
    BY <1>4 DEF MarkCompleted, MarkFailed, BackOff, SleepOver, SetStepState
  <2> QED BY <1>1, <2>1
<1>5. ASSUME NEW d \in Calls, MoveOn(d) PROVE FALSE
  <2>1. \E q \in {"head", "exit"} : Goes(d, q)
    BY <1>5 DEF MoveOn
  <2> QED BY <1>1, <2>1
<1>6. ASSUME NEW d \in Calls, NEW retryable \in BOOLEAN, AfterFailure(d, retryable) PROVE FALSE
  <2>1. \E q \in {"error", "retry", "replan"} : Goes(d, q)
    BY <1>6 DEF AfterFailure, Retry, Replan, GiveUp
  <2> QED BY <1>1, <2>1
<1>7. ASSUME NEW d \in Calls, Exit(d) \/ Catch(d) PROVE FALSE
  <2>1. \E q \in {"returned", "error", "rejected"} : Goes(d, q)
    BY <1>7 DEF Exit, Catch
  <2> QED BY <1>1, <2>1
<1>8. ASSUME NEW d \in Calls, NEW ok \in BOOLEAN, StepSettles(d, ok) PROVE FALSE
  <2>1. \E q \in {"succeeded", "failing"} : Goes(d, q)
    BY <1>8 DEF StepSettles
  <2> QED BY <1>1, <2>1
<1>9. ASSUME NEW d \in Calls, NEW p \in ReplanPlans, ReplanReturns(d, p) PROVE FALSE
  <2>1. \E q \in {"head", "error"} : Goes(d, q)
    BY <1>9 DEF ReplanReturns
  <2> QED BY <1>1, <2>1
<1>10. ASSUME NEW d \in Calls, NEW withCallback \in BOOLEAN, Execute(d, withCallback) PROVE FALSE
  BY <1>1, <1>10 DEF Execute
<1>11. CASE ExecuteRejected \/ Pause \/ Resume \/ Cancel \/ Abort
  BY <1>0, <1>11 DEF ExecuteRejected, Pause, Resume, Cancel, Abort
<1> QED
  BY <1>2, <1>3, <1>4, <1>5, <1>6, <1>7, <1>8, <1>9, <1>10, <1>11, NextIs

(* What the head of the loop and the poll have looked at when a step is     *)
(* announced.                                                               *)
LEMMA HaltIsSeen ==
    ASSUME TypeOK, NEW c \in Calls, Announces(c), LoopHead(c) \/ WaitOver(c)
    PROVE  status # "paused" /\ (aborted => pc[c] = "wait")
<1>0. pc'[c] = "announced" /\ pc \in [Calls -> PcValues]
  BY DEF Announces, TypeOK
<1>1. CASE LoopHead(c)
  <2>1. ~(Goes(c, "cancelled") \/ Goes(c, "wait"))
    BY <1>0 DEF Goes
  <2> QED BY <1>1, <2>1 DEF LoopHead
<1>2. CASE WaitOver(c)
  BY <1>2 DEF WaitOver, Continues
<1> QED BY <1>1, <1>2

(* The check at the head of the loop leaves no gap: whatever the handlers   *)
(* and the other callers do, no step is announced while paused, and after   *)
(* abort() only by a call that was waiting for resume().                    *)
THEOREM HaltsAreKept == Spec => NoStepStartsWhenHalted
<1> DEFINE Seen == \A c \in Calls : Announces(c) =>
                      status # "paused" /\ (aborted => pc[c] = "wait")
<1>1. TypeOK /\ [Next]_vars => [Seen]_vars
  BY AnnouncedBy, HaltIsSeen
<1> QED BY <1>1, TypeCorrect, PTL DEF Spec, NoStepStartsWhenHalted

-----------------------------------------------------------------------------
(* The loop implements ExecutionContract: an accepted execute() is a Call,  *)
(* a settled step a Try, the first terminal status the Close, and           *)
(* everything else stutters.                                                *)

Outcome == IF status \in Terminal THEN status ELSE "open"

AllTries == [s \in StepIds |-> Tries(s)]

LEMMA ContractInit == Init => Contract!Init
<1> SUFFICES ASSUME Init PROVE Contract!Init
  OBVIOUS
<1>1. Outcome = "open"
  BY DEF Init, Outcome, Terminal
<1>2. Done = {}
  BY DEF Init, Done
<1>3. \A s \in StepIds : Tries(s) = 0
  <2>1. \A s \in StepIds : {i \in 1..Len(results) : results[i].step = s} = {}
    BY DEF Init
  <2> QED BY <2>1, FS_EmptySet DEF Tries
<1>4. Cardinality(Accepted) = 0
  <2>1. Accepted = {}
    BY DEF Init, Accepted
  <2> QED BY <2>1, FS_EmptySet
<1> QED BY <1>1, <1>2, <1>3, <1>4 DEF Contract!Init, Outcome

LEMMA ContractStutter ==
    ASSUME UNCHANGED results, Accepted' = Accepted, Outcome' = Outcome
    PROVE  UNCHANGED Contract!vars
BY DEF Contract!vars, Outcome, Done, Tries

LEMMA ContractClose ==
    ASSUME UNCHANGED results, Accepted' = Accepted, status \notin Terminal, status' \in Terminal
    PROVE  Contract!Next
<1>1. Outcome = "open" /\ Outcome' = status'
  BY DEF Outcome
<1>2. Done' = Done /\ AllTries' = AllTries
  BY DEF Done, Tries, AllTries
<1>3. Contract!Close(status')
  BY <1>1, <1>2 DEF Contract!Close, Outcome, AllTries
<1> QED BY <1>3 DEF Contract!Next, Terminal

LEMMA ContractCall ==
    ASSUME TypeOK, NEW c \in Calls, Enter(c), status \notin Terminal, status' \notin Terminal
    PROVE  Contract!Next
<1>1. Accepted' = Accepted \cup {c} /\ c \notin Accepted
  BY DEF Enter, Goes, Accepted, TypeOK
<1>2. IsFiniteSet(Accepted)
  BY SomeFinite DEF Accepted
<1>3. Cardinality(Accepted)' = Cardinality(Accepted) + 1
  BY <1>1, <1>2, FS_AddElement
<1>4. UNCHANGED results
  BY DEF Enter, stepVars
<1>5. Outcome = "open" /\ Outcome' = "open" /\ Done' = Done /\ AllTries' = AllTries
  BY <1>4 DEF Outcome, Done, Tries, AllTries
<1>6. Contract!Call
  BY <1>3, <1>5 DEF Contract!Call, Outcome, AllTries
<1> QED BY <1>6 DEF Contract!Next

(* The only call there is is the one that settles the step.                 *)
LEMMA TheOnlyCall ==
    ASSUME TypeOK, StepInv, ByInv, StatusInv, NEW c \in Calls, pc[c] = "step",
           Cardinality(Accepted) = 1
    PROVE  /\ Outcome \in {"open", "cancelled"}
           /\ step[c] \notin Done
<1>1. IsFiniteSet(Accepted) /\ c \in Accepted
  BY SomeFinite DEF Accepted
<1>2. \A d \in Accepted : d = c
  <2>1. \E d : Accepted = {d}
    BY <1>1, FS_Singleton
  <2> QED BY <1>1, <2>1
<1>3. \A d \in Calls : pc[d] # "returned"
  BY <1>2 DEF Accepted
<1>4. Outcome \in {"open", "cancelled"}
  BY <1>3 DEF StatusInv, Outcome, Terminal
<1>5. ~Won(c, step[c])
  BY DEF StepInv
<1>6. step[c] \notin Done
  BY <1>2, <1>5 DEF ByInv, Won, Done
<1> QED BY <1>4, <1>6

(* What a settled step does to the number of tries.                         *)
LEMMA TriesStep ==
    ASSUME TypeOK, NEW c \in Calls, NEW ok \in BOOLEAN, Settle(c, ok)
    PROVE  AllTries' = [AllTries EXCEPT ![step[c]] = @ + 1]
<1> DEFINE n == Len(results)
<1>1. /\ step[c] \in StepIds /\ n \in Nat /\ Len(results') = n + 1
      /\ results'[n + 1] = [step |-> step[c], ok |-> ok, by |-> c]
      /\ \A i \in 1..n : results'[i] = results[i]
  BY SettledIs
<1>2. [step |-> step[c], ok |-> ok, by |-> c].step = step[c]
  OBVIOUS
<1>3. ASSUME NEW s \in StepIds, s # step[c] PROVE Tries(s)' = Tries(s)
  <2>1. {i \in 1..n : results[i].step = s}
          = {i \in 1..(n + 1) : results'[i].step = s}
    BY <1>1, <1>2, <1>3
  <2> QED BY <1>1, <2>1 DEF Tries
<1>4. Tries(step[c])' = Tries(step[c]) + 1
  <2>1. Tried(step[c]) \cup {n + 1} = {i \in 1..(n + 1) : results'[i].step = step[c]}
        /\ n + 1 \notin Tried(step[c])
    BY <1>1, <1>2 DEF Tried
  <2>2. IsFiniteSet(Tried(step[c]))
    BY <1>1, TriedType
  <2>3. Cardinality(Tried(step[c]) \cup {n + 1}) = Cardinality(Tried(step[c])) + 1
    BY <2>1, <2>2, FS_AddElement
  <2>4. UNCHANGED step
    BY DEF Settle
  <2> QED BY <1>1, <2>1, <2>3, <2>4 DEF Tries, Tried
<1>5. UNCHANGED step
  BY DEF Settle
<1>6. \A s \in StepIds : AllTries'[s] = [AllTries EXCEPT ![step[c]] = @ + 1][s]
  <2>1. \A s \in StepIds : AllTries'[s] = Tries(s)' /\ AllTries[s] = Tries(s)
    BY DEF AllTries
  <2>2. \A s \in StepIds : [AllTries EXCEPT ![step[c]] = @ + 1][s]
            = IF s = step[c] THEN Tries(s) + 1 ELSE Tries(s)
    BY DEF AllTries
  <2>3. ASSUME NEW s \in StepIds
        PROVE  Tries(s)' = IF s = step[c] THEN Tries(s) + 1 ELSE Tries(s)
    <3>1. CASE s = step[c]
      BY <1>4, <1>5, <3>1
    <3>2. CASE s # step[c]
      BY <1>3, <3>2
    <3> QED BY <3>1, <3>2
  <2> QED BY <2>1, <2>2, <2>3
<1> QED BY <1>6 DEF AllTries

LEMMA AcceptedStays ==
    ASSUME TypeOK, [Next]_vars, \A c \in Calls : ~Enter(c)
    PROVE  Accepted' = Accepted
<1>1. Accepted \subseteq Accepted'
  BY CallsGoOn DEF Accepted
<1>2. ASSUME NEW c \in Calls, Effect(c), NEW d \in Calls, pc[d] = "idle" PROVE pc'[d] = "idle"
  <2>1. CASE d # c
    BY <1>2, <2>1, OthersStay
  <2>2. CASE d = c
    <3>1. \A m \in Marks : m[1] # "idle"
      BY DEF Marks
    <3>2. Hops("idle") = {}
      BY DEF Hops
    <3> QED
      BY <1>2, <2>2, <3>1, <3>2
         DEF Effect, Announce, Refuse, Settle, Mark, Pay, Advance, Adopt, Hop
  <2> QED BY <2>1, <2>2
<1>3. Accepted' \subseteq Accepted
  BY <1>2, StepEffects DEF Accepted, Aside
<1> QED BY <1>1, <1>3

(* the budget, with the call that is being settled counted in               *)
BoundInv ==
    \A s \in StepIds :
        Tries(s) \in Nat /\ Tries(s) <= Budget - 1 + Cardinality(Accepted)

LEMMA ContractTry ==
    ASSUME TypeOK, [Next]_vars, StepInv, ByInv, StatusInv, BoundInv, BoundInv',
           NEW c \in Calls, NEW ok \in BOOLEAN, Settle(c, ok)
    PROVE  Contract!Next
<1>1. pc[c] = "step" /\ UNCHANGED <<status, step>>
  BY DEF Settle
<1>2. step[c] \in StepIds
  BY <1>1, StepIsTyped DEF AtStep
<1>3. \A d \in Calls : ~Enter(d)
  <2>1. \A d \in Calls : CanTransition("running") => status # "running"
    BY DEF CanTransition, ValidTransitions, Statuses, TypeOK
  <2> QED BY <1>1, <2>1 DEF Enter
<1>4. Accepted' = Accepted
  BY <1>3, AcceptedStays
<1>5. IsFiniteSet(Accepted) /\ c \in Accepted
  BY <1>1, SomeFinite DEF Accepted
<1>6. Cardinality(Accepted) \in Nat /\ Cardinality(Accepted) > 0
  BY <1>5, FS_CardinalityType, FS_EmptySet
<1>7. Cardinality(Accepted) = 1 => Outcome \in {"open", "cancelled"} /\ step[c] \notin Done
  BY <1>1, TheOnlyCall
<1>8. AllTries' = [AllTries EXCEPT ![step[c]] = @ + 1]
  BY TriesStep
<1>9. Tries(step[c])' = Tries(step[c]) + 1
  BY <1>1, <1>2, <1>8 DEF AllTries
<1>10. Tries(step[c]) + 1 < Budget + Cardinality(Accepted)
  <2>1. \A s : s = step[c] => Tries(s)' <= Budget - 1 + Cardinality(Accepted)
    BY <1>2, <1>4 DEF BoundInv
  <2>2. Tries(step[c]) \in Nat
    BY <1>2 DEF BoundInv
  <2> QED BY <1>1, <1>6, <1>9, <2>1, <2>2, BudgetType
<1>11. Done' \in {Done, Done \cup {step[c]}}
  BY DoneStep
<1>12. AllTries[step[c]] = Tries(step[c])
  BY <1>2 DEF AllTries
<1>13. Outcome' = Outcome
  BY <1>1 DEF Outcome
<1>14. Contract!Try(step[c])
  BY <1>4, <1>6, <1>7, <1>8, <1>10, <1>11, <1>12, <1>13 DEF Contract!Try, Outcome, AllTries
<1> QED BY <1>2, <1>14 DEF Contract!Next

LEMMA ContractStep ==
    TypeOK /\ StepInv /\ ByInv /\ StatusInv /\ BoundInv /\ BoundInv' /\ [Next]_vars
        => [Contract!Next]_(Contract!vars)
<1> SUFFICES ASSUME TypeOK, StepInv, ByInv, StatusInv, BoundInv, BoundInv', [Next]_vars
             PROVE  [Contract!Next]_(Contract!vars)
  OBVIOUS
<1>1. ASSUME NEW c \in Calls, Enter(c) PROVE Contract!Next
  BY <1>1, ContractCall, TransitionsLeaveNonTerminal DEF Enter, Terminal
<1>2. ASSUME NEW c \in Calls, NEW ok \in BOOLEAN, Settle(c, ok) PROVE Contract!Next
  BY <1>2, ContractTry
<1>3. CASE UNCHANGED results /\ \A c \in Calls : ~Enter(c)
  <2>1. Accepted' = Accepted
    BY <1>3, AcceptedStays
  <2>2. CASE Outcome' = Outcome
    BY <1>3, <2>1, <2>2, ContractStutter
  <2>3. CASE Outcome' # Outcome
    <3>1. status \notin Terminal /\ status' \in Terminal
      BY <2>3, HistoryEffects DEF Keeps, Notes, Closes, OpenStaysOpen, Outcome
    <3> QED BY <1>3, <2>1, <3>1, ContractClose
  <2> QED BY <2>2, <2>3
<1>4. UNCHANGED results \/ \E c \in Calls, ok \in BOOLEAN : Settle(c, ok)
  BY StepEffects
     DEF Effect, Enter, Announce, Refuse, Mark, Pay, Advance, Adopt, Hop, Aside, stepVars
<1> QED BY <1>1, <1>2, <1>3, <1>4

(* The loop implements the contract, for every constant: however often      *)
(* execute() is called on the context, and whatever is paused, resumed,     *)
(* cancelled, aborted, retried or replanned meanwhile.                      *)
THEOREM LoopImplementsContract == Spec => ImplementsContract
<1>1. Spec => []StatusInv
  <2>1. Init => StatusInv
    BY DEF Init, StatusInv, Terminal
  <2> QED BY <2>1, TypeCorrect, StatusInvStep, PTL DEF Spec
<1>2. Spec => []StepInv
  <2>1. Init => StepInv
    BY DEF Init, StepInv, Won
  <2> QED BY <2>1, TypeCorrect, StepInvStep, PTL DEF Spec
<1>3. Spec => []ByInv
  BY TypeCorrect, SuccessInvInit, ByInvStep, PTL DEF Spec
<1>4. Spec => [](WindowInv /\ PaidInv)
  BY TypeCorrect, PaidInvInit, WindowInvStep, PaidInvStep, PTL DEF Spec
<1>5. TypeOK /\ ByInv /\ PaidInv => BoundInv
  BY TriesBound DEF BoundInv
<1>6. Spec => []BoundInv
  BY <1>3, <1>4, <1>5, TypeCorrect, PTL
<1> QED
  BY <1>1, <1>2, <1>3, <1>6, TypeCorrect, ContractInit, ContractStep, PTL
     DEF Spec, ImplementsContract, Contract!Spec

=============================================================================
