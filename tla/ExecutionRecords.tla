-------------------------- MODULE ExecutionRecords --------------------------
(***************************************************************************)
(* What an execution keeps of itself (packages/hermes/src/execution): the  *)
(* results and checkpoints of its context, its history, and the text a     *)
(* host saves of a checkpoint and reads again after a restart; and the     *)
(* text of its plan (packages/llm/src/planning/PlanSerializer.ts).         *)
(*                                                                         *)
(* The loop adds a result to the context and to the history in one go.     *)
(* Saving and reading back are a host's: nothing in the repository calls   *)
(* the serializer.  Times are left out; a text is what JSON.parse() makes  *)
(* of it, so a value a text cannot hold has changed on the way.            *)
(***************************************************************************)
EXTENDS Integers, Sequences, SequencesExt, FiniteSetsExt, TLC

CONSTANTS
    Plans,          \* [goal, steps, dependencies, constraints]; a step is a record
                    \*    [id, tool, arguments, dependsOn, metadata]
    StepResults,    \* [stepId, success, data, error, errorCode, retryAttempts]
    Ids,            \* of the execution
    MaxResults, MaxCheckpoints      \* bounds

VARIABLES
    plan, index, results, checkpoints,  \* of the context
    entries, byStep,                    \* of the history: byStep is a Map
    saved,                              \* the text a host keeps
    restored                            \* what it read last

vars == <<plan, index, results, checkpoints, entries, byStep, saved, restored>>

context == <<plan, index, results, checkpoints>>

None == "none"      \* an optional field that is not there

-----------------------------------------------------------------------------
(* Texts                                                                    *)

(* JSON.stringify() leaves out what is not there, turns a date into text    *)
(* and throws on a bigint.                                                  *)
Present(record, optional) ==
    {field \in DOMAIN record : field \in optional => record[field] # None}
Only(record, fields) == [field \in fields |-> record[field]]
Stringified(value) == IF value = "date" THEN "text" ELSE value
Throws(records) == \E i \in DOMAIN records : records[i].data = "bigint"

OptionalOfResult == {"data", "error", "errorCode"}

(* mutant: the code of an error is forgotten                                *)
SerializeWithoutCode(result) == Only(result, Present(result, OptionalOfResult) \ {"errorCode"})

SerializeStepResult(result) == Only(result, Present(result, OptionalOfResult))

(* Fields that are not there stay away.                                     *)
DeserializeStepResult(text) ==
    text @@ [field \in OptionalOfResult \ DOMAIN text |-> None]

(* The goal is not saved, nor which steps are completed and remain.         *)
SerializeCheckpoint(checkpoint, stepResults) ==
    [version |-> 1, ids |-> checkpoint.ids, goal |-> "", status |-> checkpoint.status,
     statistics |-> checkpoint.statistics,
     stepResults |-> [i \in 1..Len(stepResults) |->
         LET text == SerializeStepResult(stepResults[i]) IN
         IF "data" \in DOMAIN text THEN [text EXCEPT !.data = Stringified(@)] ELSE text]]

NoJSON == 0       \* the version of a torn text, for short

(* mutant: any version will do                                              *)
ValidInAnyVersion(text) == text.version # NoJSON /\ text.ids.executionId # None

(* JSON.parse() throws, or the version is another.                          *)
CanDeserialize(text) == text.version = 1

ValidateSerialized(text) == text.version = 1 /\ text.ids.executionId # None

OptionalOfStep == {"tool", "arguments", "metadata"}

(* mutant: the metadata of a step are forgotten                             *)
SerializeBareStep(step) == Only(step, Present(step, OptionalOfStep) \ {"metadata"})

SerializeStep(step) == Only(step, Present(step, OptionalOfStep))

DeserializeStep(text) == text @@ [field \in OptionalOfStep \ DOMAIN text |-> None]

SerializeGoal(goal) == Only(goal, Present(goal, {"successCriteria"}))
DeserializeGoal(text) == text @@ [field \in {"successCriteria"} \ DOMAIN text |-> None]

SerializeConstraint(c) == Only(c, Present(c, {"value"}))
DeserializeConstraint(text) == text @@ [field \in {"value"} \ DOMAIN text |-> None]

PlanToJSON(p) ==
    [goal |-> SerializeGoal(p.goal),
     steps |-> [i \in DOMAIN p.steps |-> SerializeStep(p.steps[i])],
     dependencies |-> {[from |-> d.from, to |-> d.to] : d \in p.dependencies},
     constraints |-> {SerializeConstraint(c) : c \in p.constraints}]

PlanFromJSON(text) ==
    [goal |-> DeserializeGoal(text.goal),
     steps |-> [i \in DOMAIN text.steps |-> DeserializeStep(text.steps[i])],
     dependencies |-> {[from |-> d.from, to |-> d.to] : d \in text.dependencies},
     constraints |-> {DeserializeConstraint(c) : c \in text.constraints}]

-----------------------------------------------------------------------------
(* The history                                                              *)

Entry(type, step) == [type |-> type, stepId |-> step]

Total(set, Value(_)) == FoldSet(LAMBDA x, sum : Value(x) + sum, 0, set)

(* getStatistics(): of the last result of each step.                        *)
Statistics(kept) ==
    [stepsCompleted |-> Cardinality({s \in DOMAIN kept : kept[s].success}),
     stepsFailed |-> Cardinality({s \in DOMAIN kept : ~kept[s].success}),
     retryAttempts |-> Total(DOMAIN kept, LAMBDA s : kept[s].retryAttempts)]

GetStepEntries(step) == SelectSeq(entries, LAMBDA e : e.stepId = step)

Succeeded(list) == SelectSeq(list, LAMBDA r : r.success)

GetStepsCompleted == Len(Succeeded(results))

-----------------------------------------------------------------------------

Init ==
    /\ plan = <<>> /\ index = 1 /\ results = <<>> /\ checkpoints = <<>>
    /\ entries = <<>> /\ byStep = <<>>
    /\ saved = [kind |-> "nothing"] /\ restored = [kind |-> "nothing"]

(* A new plan leaves the index and the results as they are.                 *)
SetPlan(p) ==
    /\ Len(checkpoints) < MaxCheckpoints
    /\ plan' = p.steps
    /\ checkpoints' = IF p.steps = <<>> THEN checkpoints
                      ELSE Append(checkpoints,
                          [ids |-> Ids, status |-> "pending", completed |-> <<>>,
                           results |-> "none yet", statistics |-> Statistics(<<>>)])
    /\ UNCHANGED <<index, results, entries, byStep, saved, restored>>

Start ==
    /\ entries = <<>> /\ entries' = <<Entry("execution.started", None)>>
    /\ UNCHANGED <<context, byStep, saved, restored>>

NextStep ==
    /\ index <= Len(plan) /\ index' = index + 1
    /\ UNCHANGED <<plan, results, checkpoints, entries, byStep, saved, restored>>

(* mutant: of a step tried again the first result stays                     *)
StepCompletedOnce(result) ==
    /\ entries' = Append(entries, Entry("step.completed", result.stepId))
    /\ byStep' = byStep @@ (result.stepId :> result)

(* history.stepCompleted()                                                  *)
StepCompleted(result) ==
    /\ entries' = Append(entries, Entry("step.completed", result.stepId))
    /\ byStep' = (result.stepId :> result) @@ byStep

(* The result of the current step.                                          *)
AddStepResult(result) ==
    /\ Len(results) < MaxResults
    /\ index <= Len(plan) /\ result.stepId = plan[index].id
    /\ results' = Append(results, result)
    /\ StepCompleted(result)
    /\ UNCHANGED <<plan, index, checkpoints, saved, restored>>

(* createStepCheckpoint(): it holds the context's own list of results,      *)
(* which goes on growing, and copies of all the rest.                       *)
AddCheckpoint(status) ==
    /\ Len(checkpoints) < MaxCheckpoints /\ results # <<>>
    /\ checkpoints' = Append(checkpoints,
          [ids |-> Ids, status |-> status, completed |-> Succeeded(results),
           results |-> "the context's", statistics |-> Statistics(byStep)])
    /\ UNCHANGED <<plan, index, results, entries, byStep, saved, restored>>

ResultsOf(checkpoint) == IF checkpoint.results = "none yet" THEN <<>> ELSE results

(* serializeCheckpoint(): if it throws, the host keeps what it had.         *)
Save(i) ==
    /\ ~Throws(ResultsOf(checkpoints[i]))
    /\ saved' = [kind |-> "checkpoint", text |-> SerializeCheckpoint(checkpoints[i], ResultsOf(checkpoints[i])),
                 of |-> checkpoints[i], results |-> ResultsOf(checkpoints[i])]
    /\ UNCHANGED <<context, entries, byStep, restored>>

(* What else a host may find: the text of another version, of no execution, *)
(* or torn.                                                                 *)
Damage ==
    /\ saved.kind = "checkpoint"
    /\ \E text \in {[saved.text EXCEPT !.version = NoJSON], [saved.text EXCEPT !.version = 2],
                    [saved.text EXCEPT !.ids.executionId = None]} :
          saved' = [kind |-> "damaged", text |-> text]
    /\ UNCHANGED <<context, entries, byStep, restored>>

(* The host validates before it reads, after a restart that leaves it a new *)
(* context and no history: the behaviour ends here.                         *)
Restore ==
    /\ saved.kind # "nothing"
    /\ restored' =
          IF ~ValidateSerialized(saved.text) THEN [kind |-> "refused"]
          ELSE IF ~CanDeserialize(saved.text) THEN [kind |-> "failed"]
          ELSE [kind |-> "read", ids |-> saved.text.ids, status |-> saved.text.status,
                statistics |-> saved.text.statistics,
                results |-> [i \in DOMAIN saved.text.stepResults |->
                                DeserializeStepResult(saved.text.stepResults[i])],
                of |-> saved.of, before |-> saved.results]
    /\ plan' = <<>> /\ index' = 1 /\ results' = <<>> /\ checkpoints' = <<>>
    /\ entries' = <<>> /\ byStep' = <<>> /\ saved' = [kind |-> "nothing"]

Next ==
    /\ restored.kind = "nothing"
    /\ \/ Start \/ NextStep \/ Damage \/ Restore
       \/ \E p \in Plans : SetPlan(p)
       \/ \E r \in StepResults : AddStepResult(r)
       \/ \E status \in {"running", "failed"} : AddCheckpoint(status)
       \/ \E i \in DOMAIN checkpoints : Save(i)

Spec == Init /\ [][Next]_vars

-----------------------------------------------------------------------------

(* The history counts steps, the context results: they agree on how far     *)
(* the execution is exactly if every step has had one result, the entries   *)
(* of a step tell how often it had one, and no retry of the last results    *)
(* is lost (ExecutionHistory.getStatistics(), getStepEntries()).            *)
HistoryTellsTheSteps ==
    LET steps == {r.stepId : r \in ToSet(results)}
        now == Statistics(byStep)
        last(s) == SelectLastInSeq(results, LAMBDA r : r.stepId = s)
    IN  /\ now.stepsCompleted + now.stepsFailed = Cardinality(steps)
        /\ Cardinality(steps) = Len(results) => now.stepsCompleted = GetStepsCompleted
        /\ \A s \in steps :
              /\ byStep[s] = results[last(s)]
              /\ Len(GetStepEntries(s)) = Len(SelectSeq(results, LAMBDA r : r.stepId = s))

(* Every text saved is accepted, every text accepted is read, and what is   *)
(* read of a checkpoint is what was saved of it: its execution, its status, *)
(* the outcome of every step with its error and code, and data that JSON    *)
(* can hold; its successes begin with the steps the checkpoint was taken    *)
(* after, however much later it was saved.  A plan comes back with its      *)
(* goal, steps, dependencies and constraints, and absent fields absent.     *)
(* (ExecutionSerializer.ts, PlanSerializer.ts)                              *)
RestoredIsWhatWasSaved ==
    /\ restored.kind # "failed"
    /\ saved.kind = "checkpoint" => ValidateSerialized(saved.text)
    /\ restored.kind = "read" =>
          /\ restored.ids = restored.of.ids /\ restored.status = restored.of.status
          /\ restored.statistics = restored.of.statistics
          /\ Len(restored.results) = Len(restored.before)
          /\ \A i \in DOMAIN restored.results :
                LET before == restored.before[i]  after == restored.results[i] IN
                /\ DOMAIN after = DOMAIN before
                /\ \A field \in DOMAIN before \ {"data"} : after[field] = before[field]
                /\ before.data \in {None, "json"} => after.data = before.data
          /\ LET ids(list) == [i \in DOMAIN list |-> list[i].stepId] IN
             IsPrefix(ids(restored.of.completed), ids(Succeeded(restored.results)))
    /\ \A p \in Plans :
          /\ PlanFromJSON(PlanToJSON(p)) = p
          /\ PlanToJSON(PlanFromJSON(PlanToJSON(p))) = PlanToJSON(p)
=============================================================================
