--------------------------- MODULE StartupManager ---------------------------
(***************************************************************************)
(* createStartupManager() (packages/runtime/src/StartupManager.ts).        *)
(*                                                                         *)
(* start() sorts the steps by their dependencies and awaits one startup()  *)
(* after the other, racing the lot against one timer.  The timer only ends *)
(* the call: the run behind it goes on, and writes the status when it ends.*)
(***************************************************************************)
EXTENDS Naturals, Sequences, SequencesExt, SequenceFilters

CONSTANTS
    StepPool,    \* the steps that may be added: [name, deps, rollback]
    MaxSteps,    \* bound on the steps kept
    StartCalls       \* the calls of start()

None == "none"

StepNames == {step.name : step \in StepPool}
Named == StepNames \cup UNION {ToSet(step.deps) : step \in StepPool}

ASSUME StartupAssumption ==
    /\ StepPool \subseteq [name : StepNames, deps : Seq(Named), rollback : BOOLEAN]
    /\ MaxSteps \in Nat

VARIABLES
    startupSteps,  \* the steps, in the order they were added
    startupPhase,
    failedStep,
    shown,         \* the run whose startedSteps the status shows
    starts,        \* the calls of start() and the runs behind them
    up             \* the steps started and not rolled back since (a failed attempt counts)

startupVars == <<startupSteps, startupPhase, failedStep, shown, starts, up>>

StartupPhases == {"idle", "starting", "running", "failed", "rolled-back"}

-----------------------------------------------------------------------------
(* topologicalSort(): depth first, a step after what it depends on.  A name *)
(* is visited once, so a cycle is cut somewhere and a missing dependency    *)
(* passed over.  Of two steps of one name the later counts.                 *)

Has(list, name) == \E i \in 1..Len(list) : list[i].name = name

StepNamed(list, name) ==
    list[CHOOSE i \in 1..Len(list) :
            /\ list[i].name = name
            /\ \A k \in (i + 1)..Len(list) : list[k].name # name]

(* What visit() has still to do: to visit a name, or to place a step whose  *)
(* dependencies were visited.                                               *)
Task(name, placing) == [name |-> name, placing |-> placing]

Tasks == [name : Named, placing : BOOLEAN]

Walks == [todo : Seq(Tasks), visited : SUBSET Named, result : Seq(StepPool)]

ToVisit(names) == [i \in 1..Len(names) |-> Task(names[i], FALSE)]

(* What is left of todo: names to visit that are new and known, and steps   *)
(* to place.                                                                *)
Left(list, w) ==
    KeepIn(w.todo, {task \in Tasks : task.placing \/ (task.name \notin w.visited
                                                        /\ Has(list, task.name))})

(* mutant: a step goes before what it depends on                            *)
TurnPreorder(list, w) ==
    LET left == Left(list, w)
        name == left[1].name
        step == StepNamed(list, name)
    IN  IF left = <<>> THEN w
        ELSE IF left[1].placing
        THEN [w EXCEPT !.todo = Tail(left), !.result = Append(@, step)]
        ELSE [w EXCEPT !.visited = @ \cup {name},
                       !.todo = <<Task(name, TRUE)>> \o ToVisit(step.deps) \o Tail(left)]

Turn(list, w) ==
    LET left == Left(list, w)
        name == left[1].name
        step == StepNamed(list, name)
    IN  IF left = <<>> THEN w
        ELSE IF left[1].placing
        THEN [w EXCEPT !.todo = Tail(left), !.result = Append(@, step)]
        ELSE [w EXCEPT !.visited = @ \cup {name},
                       !.todo = ToVisit(step.deps) \o <<Task(name, TRUE)>> \o Tail(left)]

(* Every turn visits a name for the first time, or places its step.         *)
TopologicalSort(list) ==
    Iterated(2 * Len(list),
             [todo |-> ToVisit([i \in 1..Len(list) |-> list[i].name]),
              visited |-> {}, result |-> <<>>],
             [w \in Walks |-> Turn(list, w)]).result

-----------------------------------------------------------------------------

IdleStart == [pc |-> "idle", order |-> <<>>, started |-> <<>>, undo |-> <<>>,
              race |-> "open", after |-> FALSE]

StartupInit ==
    /\ startupSteps = <<>>
    /\ startupPhase = "idle" /\ failedStep = None /\ shown = None
    /\ starts = [s \in StartCalls |-> IdleStart]
    /\ up = {}

(* Steps matter to the calls of start() still to come.                      *)
StartToCome == \E s \in StartCalls : starts[s].pc = "idle"

AddStartupStep(step) ==
    /\ StartToCome /\ Len(startupSteps) < MaxSteps
    /\ startupSteps' = Append(startupSteps, step)
    /\ UNCHANGED <<startupPhase, failedStep, shown, starts, up>>

RemoveStartupStep(name) ==
    /\ StartToCome
    /\ \E i \in 1..Len(startupSteps) :
          /\ startupSteps[i].name = name /\ startupSteps' = RemoveAt(startupSteps, i)
          /\ \A k \in 1..(i - 1) : startupSteps[k].name # name
    /\ UNCHANGED <<startupPhase, failedStep, shown, starts, up>>

(* mutant: the last two arguments are swapped                               *)
UpdateStatusSwapped(to, s, failed) ==
    startupPhase' = to /\ shown' = failed /\ failedStep' = s

UpdateStatus(to, s, failed) ==
    startupPhase' = to /\ shown' = s /\ failedStep' = failed

NamesOf(list) == {list[i].name : i \in 1..Len(list)}

Going(s) == starts[s].pc \in {"step", "rollback"}

(* The run behind call s goes on with record r: it awaits the next startup, *)
(* ends for want of a dependency, or has started everything.                *)
GoOnStarting(s, r) ==
    LET k == Len(r.started) + 1 IN
    \/ /\ k > Len(r.order)
       /\ starts' = [starts EXCEPT ![s] = [r EXCEPT !.pc = "done"]]
       /\ UpdateStatus("running", s, None)
    \/ /\ k <= Len(r.order) /\ ~ToSet(r.order[k].deps) \subseteq NamesOf(r.started)
       /\ starts' = [starts EXCEPT ![s] = [r EXCEPT !.pc = "blocked"]]
       /\ UpdateStatus("failed", s, r.order[k].name)
    \/ /\ k <= Len(r.order) /\ ToSet(r.order[k].deps) \subseteq NamesOf(r.started)
       /\ starts' = [starts EXCEPT ![s] = [r EXCEPT !.pc = "step"]]
       /\ IF r.started = <<>>
          THEN UpdateStatus("starting", None, None)
          ELSE UNCHANGED <<startupPhase, shown, failedStep>>

(* after: an earlier run was still going when this one began                *)
Start(s) ==
    /\ starts[s].pc = "idle"
    /\ GoOnStarting(s, [IdleStart EXCEPT !.order = TopologicalSort(startupSteps),
                                         !.after = \E o \in StartCalls : Going(o)])
    /\ UNCHANGED <<startupSteps, up>>

Current(s) == starts[s].order[Len(starts[s].started) + 1]

StepStarts(s) ==
    /\ starts[s].pc = "step"
    /\ up' = up \cup {Current(s).name}
    /\ GoOnStarting(s, [starts[s] EXCEPT !.started = Append(@, Current(s))])
    /\ UNCHANGED startupSteps

(* mutant: a return is missing after the rollback                           *)
GoOnUndoingNoReturn(s, undo, failed) ==
    \/ /\ undo = <<>>
       /\ starts' = [starts EXCEPT ![s].pc = "done", ![s].undo = <<>>]
       /\ UpdateStatus("running", s, None)
    \/ /\ undo # <<>>
       /\ starts' = [starts EXCEPT ![s].pc = "rollback", ![s].undo = undo]
       /\ UNCHANGED <<startupPhase, shown, failedStep>>

(* The run behind s rolls back what is left in undo.                        *)
GoOnUndoing(s, undo, failed) ==
    \/ /\ undo = <<>>
       /\ starts' = [starts EXCEPT ![s].pc = "rolled-back", ![s].undo = <<>>]
       /\ UpdateStatus("rolled-back", s, failed)
    \/ /\ undo # <<>>
       /\ starts' = [starts EXCEPT ![s].pc = "rollback", ![s].undo = undo]
       /\ IF starts[s].pc = "step"
          THEN UpdateStatus("failed", s, failed)
          ELSE UNCHANGED <<startupPhase, shown, failedStep>>

(* mutant: rolling back stops at the first step with nothing to roll back   *)
UndoableUntilGap(s) ==
    LET started == Reverse(starts[s].started)
        gap     == SelectInSeq(started, LAMBDA step : ~step.rollback)
    IN  IF gap = 0 THEN started ELSE SubSeq(started, 1, gap - 1)

Undoable(s) ==
    KeepIn(Reverse(starts[s].started), {step \in StepPool : step.rollback})

StepFails(s) ==
    /\ starts[s].pc = "step"
    /\ GoOnUndoing(s, Undoable(s), Current(s).name)
    /\ UNCHANGED <<startupSteps, up>>

(* A rollback that fails is logged and passed over.                         *)
RollbackSettles(s) ==
    /\ starts[s].pc = "rollback"
    /\ up' = up \ {Head(starts[s].undo).name}
    /\ GoOnUndoing(s, Tail(starts[s].undo), Current(s).name)
    /\ UNCHANGED startupSteps

(* mutant: start() waits for the run behind it, timer or not                *)
StartTimesOutLate(s) ==
    /\ Going(s) /\ starts[s].race = "open" /\ failedStep # "timeout"
    /\ UpdateStatus("failed", s, IF failedStep = None THEN "timeout" ELSE failedStep)
    /\ UNCHANGED <<startupSteps, starts, up>>

(* The timer wins the race against a run that still goes, and start()       *)
(* returns.                                                                 *)
StartTimesOut(s) ==
    /\ Going(s) /\ starts[s].race = "open"
    /\ UpdateStatus("failed", s, IF failedStep = None THEN "timeout" ELSE failedStep)
    /\ starts' = [starts EXCEPT ![s].race = "timed out"]
    /\ UNCHANGED <<startupSteps, up>>

(* The run ends first.                                                      *)
StartReturns(s) ==
    /\ starts[s].pc \in {"done", "blocked", "rolled-back"} /\ starts[s].race = "open"
    /\ starts' = [starts EXCEPT ![s].race = "returned"]
    /\ UNCHANGED <<startupSteps, startupPhase, failedStep, shown, up>>

StartupNext ==
    \/ \E step \in StepPool : AddStartupStep(step) \/ RemoveStartupStep(step.name)
    \/ \E s \in StartCalls :
          \/ Start(s) \/ StepStarts(s) \/ StepFails(s)
          \/ RollbackSettles(s) \/ StartTimesOut(s) \/ StartReturns(s)

StartupSpec == StartupInit /\ [][StartupNext]_startupVars

(* Only the timer and the event loop are certain to go on.                  *)
FairStartupSpec ==
    StartupSpec
    /\ \A s \in StartCalls : WF_startupVars(StartTimesOut(s)) /\ WF_startupVars(StartReturns(s))
-----------------------------------------------------------------------------

Overlapped == \E s \in StartCalls : starts[s].after

(* The status and the runs are well formed.                                 *)
StartupTypeOK ==
    /\ startupSteps \in Seq(StepPool) /\ Len(startupSteps) <= MaxSteps
    /\ startupPhase \in StartupPhases
    /\ failedStep \in StepNames \cup {None, "timeout"}
    /\ shown \in StartCalls \cup {None}
    /\ up \subseteq StepNames
    /\ \A s \in StartCalls :
          /\ starts[s].pc \in {"idle", "step", "rollback", "done", "blocked", "rolled-back"}
          /\ IsPrefix(starts[s].started, starts[s].order)

(* While the status says running, every step of the run it shows is up.     *)
(* That takes runs that do not overlap: see README.                         *)
RunningMeansUp ==
    (startupPhase = "running" /\ ~Overlapped) =>
        /\ starts[shown].pc = "done"
        /\ NamesOf(starts[shown].order) \subseteq up

(* A start that was rolled back leaves nothing up that it started and knows *)
(* how to take down.                                                        *)
FailedStartIsUndone ==
    \A s \in StartCalls : (starts[s].pc = "rolled-back" /\ startupPhase = "rolled-back"
                          /\ shown = s /\ ~Overlapped) =>
        \A i \in 1..Len(starts[s].started) :
           starts[s].started[i].rollback => starts[s].started[i].name \notin up

(* createStartupManager(): the status of runs that do not overlap tells     *)
(* what is up: everything when running, and nothing that it knows how to    *)
(* take down when rolled back.                                              *)
StatusTellsWhatIsUp == RunningMeansUp /\ FailedStartIsUndone

(* A run ends for want of a dependency only when no order could have met    *)
(* it: the dependency is missing, or part of a cycle (topologicalSort).     *)
BlockedMeansStuck ==
    \A s \in StartCalls : starts[s].pc = "blocked" =>
        LET order == starts[s].order IN
        \E stuck \in SUBSET NamesOf(order) :
           /\ stuck # {}
           /\ \A name \in stuck :
                 \E dep \in ToSet(StepNamed(order, name).deps) :
                    dep \in stuck \/ dep \notin NamesOf(order)

(* A call of start() that has not returned; the timer sees to it that it    *)
(* does, even when a step hangs.                                            *)
StartUnanswered(s) == starts[s].pc # "idle" /\ starts[s].race = "open"

-----------------------------------------------------------------------------

(* "If the total startup exceeds this, all steps are rolled back"           *)
(* (docs/operations/startup.md): that a call that timed out leaves nothing  *)
(* up once the run behind it has ended.  Does not hold: see README.         *)
TimeoutRollsBack ==
    \A s \in StartCalls : (starts[s].race = "timed out" /\ ~Going(s)) =>
        \A i \in 1..Len(starts[s].started) :
           starts[s].started[i].rollback => starts[s].started[i].name \notin up
=============================================================================
