--------------------------- MODULE ShutdownManager ---------------------------
(***************************************************************************)
(* createShutdownManager() (packages/runtime/src/ShutdownManager.ts).      *)
(*                                                                         *)
(* The first shutdown() awaits the steps, last added first, racing the lot *)
(* against one timer.  Every other call, a signal's or another caller's,   *)
(* returns at once with the status it finds.                               *)
(***************************************************************************)
EXTENDS Naturals, Sequences, SequencesExt

CONSTANTS
    Steps,    \* the steps that may be added
    Signals   \* the calls of shutdown(): signal handlers and others

VARIABLES
    shutdownSteps, \* the steps, in the order they were added
    shutdownPhase,
    shuttingDown,
    drain,         \* the run behind the first call, and its race with the timer
    told,          \* the steps whose shutdown() was invoked, in order
    answers        \* what each call of shutdown() returned

shutdownVars == <<shutdownSteps, shutdownPhase, shuttingDown, drain, told, answers>>

ShutdownPhases == {"idle", "shutting-down", "stopped", "timed-out"}

ShutdownInit ==
    /\ shutdownSteps = <<>>
    /\ shutdownPhase = "idle"
    /\ shuttingDown = FALSE
    /\ drain = [by |-> "none", todo |-> <<>>, going |-> FALSE, race |-> "open"]
    /\ told = <<>>
    /\ answers = [c \in Signals |-> "none"]

(* Callers add a step once.  The run takes the steps as it finds them, so   *)
(* they matter until then.                                                  *)
AddShutdownStep(step) ==
    /\ ~shuttingDown /\ ~Contains(shutdownSteps, step)
    /\ shutdownSteps' = Append(shutdownSteps, step)
    /\ UNCHANGED <<shutdownPhase, shuttingDown, drain, told, answers>>

RemoveShutdownStep(step) ==
    /\ ~shuttingDown
    /\ \E i \in 1..Len(shutdownSteps) :
          shutdownSteps[i] = step /\ shutdownSteps' = RemoveAt(shutdownSteps, i)
    /\ UNCHANGED <<shutdownPhase, shuttingDown, drain, told, answers>>

(* The run d goes on: it tells the next step to shut down, or has told all. *)
GoOnStopping(d, todo) ==
    \/ /\ todo # <<>>
       /\ told' = Append(told, Head(todo))
       /\ drain' = [d EXCEPT !.todo = Tail(todo), !.going = TRUE]
       /\ shutdownPhase' = IF d.going THEN shutdownPhase ELSE "shutting-down"
    \/ /\ todo = <<>>
       /\ drain' = [d EXCEPT !.going = FALSE]
       /\ shutdownPhase' = "stopped"
       /\ UNCHANGED told

(* mutant: a second call is not noticed                                     *)
ShutdownUnguarded(c) ==
    /\ answers[c] = "none" /\ drain.by # c
    /\ shuttingDown' = TRUE
    /\ GoOnStopping([drain EXCEPT !.by = c], Reverse(shutdownSteps))
    /\ UNCHANGED <<shutdownSteps, answers>>

Shutdown(c) ==
    /\ answers[c] = "none" /\ ~shuttingDown
    /\ shuttingDown' = TRUE
    /\ GoOnStopping([drain EXCEPT !.by = c], Reverse(shutdownSteps))
    /\ UNCHANGED <<shutdownSteps, answers>>

ShutdownAgain(c) ==
    /\ answers[c] = "none" /\ shuttingDown /\ drain.by # c
    /\ answers' = [answers EXCEPT ![c] = shutdownPhase]
    /\ UNCHANGED <<shutdownSteps, shutdownPhase, shuttingDown, drain, told>>

StepStops ==
    /\ drain.going
    /\ GoOnStopping(drain, drain.todo)
    /\ UNCHANGED <<shutdownSteps, shuttingDown, answers>>

(* mutant: break for return, so that the run ends as if all had stopped     *)
StepFailureBreaks ==
    /\ drain.going
    /\ drain' = [drain EXCEPT !.going = FALSE]
    /\ shutdownPhase' = "stopped"
    /\ UNCHANGED <<shutdownSteps, shuttingDown, told, answers>>

(* A step that fails ends the run: the steps after it are never told.       *)
StepFailsToStop ==
    /\ drain.going
    /\ drain' = [drain EXCEPT !.going = FALSE]
    /\ shutdownPhase' = "timed-out"
    /\ UNCHANGED <<shutdownSteps, shuttingDown, told, answers>>

(* mutant: the caller is answered when the steps are done, timer or not     *)
ShutdownTimesOutLate ==
    /\ drain.going /\ drain.race = "open" /\ shutdownPhase # "timed-out"
    /\ shutdownPhase' = "timed-out"
    /\ UNCHANGED <<shutdownSteps, shuttingDown, drain, told, answers>>

(* The timer ends the call, not the run behind it.                          *)
ShutdownTimesOut ==
    /\ drain.going /\ drain.race = "open"
    /\ drain' = [drain EXCEPT !.race = "timed out"]
    /\ shutdownPhase' = "timed-out"
    /\ answers' = [answers EXCEPT ![drain.by] = "timed-out"]
    /\ UNCHANGED <<shutdownSteps, shuttingDown, told>>

(* The run ends first.                                                      *)
ShutdownReturns ==
    /\ drain.by # "none" /\ ~drain.going /\ drain.race = "open"
    /\ drain' = [drain EXCEPT !.race = "returned"]
    /\ answers' = [answers EXCEPT ![drain.by] = shutdownPhase]
    /\ UNCHANGED <<shutdownSteps, shutdownPhase, shuttingDown, told>>

ShutdownNext ==
    \/ \E step \in Steps : AddShutdownStep(step) \/ RemoveShutdownStep(step)
    \/ \E c \in Signals : Shutdown(c) \/ ShutdownAgain(c)
    \/ StepStops \/ StepFailsToStop \/ ShutdownTimesOut \/ ShutdownReturns

ShutdownSpec == ShutdownInit /\ [][ShutdownNext]_shutdownVars

(* Only the timer and the event loop are certain to go on.                  *)
FairShutdownSpec == ShutdownSpec /\ WF_shutdownVars(ShutdownTimesOut) /\ WF_shutdownVars(ShutdownReturns)

-----------------------------------------------------------------------------

(* The status and the run are well formed.                                  *)
ShutdownTypeOK ==
    /\ shutdownPhase \in ShutdownPhases
    /\ shuttingDown \in BOOLEAN
    /\ shutdownSteps \in Seq(Steps) /\ told \in Seq(Steps) /\ drain.todo \in Seq(Steps)
    /\ drain.by \in Signals \cup {"none"} /\ drain.going \in BOOLEAN
    /\ drain.race \in {"open", "timed out", "returned"}
    /\ answers \in [Signals -> ShutdownPhases \cup {"none"}]

(* Steps are told to shut down last added first, and none twice however     *)
(* often shutdown() is called.                                              *)
TellsOnceInReverse ==
    IF shuttingDown
    THEN told' \o drain'.todo = told \o drain.todo
    ELSE shuttingDown' => told' \o drain'.todo = Reverse(shutdownSteps)

(* Who is answered "stopped" can rely on it: every step was told, and none  *)
(* is still at it.                                                          *)
StoppedMeansStopped ==
    (shutdownPhase = "stopped" \/ \E c \in Signals : answers[c] = "stopped") =>
        drain.todo = <<>> /\ ~drain.going

(* createShutdownManager(): each step is told once, last added first, and   *)
(* "stopped" is said when everything has stopped.  Steps are told on after  *)
(* a timeout, whatever operations/shutdown.md says of abandoning them, and  *)
(* a status of "timed-out" may then turn into "stopped".                    *)
ShutdownIsOrderly == [][TellsOnceInReverse /\ StoppedMeansStopped']_shutdownVars

(* The call that does the work and has not returned; the timer sees to it   *)
(* that it does, even when a step hangs.                                    *)
ShutdownUnanswered(c) == drain.by = c /\ answers[c] = "none"
=============================================================================
