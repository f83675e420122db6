----------------------- MODULE HostProofs -----------------------
(***************************************************************************)
(* Proofs about parts around the kernel, for any steps, calls and requests: *)
(* the shutdown manager, the startup manager, the adapters, the API server  *)
(* and the health manager.  What is told in which order, and what a status, *)
(* a flag, a gauge, an answer and a report are worth.                       *)
(***************************************************************************)
EXTENDS ShutdownManager, StartupManager, Adapters, ApiServer, HealthManager, SequenceFilters,
        FiniteSetTheorems, TLAPS

-----------------------------------------------------------------------------
(* The inductive invariant: the shape of the run, nothing of which there is *)
(* before the first call, and what 'stopped' stands for.                    *)

Drains == [by : Signals \cup {"none"}, todo : Seq(Steps), going : BOOLEAN,
           race : {"open", "timed out", "returned"}]

NothingBefore ==
    ~shuttingDown =>
        /\ shutdownPhase = "idle" /\ told = <<>>
        /\ drain.by = "none" /\ drain.todo = <<>> /\ ~drain.going
        /\ \A c \in Signals : answers[c] = "none"

ShutdownInv == ShutdownTypeOK /\ drain \in Drains /\ NothingBefore /\ StoppedMeansStopped

-----------------------------------------------------------------------------
(* Sequences                                                                *)

LEMMA ReverseType ==
    ASSUME NEW S, NEW s \in Seq(S)
    PROVE  Reverse(s) \in Seq(S)
BY DEF Reverse

LEMMA RemoveAtType ==
    ASSUME NEW S, NEW s \in Seq(S), NEW i \in 1..Len(s)
    PROVE  RemoveAt(s, i) \in Seq(S)
BY DEF RemoveAt

LEMMA HeadMoves ==
    ASSUME NEW S, NEW s \in Seq(S), NEW t \in Seq(S), t # <<>>
    PROVE  /\ Head(t) \in S /\ Tail(t) \in Seq(S)
           /\ Append(s, Head(t)) \in Seq(S)
           /\ Append(s, Head(t)) \o Tail(t) = s \o t
OBVIOUS

-----------------------------------------------------------------------------
(* What one stretch of the run does: it keeps the types, it moves one step  *)
(* from what is left to tell to what was told, and it ends the run only     *)
(* when nothing is left.                                                    *)
LEMMA GoingOn ==
    ASSUME shutdownPhase \in ShutdownPhases, told \in Seq(Steps),
           NEW d \in Drains, NEW todo \in Seq(Steps), todo = <<>> => d.todo = <<>>,
           GoOnStopping(d, todo)
    PROVE  /\ told' \in Seq(Steps) /\ shutdownPhase' \in ShutdownPhases /\ drain' \in Drains
           /\ drain'.by = d.by
           /\ told' \o drain'.todo = told \o todo
           /\ \/ drain'.going /\ shutdownPhase' \in {shutdownPhase, "shutting-down"}
              \/ ~drain'.going /\ drain'.todo = <<>> /\ shutdownPhase' = "stopped"
           /\ drain'.going /\ ~d.going => shutdownPhase' = "shutting-down"
<1>1. CASE todo # <<>>
  <2>1. /\ Head(todo) \in Steps /\ Tail(todo) \in Seq(Steps)
        /\ Append(told, Head(todo)) \in Seq(Steps)
        /\ Append(told, Head(todo)) \o Tail(todo) = told \o todo
    BY <1>1, HeadMoves
  <2>2. told' = Append(told, Head(todo)) /\ drain' = [d EXCEPT !.todo = Tail(todo), !.going = TRUE]
    BY <1>1 DEF GoOnStopping
  <2>3. shutdownPhase' = IF d.going THEN shutdownPhase ELSE "shutting-down"
    BY <1>1 DEF GoOnStopping
  <2>4. drain' \in Drains /\ drain'.by = d.by /\ drain'.todo = Tail(todo) /\ drain'.going
    BY <2>1, <2>2 DEF Drains
  <2> QED BY <2>1, <2>2, <2>3, <2>4 DEF ShutdownPhases
<1>2. CASE todo = <<>>
  <2>1. told' = told /\ drain' = [d EXCEPT !.going = FALSE] /\ shutdownPhase' = "stopped"
    BY <1>2 DEF GoOnStopping
  <2>2. drain' \in Drains /\ drain'.by = d.by /\ drain'.todo = <<>> /\ ~drain'.going
    BY <1>2, <2>1 DEF Drains
  <2> QED BY <1>2, <2>1, <2>2 DEF ShutdownPhases
<1> QED BY <1>1, <1>2

-----------------------------------------------------------------------------
(* The invariant is kept.                                                   *)

LEMMA ShutdownInitInv == ShutdownInit => ShutdownInv
<1> SUFFICES ASSUME ShutdownInit PROVE ShutdownInv
  OBVIOUS
<1>1. drain \in Drains /\ shutdownSteps \in Seq(Steps) /\ told \in Seq(Steps)
  BY DEF ShutdownInit, Drains
<1>2. answers \in [Signals -> ShutdownPhases \cup {"none"}]
  BY DEF ShutdownInit
<1>3. ShutdownTypeOK
  BY <1>1, <1>2 DEF ShutdownInit, ShutdownTypeOK, Drains, ShutdownPhases
<1>4. NothingBefore /\ StoppedMeansStopped
  BY DEF ShutdownInit, NothingBefore, StoppedMeansStopped
<1> QED BY <1>1, <1>3, <1>4 DEF ShutdownInv

(* An answer that is the shutdownPhase is 'stopped' only if the shutdownPhase is.           *)
LEMMA Answered ==
    ASSUME ShutdownInv, NEW c \in Signals, NEW answer \in {shutdownPhase, "timed-out"}, shuttingDown,
           answers' = [answers EXCEPT ![c] = answer],
           UNCHANGED <<shutdownSteps, shuttingDown, told>>,
           shutdownPhase' \in {shutdownPhase, "timed-out"},
           drain' \in Drains, drain'.todo = drain.todo, drain'.going = drain.going
    PROVE  ShutdownInv'
<1>1. answers' \in [Signals -> ShutdownPhases \cup {"none"}]
  BY DEF ShutdownInv, ShutdownTypeOK, ShutdownPhases
<1>2. \A a \in Signals : answers'[a] = IF a = c THEN answer ELSE answers[a]
  BY DEF ShutdownInv, ShutdownTypeOK
<1>3. ShutdownTypeOK'
  BY <1>1 DEF ShutdownInv, ShutdownTypeOK, Drains, ShutdownPhases
<1>4. StoppedMeansStopped'
  BY <1>2 DEF ShutdownInv, StoppedMeansStopped
<1> QED BY <1>3, <1>4 DEF ShutdownInv, NothingBefore

LEMMA ShutdownStepInv == ShutdownInv /\ [ShutdownNext]_shutdownVars => ShutdownInv'
<1> SUFFICES ASSUME ShutdownInv, [ShutdownNext]_shutdownVars PROVE ShutdownInv'
  OBVIOUS
<1>1. ASSUME NEW step \in Steps, AddShutdownStep(step)
      PROVE  ShutdownInv'
  <2>1. shutdownSteps' = Append(shutdownSteps, step) /\ shutdownSteps \in Seq(Steps)
    BY <1>1 DEF AddShutdownStep, ShutdownInv, ShutdownTypeOK
  <2>2. shutdownSteps' \in Seq(Steps)
    BY <2>1
  <2> QED BY <1>1, <2>2 DEF AddShutdownStep, ShutdownInv, ShutdownTypeOK, NothingBefore, StoppedMeansStopped
<1>2. ASSUME NEW step \in Steps, RemoveShutdownStep(step)
      PROVE  ShutdownInv'
  <2>1. shutdownSteps' \in Seq(Steps)
    BY <1>2, RemoveAtType DEF RemoveShutdownStep, ShutdownInv, ShutdownTypeOK
  <2> QED BY <1>2, <2>1 DEF RemoveShutdownStep, ShutdownInv, ShutdownTypeOK, NothingBefore, StoppedMeansStopped
<1>3. ASSUME NEW c \in Signals, Shutdown(c)
      PROVE  ShutdownInv'
  <2> DEFINE d == [drain EXCEPT !.by = c]
  <2>1. d \in Drains /\ d.todo = <<>> /\ Reverse(shutdownSteps) \in Seq(Steps)
    BY <1>3, ReverseType DEF Shutdown, ShutdownInv, ShutdownTypeOK, NothingBefore, Drains
  <2>2. shutdownPhase \in ShutdownPhases /\ told \in Seq(Steps) /\ GoOnStopping(d, Reverse(shutdownSteps))
    BY <1>3 DEF Shutdown, ShutdownInv, ShutdownTypeOK
  <2>3. /\ told' \in Seq(Steps) /\ shutdownPhase' \in ShutdownPhases /\ drain' \in Drains
        /\ \/ drain'.going /\ shutdownPhase' \in {shutdownPhase, "shutting-down"}
           \/ ~drain'.going /\ drain'.todo = <<>> /\ shutdownPhase' = "stopped"
    BY <2>1, <2>2, GoingOn
  <2>4. shutdownPhase = "idle" /\ \A a \in Signals : answers'[a] = "none"
    BY <1>3 DEF Shutdown, ShutdownInv, NothingBefore
  <2>5. ShutdownTypeOK'
    BY <1>3, <2>3 DEF Shutdown, ShutdownInv, ShutdownTypeOK, Drains
  <2> QED BY <1>3, <2>3, <2>4, <2>5 DEF Shutdown, ShutdownInv, NothingBefore, StoppedMeansStopped
<1>4. ASSUME NEW c \in Signals, ShutdownAgain(c)
      PROVE  ShutdownInv'
  BY <1>4, Answered DEF ShutdownAgain, ShutdownInv
<1>5. CASE StepStops
  <2>1. /\ told' \in Seq(Steps) /\ shutdownPhase' \in ShutdownPhases /\ drain' \in Drains
        /\ \/ drain'.going /\ shutdownPhase' \in {shutdownPhase, "shutting-down"}
           \/ ~drain'.going /\ drain'.todo = <<>> /\ shutdownPhase' = "stopped"
    BY <1>5, GoingOn DEF StepStops, ShutdownInv, ShutdownTypeOK
  <2>2. shuttingDown /\ shutdownPhase # "stopped" /\ \A c \in Signals : answers[c] # "stopped"
    BY <1>5 DEF StepStops, ShutdownInv, NothingBefore, StoppedMeansStopped
  <2>3. ShutdownTypeOK'
    BY <1>5, <2>1 DEF StepStops, ShutdownInv, ShutdownTypeOK, Drains
  <2> QED BY <1>5, <2>1, <2>2, <2>3 DEF StepStops, ShutdownInv, NothingBefore, StoppedMeansStopped
<1>6. CASE StepFailsToStop
  <2>1. shuttingDown /\ \A c \in Signals : answers[c] # "stopped"
    BY <1>6 DEF StepFailsToStop, ShutdownInv, NothingBefore, StoppedMeansStopped
  <2>2. drain' \in Drains /\ shutdownPhase' = "timed-out"
    BY <1>6 DEF StepFailsToStop, ShutdownInv, Drains
  <2>3. ShutdownTypeOK'
    BY <1>6, <2>2 DEF StepFailsToStop, ShutdownInv, ShutdownTypeOK, Drains, ShutdownPhases
  <2> QED BY <1>6, <2>1, <2>2, <2>3 DEF StepFailsToStop, ShutdownInv, NothingBefore, StoppedMeansStopped
<1>7. CASE ShutdownTimesOut
  <2>1. shuttingDown /\ \A c \in Signals : answers[c] # "stopped"
    BY <1>7 DEF ShutdownTimesOut, ShutdownInv, NothingBefore, StoppedMeansStopped
  <2>2. /\ drain' \in Drains /\ shutdownPhase' = "timed-out"
        /\ drain'.todo = drain.todo /\ drain'.going = drain.going
    BY <1>7 DEF ShutdownTimesOut, ShutdownInv, Drains
  <2>3. answers' \in [Signals -> ShutdownPhases \cup {"none"}]
    BY <1>7 DEF ShutdownTimesOut, ShutdownInv, ShutdownTypeOK, ShutdownPhases
  <2>4. \A c \in Signals : answers'[c] \in {answers[c], "timed-out"}
    BY <1>7 DEF ShutdownTimesOut, ShutdownInv, ShutdownTypeOK
  <2>5. ShutdownTypeOK'
    BY <1>7, <2>2, <2>3 DEF ShutdownTimesOut, ShutdownInv, ShutdownTypeOK, Drains, ShutdownPhases
  <2> QED BY <1>7, <2>1, <2>2, <2>4, <2>5
          DEF ShutdownTimesOut, ShutdownInv, NothingBefore, StoppedMeansStopped
<1>8. CASE ShutdownReturns
  <2>1. CASE drain.by \in Signals /\ shuttingDown
    <3>1. /\ drain' \in Drains /\ drain'.todo = drain.todo /\ drain'.going = drain.going
      BY <1>8 DEF ShutdownReturns, ShutdownInv, Drains
    <3> QED BY <1>8, <2>1, <3>1, Answered DEF ShutdownReturns, ShutdownInv
  <2> QED BY <1>8, <2>1 DEF ShutdownReturns, ShutdownInv, ShutdownTypeOK, NothingBefore
<1>9. CASE UNCHANGED shutdownVars
  BY <1>9 DEF shutdownVars, ShutdownInv, ShutdownTypeOK, NothingBefore, StoppedMeansStopped
<1> QED BY <1>1, <1>2, <1>3, <1>4, <1>5, <1>6, <1>7, <1>8, <1>9 DEF ShutdownNext

(* The status, the run and the answers are well formed, always.             *)
THEOREM ShutdownTypeCorrect == ShutdownSpec => []ShutdownTypeOK
<1>1. ShutdownSpec => []ShutdownInv
  BY ShutdownInitInv, ShutdownStepInv, PTL DEF ShutdownSpec
<1>2. ShutdownInv => ShutdownTypeOK
  BY DEF ShutdownInv
<1> QED BY <1>1, <1>2, PTL

-----------------------------------------------------------------------------
(* The order                                                                *)

LEMMA StepTellsInOrder == ShutdownInv /\ [ShutdownNext]_shutdownVars => [TellsOnceInReverse]_shutdownVars
<1> SUFFICES ASSUME ShutdownInv, ShutdownNext PROVE TellsOnceInReverse
  BY DEF shutdownVars, TellsOnceInReverse
<1>1. ASSUME NEW c \in Signals, Shutdown(c)
      PROVE  TellsOnceInReverse
  <2> DEFINE d == [drain EXCEPT !.by = c]
  <2>1. /\ d \in Drains /\ d.todo = <<>> /\ Reverse(shutdownSteps) \in Seq(Steps)
        /\ told = <<>> /\ ~shuttingDown
    BY <1>1, ReverseType DEF Shutdown, ShutdownInv, ShutdownTypeOK, NothingBefore, Drains
  <2>2. told' \o drain'.todo = told \o Reverse(shutdownSteps)
    BY <1>1, <2>1, GoingOn DEF Shutdown, ShutdownInv, ShutdownTypeOK
  <2> QED BY <2>1, <2>2 DEF TellsOnceInReverse
<1>2. CASE StepStops
  <2>1. shuttingDown
    BY <1>2 DEF StepStops, ShutdownInv, NothingBefore
  <2>2. told' \o drain'.todo = told \o drain.todo
    BY <1>2, GoingOn DEF StepStops, ShutdownInv, ShutdownTypeOK
  <2> QED BY <2>1, <2>2 DEF TellsOnceInReverse
<1>3. ASSUME NEW step \in Steps, AddShutdownStep(step) \/ RemoveShutdownStep(step)
      PROVE  TellsOnceInReverse
  BY <1>3 DEF AddShutdownStep, RemoveShutdownStep, TellsOnceInReverse
<1>4. ASSUME shuttingDown, told' = told, drain'.todo = drain.todo
      PROVE  TellsOnceInReverse
  BY <1>4 DEF TellsOnceInReverse
<1>5. ASSUME NEW c \in Signals, ShutdownAgain(c)
      PROVE  TellsOnceInReverse
  BY <1>4, <1>5 DEF ShutdownAgain
<1>6. CASE StepFailsToStop
  BY <1>4, <1>6 DEF StepFailsToStop, ShutdownInv, NothingBefore, Drains
<1>7. CASE ShutdownTimesOut
  BY <1>4, <1>7 DEF ShutdownTimesOut, ShutdownInv, NothingBefore, Drains
<1>8. CASE ShutdownReturns
  <2>1. CASE shuttingDown
    BY <1>4, <1>8, <2>1 DEF ShutdownReturns, ShutdownInv, Drains
  <2> QED BY <1>8, <2>1 DEF ShutdownReturns, TellsOnceInReverse
<1> QED BY <1>1, <1>2, <1>3, <1>5, <1>6, <1>7, <1>8 DEF ShutdownNext

(* Steps are told to shut down last added first and none twice, however     *)
(* many calls are made; and an answer of 'stopped' can be relied on: every  *)
(* step was told and none is still at it, whatever the timer did.           *)
THEOREM ShutdownOrderly == ShutdownSpec => ShutdownIsOrderly
<1>1. ShutdownSpec => []ShutdownInv
  BY ShutdownInitInv, ShutdownStepInv, PTL DEF ShutdownSpec
<1>2. ShutdownInv' => StoppedMeansStopped'
  BY DEF ShutdownInv
<1>3. ShutdownInv /\ ShutdownInv' /\ [ShutdownNext]_shutdownVars
          => [TellsOnceInReverse /\ StoppedMeansStopped']_shutdownVars
  BY <1>2, StepTellsInOrder
<1> QED BY <1>1, <1>3, PTL DEF ShutdownSpec, ShutdownIsOrderly

-----------------------------------------------------------------------------
(* topologicalSort() gives steps: what is left to place was found by name.  *)

LEMMA StepNamedIs ==
    ASSUME NEW list \in Seq(StepPool), NEW name, Has(list, name)
    PROVE  StepNamed(list, name) \in StepPool /\ StepNamed(list, name).name = name
<1> DEFINE I == {i \in 1..Len(list) : list[i].name = name}
           Behind == {Len(list) - i : i \in I}
<1>1. Behind \in SUBSET Nat /\ Behind # {}
  BY DEF Has
<1>2. PICK b \in Behind : \A c \in Behind : b <= c
  <2> HIDE DEF Behind
  <2> QED BY <1>1, LeastOf
<1>3. PICK i \in I : b = Len(list) - i
  OBVIOUS
<1>4. \A k \in (i + 1)..Len(list) : list[k].name # name
  <2> SUFFICES ASSUME NEW k \in (i + 1)..Len(list), list[k].name = name PROVE FALSE
    OBVIOUS
  <2>1. k \in I /\ Len(list) - k \in Behind
    OBVIOUS
  <2>2. b <= Len(list) - k
    BY <1>2, <2>1
  <2>3. Len(list) \in Nat /\ i \in Nat /\ k \in Nat /\ k > i
    OBVIOUS
  <2> QED BY <1>3, <2>2, <2>3
<1>5. \E j \in 1..Len(list) :
          /\ list[j].name = name
          /\ \A k \in (j + 1)..Len(list) : list[k].name # name
  BY <1>3, <1>4
<1>6. PICK j \in 1..Len(list) : StepNamed(list, name) = list[j] /\ list[j].name = name
  BY <1>5 DEF StepNamed
<1> QED BY <1>6

(* A walk that places known steps only.                                     *)
PlacesKnown(list, todo) == \A i \in 1..Len(todo) : todo[i].placing => Has(list, todo[i].name)

LEMMA ToVisitIs ==
    ASSUME NEW names \in Seq(Named), NEW list
    PROVE  ToVisit(names) \in Seq(Tasks) /\ PlacesKnown(list, ToVisit(names))
<1>1. \A i \in 1..Len(names) : Task(names[i], FALSE) \in Tasks
  BY DEF Task, Tasks
<1>2. ToVisit(names) \in [1..Len(names) -> Tasks] /\ Len(names) \in Nat
  <2> DEFINE E(i) == Task(names[i], FALSE)
  <2>1. ToVisit(names) = [i \in 1..Len(names) |-> E(i)]
    BY DEF ToVisit
  <2>2. \A i \in 1..Len(names) : E(i) \in Tasks
    BY <1>1
  <2> HIDE DEF E
  <2> QED BY <2>1, <2>2
<1>3. ToVisit(names) \in Seq(Tasks) /\ Len(ToVisit(names)) = Len(names)
  BY <1>2
<1>4. \A i \in 1..Len(names) : ~ToVisit(names)[i].placing
  BY DEF ToVisit, Task
<1> QED BY <1>3, <1>4 DEF PlacesKnown

LEMMA PlacesKnownConcat ==
    ASSUME NEW list, NEW s \in Seq(Tasks), NEW t \in Seq(Tasks),
           PlacesKnown(list, s), PlacesKnown(list, t)
    PROVE  s \o t \in Seq(Tasks) /\ PlacesKnown(list, s \o t)
<1>1. s \o t \in Seq(Tasks) /\ Range(s \o t) = Range(s) \cup Range(t)
  BY RangeConcat
<1>2. ASSUME NEW i \in 1..Len(s \o t), (s \o t)[i].placing PROVE Has(list, (s \o t)[i].name)
  <2>1. (s \o t)[i] \in Range(s) \cup Range(t)
    BY <1>1 DEF Range
  <2> QED BY <1>2, <2>1 DEF PlacesKnown, Range
<1> QED BY <1>1, <1>2 DEF PlacesKnown

(* What is left is part of what was to do.                                  *)
LEMMA LeftIs ==
    ASSUME NEW list, NEW w \in Walks, PlacesKnown(list, w.todo)
    PROVE  /\ Left(list, w) \in Seq(Tasks)
           /\ PlacesKnown(list, Left(list, w))
           /\ \A i \in 1..Len(Left(list, w)) : Has(list, Left(list, w)[i].name)
<1> DEFINE T == {task \in Tasks : task.placing \/ (task.name \notin w.visited
                                                     /\ Has(list, task.name))}
           kept == KeepIn(w.todo, T)
<1>1. w.todo \in Seq(Tasks)
  BY DEF Walks
<1>2. kept \in Seq(Tasks \cap T) /\ Range(kept) = Range(w.todo) \cap T
  <2> HIDE DEF T
  <2> QED BY <1>1, KeepInRange
<1>3. Left(list, w) = kept
  BY DEF Left
<1>4. kept \in Seq(Tasks)
  BY <1>2
<1> HIDE DEF kept
<1>5. ASSUME NEW i \in 1..Len(kept) PROVE Has(list, kept[i].name)
  <2>1. kept[i] \in Range(w.todo) /\ kept[i] \in T
    BY <1>2, <1>4 DEF Range
  <2>2. PICK j \in 1..Len(w.todo) : kept[i] = w.todo[j]
    BY <1>1, <2>1 DEF Range
  <2>3. kept[i].placing => Has(list, kept[i].name)
    BY <2>2 DEF PlacesKnown
  <2> QED BY <2>1, <2>3
<1>6. PlacesKnown(list, kept)
  BY <1>5 DEF PlacesKnown
<1> QED BY <1>3, <1>4, <1>5, <1>6

LEMMA TurnIs ==
    ASSUME NEW list \in Seq(StepPool), NEW w \in Walks, PlacesKnown(list, w.todo)
    PROVE  Turn(list, w) \in Walks /\ PlacesKnown(list, Turn(list, w).todo)
<1> DEFINE left == Left(list, w)
           name == left[1].name
           step == StepNamed(list, name)
<1>1. /\ left \in Seq(Tasks) /\ PlacesKnown(list, left)
      /\ \A i \in 1..Len(left) : Has(list, left[i].name)
  BY LeftIs
<1> HIDE DEF left
<1>2. CASE left = <<>>
  BY <1>2 DEF Turn, left
<1>3. CASE left # <<>>
  <2>1. 1 \in 1..Len(left) /\ left[1] \in Tasks /\ Tail(left) \in Seq(Tasks)
    BY <1>1, <1>3
  <2>2. step \in StepPool /\ name \in Named
    BY <1>1, <2>1, StepNamedIs DEF Tasks
  <2>3. PlacesKnown(list, Tail(left))
    <3>1. \A i \in 1..Len(Tail(left)) : i + 1 \in 1..Len(left) /\ Tail(left)[i] = left[i + 1]
      BY <1>1, <1>3
    <3> QED BY <1>1, <3>1 DEF PlacesKnown
  <2>4. CASE left[1].placing
    <3>1. Turn(list, w) = [w EXCEPT !.todo = Tail(left), !.result = Append(@, step)]
      BY <1>3, <2>4 DEF Turn, left
    <3>2. Append(w.result, step) \in Seq(StepPool)
      BY <2>2 DEF Walks
    <3> HIDE DEF step
    <3> QED BY <2>1, <2>3, <3>1, <3>2 DEF Walks
  <2>5. CASE ~left[1].placing
    <3> DEFINE todo == ToVisit(step.deps) \o <<Task(name, TRUE)>> \o Tail(left)
    <3>1. Turn(list, w) = [w EXCEPT !.visited = @ \cup {name}, !.todo = todo]
      BY <1>3, <2>5 DEF Turn, left
    <3>2. step.deps \in Seq(Named)
      BY <2>2, StartupAssumption
    <3>3. ToVisit(step.deps) \in Seq(Tasks) /\ PlacesKnown(list, ToVisit(step.deps))
      BY <3>2, ToVisitIs
    <3>4. <<Task(name, TRUE)>> \in Seq(Tasks) /\ PlacesKnown(list, <<Task(name, TRUE)>>)
      BY <1>1, <2>1, <2>2 DEF Task, Tasks, PlacesKnown
    <3> DEFINE visits == ToVisit(step.deps)
               place == <<Task(name, TRUE)>>
    <3> HIDE DEF visits, place, name
    <3>5. visits \o place \in Seq(Tasks) /\ PlacesKnown(list, visits \o place)
      BY <3>3, <3>4, PlacesKnownConcat DEF visits, place
    <3>6. (visits \o place) \o Tail(left) \in Seq(Tasks)
          /\ PlacesKnown(list, (visits \o place) \o Tail(left))
      BY <2>1, <2>3, <3>5, PlacesKnownConcat
    <3>7. todo \in Seq(Tasks) /\ PlacesKnown(list, todo)
      BY <3>6 DEF visits, place
    <3> HIDE DEF todo
    <3> QED BY <2>2, <3>1, <3>7 DEF Walks
  <2> QED BY <2>4, <2>5
<1> QED BY <1>2, <1>3

LEMMA TopologicalSortType ==
    ASSUME NEW list \in Seq(StepPool)
    PROVE  TopologicalSort(list) \in Seq(StepPool)
<1> DEFINE S == {w \in Walks : PlacesKnown(list, w.todo)}
           names == [i \in 1..Len(list) |-> list[i].name]
           base == [todo |-> ToVisit(names), visited |-> {}, result |-> <<>>]
           step == [w \in Walks |-> Turn(list, w)]
<1>1. names \in Seq(Named)
  <2>1. \A i \in 1..Len(list) : list[i].name \in Named
    BY DEF Named, StepNames
  <2>2. names \in [1..Len(list) -> Named] /\ Len(list) \in Nat
    BY <2>1
  <2> QED BY <2>2
<1>2. base \in S
  <2>1. ToVisit(names) \in Seq(Tasks) /\ PlacesKnown(list, ToVisit(names))
    BY <1>1, ToVisitIs
  <2> HIDE DEF names
  <2> QED BY <2>1 DEF Walks
<1>3. \A w \in S : step[w] \in S
  BY TurnIs
<1>4. 2 * Len(list) \in Nat
  OBVIOUS
<1>5. TopologicalSort(list) = Iterated(2 * Len(list), base, step).result
  BY DEF TopologicalSort
<1>6. Iterated(2 * Len(list), base, step) \in S
  <2> HIDE DEF S, base, step
  <2> QED BY <1>2, <1>3, <1>4, IteratedKeeps
<1> QED BY <1>5, <1>6 DEF Walks

-----------------------------------------------------------------------------
(* The startup manager's inductive invariant: what a run has started is the *)
(* beginning of its order; and while no two runs overlapped, one goes at a  *)
(* time, the status says so, what it has started is up, and what it has to  *)
(* undo is still to undo.                                                   *)

RunRecords ==
    [pc : {"idle", "step", "rollback", "done", "blocked", "rolled-back"},
     order : Seq(StepPool), started : Seq(StepPool), undo : Seq(StepPool),
     race : {"open", "timed out", "returned"}, after : BOOLEAN]

StartedInOrder(r) ==
    /\ Len(r.started) <= Len(r.order)
    /\ \A i \in 1..Len(r.started) : r.started[i] = r.order[i]

RunOK(r) ==
    /\ StartedInOrder(r)
    /\ r.pc = "idle" => r = IdleStart
    /\ r.pc \in {"step", "rollback"} => Len(r.started) < Len(r.order)
    /\ r.pc = "rollback" => r.undo # <<>>
    /\ r.pc = "done" => Len(r.started) = Len(r.order)

Runs == {r \in RunRecords : RunOK(r)}

StartupTypes ==
    /\ startupSteps \in Seq(StepPool) /\ Len(startupSteps) <= MaxSteps
    /\ startupPhase \in StartupPhases
    /\ failedStep \in StepNames \cup {None, "timeout"}
    /\ shown \in StartCalls \cup {None}
    /\ up \subseteq StepNames
    /\ starts \in [StartCalls -> Runs]

StartedIsUp(r, ups) == \A i \in 1..Len(r.started) : r.started[i].name \in ups

(* What run r has started and can take down is down, or yet to undo.        *)
UndoneBut(r, undo, ups) ==
    \A i \in 1..Len(r.started) :
       (r.started[i].rollback /\ r.started[i].name \in ups) =>
           \E j \in 1..Len(undo) : undo[j].name = r.started[i].name

Alone ==
    /\ \A s, o \in StartCalls : Going(s) /\ Going(o) => s = o
    /\ \A s \in StartCalls : Going(s) => startupPhase \in {"starting", "failed"}
    /\ \A s \in StartCalls : starts[s].pc = "step" => StartedIsUp(starts[s], up)
    /\ \A s \in StartCalls : starts[s].pc = "rollback" => UndoneBut(starts[s], starts[s].undo, up)
    /\ startupPhase = "running" =>
          shown \in StartCalls /\ starts[shown].pc = "done" /\ StartedIsUp(starts[shown], up)
    /\ startupPhase = "rolled-back" => shown \in StartCalls /\ UndoneBut(starts[shown], <<>>, up)

StartupInv == StartupTypes /\ (~Overlapped => Alone)

StatusTypes ==
    /\ startupPhase \in StartupPhases /\ failedStep \in StepNames \cup {None, "timeout"}
    /\ shown \in StartCalls \cup {None}

(* What a run is after a stretch of its loop.                               *)
Became(s, r, q) ==
    /\ starts' = [starts EXCEPT ![s] = q]
    /\ q.order = r.order /\ q.started = r.started /\ q.after = r.after

Started(s, r, q) ==
    /\ Became(s, r, q)
    /\ \/ q.pc = "done" /\ startupPhase' = "running" /\ shown' = s
       \/ q.pc = "blocked" /\ startupPhase' = "failed"
       \/ /\ q.pc = "step"
          /\ startupPhase' = "starting" \/ (startupPhase' = startupPhase /\ r.started # <<>>)

Undone(s, r, undo, q) ==
    /\ Became(s, r, q) /\ q.undo = undo
    /\ \/ q.pc = "rolled-back" /\ undo = <<>> /\ startupPhase' = "rolled-back" /\ shown' = s
       \/ /\ q.pc = "rollback"
          /\ startupPhase' = "failed" \/ (startupPhase' = startupPhase /\ r.pc = "rollback")

LEMMA StepInOrder ==
    ASSUME NEW r \in RunRecords, StartedInOrder(r), Len(r.started) < Len(r.order)
    PROVE  LET k == Len(r.started) + 1
           IN  k \in 1..Len(r.order) /\ r.order[k] \in StepPool /\ r.order[k].name \in StepNames
<1>1. r.order \in Seq(StepPool) /\ r.started \in Seq(StepPool)
  BY DEF RunRecords
<1>2. Len(r.started) + 1 \in 1..Len(r.order)
  BY <1>1
<1> QED BY <1>1, <1>2 DEF StepNames

LEMMA GoesOnStarting ==
    ASSUME StartupTypes, NEW s \in StartCalls, NEW r \in RunRecords, StartedInOrder(r),
           GoOnStarting(s, r)
    PROVE  StatusTypes' /\ \E q \in Runs : Started(s, r, q)
<1> DEFINE k == Len(r.started) + 1
<1>0. r.order \in Seq(StepPool) /\ r.started \in Seq(StepPool)
  BY DEF RunRecords
<1>1. Len(r.order) \in Nat /\ Len(r.started) \in Nat
  BY <1>0
<1>2. CASE /\ k > Len(r.order)
           /\ starts' = [starts EXCEPT ![s] = [r EXCEPT !.pc = "done"]]
           /\ UpdateStatus("running", s, None)
  <2> DEFINE q == [r EXCEPT !.pc = "done"]
  <2>1. /\ q \in RunRecords /\ q.pc = "done" /\ q.order = r.order /\ q.started = r.started
        /\ q.after = r.after
    BY DEF RunRecords
  <2>2. Len(q.started) = Len(q.order)
    BY <1>1, <1>2, <2>1 DEF StartedInOrder
  <2> HIDE DEF q
  <2>3. q \in Runs
    BY <2>1, <2>2 DEF Runs, RunOK, StartedInOrder
  <2>4. Started(s, r, q)
    BY <1>2, <2>1 DEF Started, Became, UpdateStatus, q
  <2> QED BY <1>2, <2>3, <2>4 DEF UpdateStatus, StatusTypes, StartupPhases
<1>3. CASE /\ k <= Len(r.order)
           /\ starts' = [starts EXCEPT ![s] = [r EXCEPT !.pc = "blocked"]]
           /\ UpdateStatus("failed", s, r.order[k].name)
  <2> DEFINE q == [r EXCEPT !.pc = "blocked"]
  <2>1. /\ q \in RunRecords /\ q.pc = "blocked" /\ q.order = r.order /\ q.started = r.started
        /\ q.after = r.after
    BY DEF RunRecords
  <2>2. r.order[k].name \in StepNames
    BY <1>1, <1>3, StepInOrder
  <2> HIDE DEF q
  <2>3. q \in Runs
    BY <2>1 DEF Runs, RunOK, StartedInOrder
  <2>4. Started(s, r, q)
    BY <1>3, <2>1 DEF Started, Became, UpdateStatus, q
  <2> QED BY <1>3, <2>2, <2>3, <2>4 DEF UpdateStatus, StatusTypes, StartupPhases
<1>4. CASE /\ k <= Len(r.order)
           /\ starts' = [starts EXCEPT ![s] = [r EXCEPT !.pc = "step"]]
           /\ IF r.started = <<>>
              THEN UpdateStatus("starting", None, None)
              ELSE UNCHANGED <<startupPhase, shown, failedStep>>
  <2> DEFINE q == [r EXCEPT !.pc = "step"]
  <2>1. /\ q \in RunRecords /\ q.pc = "step" /\ q.order = r.order /\ q.started = r.started
        /\ q.after = r.after
    BY DEF RunRecords
  <2>2. Len(q.started) < Len(q.order)
    BY <1>1, <1>4, <2>1
  <2> HIDE DEF q
  <2>3. q \in Runs
    BY <2>1, <2>2 DEF Runs, RunOK, StartedInOrder
  <2>4. Started(s, r, q)
    BY <1>4, <2>1 DEF Started, Became, UpdateStatus, q
  <2>5. StatusTypes'
    BY <1>4 DEF UpdateStatus, StatusTypes, StartupTypes, StartupPhases
  <2> QED BY <2>3, <2>4, <2>5
<1> QED BY <1>2, <1>3, <1>4 DEF GoOnStarting

LEMMA GoesOnUndoing ==
    ASSUME StartupTypes, NEW s \in StartCalls, NEW undo \in Seq(StepPool), NEW failed \in StepNames,
           starts[s].pc \in {"step", "rollback"}, GoOnUndoing(s, undo, failed)
    PROVE  StatusTypes' /\ \E q \in Runs : Undone(s, starts[s], undo, q)
<1> DEFINE r == starts[s]
<1>1. starts \in [StartCalls -> Runs] /\ r \in RunRecords /\ RunOK(r)
  BY DEF StartupTypes, Runs
<1>2. Len(r.started) < Len(r.order) /\ StartedInOrder(r)
  BY <1>1 DEF RunOK
<1>3. CASE undo = <<>>
  <2> DEFINE q == [r EXCEPT !.pc = "rolled-back", !.undo = <<>>]
  <2>1. /\ q \in RunRecords /\ q.pc = "rolled-back" /\ q.order = r.order
        /\ q.started = r.started /\ q.after = r.after /\ q.undo = <<>>
    BY <1>1, <1>3 DEF RunRecords
  <2>2. starts' = [starts EXCEPT ![s] = q] /\ UpdateStatus("rolled-back", s, failed)
    BY <1>1, <1>3 DEF GoOnUndoing
  <2> HIDE DEF q
  <2>3. q \in Runs
    BY <1>2, <2>1 DEF Runs, RunOK, StartedInOrder
  <2>4. Undone(s, r, undo, q)
    BY <1>3, <2>1, <2>2 DEF Undone, Became, UpdateStatus
  <2> QED BY <2>2, <2>3, <2>4 DEF UpdateStatus, StatusTypes, StartupPhases
<1>4. CASE undo # <<>>
  <2> DEFINE q == [r EXCEPT !.pc = "rollback", !.undo = undo]
  <2>1. /\ q \in RunRecords /\ q.pc = "rollback" /\ q.order = r.order
        /\ q.started = r.started /\ q.after = r.after /\ q.undo = undo
    BY <1>1 DEF RunRecords
  <2>2. /\ starts' = [starts EXCEPT ![s] = q]
        /\ IF r.pc = "step" THEN UpdateStatus("failed", s, failed)
           ELSE UNCHANGED <<startupPhase, shown, failedStep>>
    BY <1>1, <1>4 DEF GoOnUndoing
  <2> HIDE DEF q
  <2>3. q \in Runs
    BY <1>2, <1>4, <2>1 DEF Runs, RunOK, StartedInOrder
  <2>4. Undone(s, r, undo, q)
    BY <2>1, <2>2 DEF Undone, Became, UpdateStatus
  <2>5. StatusTypes'
    BY <2>2 DEF UpdateStatus, StatusTypes, StartupTypes, StartupPhases
  <2> QED BY <2>3, <2>4, <2>5
<1> QED BY <1>3, <1>4

LEMMA OneRunMoves ==
    ASSUME StartupTypes, NEW s \in StartCalls, NEW q \in Runs, starts' = [starts EXCEPT ![s] = q]
    PROVE  /\ starts' \in [StartCalls -> Runs] /\ starts'[s] = q
           /\ \A o \in StartCalls : o # s => starts'[o] = starts[o]
BY DEF StartupTypes

LEMMA StaysApart ==
    ASSUME StartupTypes, NEW s \in StartCalls, NEW q \in Runs, starts' = [starts EXCEPT ![s] = q],
           starts[s].after => q.after, ~Overlapped'
    PROVE  ~Overlapped /\ ~q.after
BY OneRunMoves DEF Overlapped

(* A run that goes on alone leaves the status right.                        *)
LEMMA AloneStarts ==
    ASSUME StartupTypes, Alone, NEW s \in StartCalls, NEW r \in RunRecords, NEW q \in Runs,
           Started(s, r, q), \A o \in StartCalls : Going(o) => o = s,
           startupPhase \in {"starting", "failed"} \/ r.started = <<>>,
           StartedIsUp(r, up')
    PROVE  Alone'
<1>1. /\ starts' \in [StartCalls -> Runs] /\ starts'[s] = q
      /\ \A o \in StartCalls : o # s => starts'[o] = starts[o]
  BY OneRunMoves DEF Started, Became
<1>2. StartedIsUp(q, up')
  BY DEF Started, Became, StartedIsUp
<1>3. /\ q.pc \in {"done", "blocked", "step"}
      /\ q.pc = "step" => startupPhase' \in {"starting", "failed"}
      /\ startupPhase' = "running" => q.pc = "done" /\ shown' = s
      /\ startupPhase' # "rolled-back"
  BY DEF Started
<1>4. ASSUME NEW o \in StartCalls, o # s PROVE starts'[o].pc \notin {"step", "rollback"}
  BY <1>1, <1>4 DEF Going
<1>5. \A o \in StartCalls : starts'[o].pc \in {"step", "rollback"} => o = s /\ q.pc = "step"
  BY <1>1, <1>3, <1>4
<1> QED BY <1>1, <1>2, <1>3, <1>5 DEF Alone, Going

LEMMA AloneUndoes ==
    ASSUME StartupTypes, Alone, NEW s \in StartCalls, NEW undo \in Seq(StepPool), NEW q \in Runs,
           Going(s), Undone(s, starts[s], undo, q), UndoneBut(starts[s], undo, up')
    PROVE  Alone'
<1>1. /\ starts' \in [StartCalls -> Runs] /\ starts'[s] = q
      /\ \A o \in StartCalls : o # s => starts'[o] = starts[o]
  BY OneRunMoves DEF Undone, Became
<1>2. UndoneBut(q, undo, up') /\ q.undo = undo
  BY DEF Undone, Became, UndoneBut
<1>3. /\ q.pc \in {"rolled-back", "rollback"}
      /\ q.pc = "rollback" => startupPhase' \in {"starting", "failed"}
      /\ startupPhase' # "running"
      /\ startupPhase' = "rolled-back" => undo = <<>> /\ shown' = s
  BY DEF Undone, Alone
<1>4. ASSUME NEW o \in StartCalls, o # s PROVE starts'[o].pc \notin {"step", "rollback"}
  BY <1>1, <1>4 DEF Alone, Going
<1>5. \A o \in StartCalls : starts'[o].pc \in {"step", "rollback"} => o = s /\ q.pc = "rollback"
  BY <1>1, <1>3, <1>4
<1> QED BY <1>1, <1>2, <1>3, <1>5 DEF Alone, Going

(* What the race decides changes neither the run nor what is up.            *)
LEMMA AloneRaces ==
    ASSUME StartupTypes, Alone, NEW s \in StartCalls, NEW q \in Runs,
           Became(s, starts[s], q), q.pc = starts[s].pc, q.undo = starts[s].undo,
           UNCHANGED up, UNCHANGED <<startupPhase, shown>> \/ startupPhase' = "failed"
    PROVE  Alone'
<1>1. /\ starts' \in [StartCalls -> Runs] /\ starts'[s] = q
      /\ \A o \in StartCalls : o # s => starts'[o] = starts[o]
  BY OneRunMoves DEF Became
<1>2. \A o \in StartCalls : starts'[o].pc = starts[o].pc /\ starts'[o].started = starts[o].started
                        /\ starts'[o].undo = starts[o].undo
  BY <1>1 DEF Became
<1>3. \A o \in StartCalls : StartedIsUp(starts'[o], up') <=> StartedIsUp(starts[o], up)
  BY <1>2 DEF StartedIsUp
<1>4. \A o \in StartCalls : \A undo : UndoneBut(starts'[o], undo, up') <=> UndoneBut(starts[o], undo, up)
  BY <1>2 DEF UndoneBut
<1>5. CASE UNCHANGED <<startupPhase, shown>>
  BY <1>2, <1>3, <1>4, <1>5 DEF Alone, Going
<1>6. CASE startupPhase' = "failed"
  BY <1>2, <1>3, <1>4, <1>6 DEF Alone, Going
<1> QED BY <1>5, <1>6

LEMMA ReverseRange ==
    ASSUME NEW S, NEW s \in Seq(S)
    PROVE  Reverse(s) \in Seq(S) /\ \A i \in 1..Len(s) : s[i] \in Range(Reverse(s))
<1>1. /\ Reverse(s) \in Seq(S) /\ Len(Reverse(s)) = Len(s)
      /\ \A i \in 1..Len(s) : Reverse(s)[i] = s[(Len(s) - i) + 1]
  BY DEF Reverse
<1>2. ASSUME NEW i \in 1..Len(s) PROVE s[i] \in Range(Reverse(s))
  <2>1. (Len(s) - i) + 1 \in 1..Len(s) /\ (Len(s) - ((Len(s) - i) + 1)) + 1 = i
    OBVIOUS
  <2>2. Reverse(s)[(Len(s) - i) + 1] = s[i]
    BY <1>1, <2>1
  <2> QED BY <1>1, <2>1, <2>2 DEF Range
<1> QED BY <1>1, <1>2

LEMMA UndoableIs ==
    ASSUME StartupTypes, NEW s \in StartCalls, NEW ups
    PROVE  Undoable(s) \in Seq(StepPool) /\ UndoneBut(starts[s], Undoable(s), ups)
<1> DEFINE begun == starts[s].started
           back == Reverse(begun)
           T == {step \in StepPool : step.rollback}
           kept == KeepIn(back, T)
<1>1. begun \in Seq(StepPool)
  BY DEF StartupTypes, Runs, RunRecords
<1> HIDE DEF begun
<1>2. back \in Seq(StepPool) /\ \A i \in 1..Len(begun) : begun[i] \in Range(back)
  BY <1>1, ReverseRange
<1> HIDE DEF back
<1>3. kept \in Seq(StepPool \cap T) /\ Range(kept) = Range(back) \cap T
  <2> HIDE DEF T
  <2> QED BY <1>2, KeepInRange
<1>4. kept \in Seq(StepPool) /\ Undoable(s) = kept
  BY <1>3 DEF Undoable, back, begun
<1> HIDE DEF kept
<1>5. ASSUME NEW i \in 1..Len(begun), begun[i].rollback
      PROVE  \E j \in 1..Len(kept) : kept[j].name = begun[i].name
  <2>1. begun[i] \in StepPool
    BY <1>1
  <2>2. begun[i] \in Range(kept)
    BY <1>2, <1>3, <1>5, <2>1
  <2> QED BY <1>4, <2>2 DEF Range
<1> QED BY <1>4, <1>5 DEF UndoneBut, begun

(* Taking down the first of what is to undo leaves the rest of it.          *)
LEMMA UndoesOne ==
    ASSUME NEW r, NEW undo \in Seq(StepPool), undo # <<>>, NEW ups, UndoneBut(r, undo, ups)
    PROVE  UndoneBut(r, Tail(undo), ups \ {Head(undo).name})
<1> SUFFICES ASSUME NEW i \in 1..Len(r.started), r.started[i].rollback,
                    r.started[i].name \in ups, r.started[i].name # Head(undo).name
             PROVE  \E k \in 1..Len(Tail(undo)) : Tail(undo)[k].name = r.started[i].name
  BY DEF UndoneBut
<1>1. PICK j \in 1..Len(undo) : undo[j].name = r.started[i].name
  BY DEF UndoneBut
<1>2. j # 1
  BY <1>1
<1>3. j - 1 \in 1..Len(Tail(undo)) /\ Tail(undo)[j - 1] = undo[j]
  BY <1>2
<1> QED BY <1>1, <1>3

LEMMA Move ==
    ASSUME StartupTypes, StatusTypes', NEW s \in StartCalls, NEW q \in Runs,
           Became(s, starts[s], q) \/ (starts' = [starts EXCEPT ![s] = q]),
           UNCHANGED startupSteps, up' \subseteq StepNames
    PROVE  StartupTypes'
<1>1. starts' \in [StartCalls -> Runs]
  BY OneRunMoves DEF Became
<1> QED BY <1>1 DEF StartupTypes, StatusTypes

LEMMA Begins ==
    ASSUME NEW order \in Seq(StepPool), NEW after \in BOOLEAN
    PROVE  LET r == [IdleStart EXCEPT !.order = order, !.after = after]
           IN  /\ r \in RunRecords /\ r.started = <<>> /\ r.after = after
               /\ r.order = order
<1>1. <<>> \in Seq(StepPool)
  OBVIOUS
<1> QED BY <1>1 DEF RunRecords, IdleStart

LEMMA StartKeeps ==
    ASSUME StartupInv, NEW s \in StartCalls, Start(s) PROVE StartupInv'
<1> DEFINE after == \E o \in StartCalls : Going(o)
           r == [IdleStart EXCEPT !.order = TopologicalSort(startupSteps), !.after = after]
<1>1. StartupTypes /\ starts[s] \in Runs /\ starts[s] = IdleStart
  BY DEF StartupInv, StartupTypes, Runs, RunOK, Start
<1>2. TopologicalSort(startupSteps) \in Seq(StepPool)
  BY <1>1, TopologicalSortType DEF StartupTypes
<1>3. after \in BOOLEAN
  OBVIOUS
<1> HIDE DEF after
<1>4. /\ r \in RunRecords /\ r.started = <<>> /\ r.after = after
      /\ r.order = TopologicalSort(startupSteps)
  BY <1>2, <1>3, Begins
<1>5. GoOnStarting(s, r) /\ UNCHANGED <<startupSteps, up>>
  BY DEF Start, after
<1> HIDE DEF r
<1>6. StartedInOrder(r) /\ StartedIsUp(r, up')
  BY <1>2, <1>4 DEF StartedInOrder, StartedIsUp
<1>7. PICK q \in Runs : Started(s, r, q) /\ StatusTypes'
  BY <1>1, <1>4, <1>5, <1>6, GoesOnStarting
<1>8. StartupTypes'
  <2>1. up' \subseteq StepNames /\ starts' = [starts EXCEPT ![s] = q]
    BY <1>1, <1>5, <1>7 DEF StartupTypes, Started, Became
  <2> QED BY <1>1, <1>5, <1>7, <2>1, Move
<1>9. ASSUME ~Overlapped' PROVE Alone'
  <2>1. starts' = [starts EXCEPT ![s] = q] /\ q.after = r.after
    BY <1>7 DEF Started, Became
  <2>2. starts[s].after => q.after
    BY <1>1 DEF IdleStart
  <2>3. ~Overlapped /\ ~q.after
    BY <1>1, <1>9, <2>1, <2>2, StaysApart
  <2>4. Alone /\ \A o \in StartCalls : Going(o) => o = s
    BY <1>4, <2>1, <2>3 DEF StartupInv, after
  <2> QED BY <1>1, <1>4, <1>6, <1>7, <2>4, AloneStarts
<1> QED BY <1>8, <1>9 DEF StartupInv

LEMMA StepStartsKeeps ==
    ASSUME StartupInv, NEW s \in StartCalls, StepStarts(s) PROVE StartupInv'
<1> DEFINE step == Current(s)
           r == [starts[s] EXCEPT !.started = Append(@, step)]
<1>1. /\ StartupTypes /\ starts[s] \in RunRecords /\ StartedInOrder(starts[s])
      /\ Len(starts[s].started) < Len(starts[s].order) /\ starts[s].pc = "step"
  BY DEF StartupInv, StartupTypes, Runs, RunOK, StepStarts
<1>2. /\ Len(starts[s].started) + 1 \in 1..Len(starts[s].order)
      /\ step = starts[s].order[Len(starts[s].started) + 1]
      /\ step \in StepPool /\ step.name \in StepNames
  BY <1>1, StepInOrder DEF Current
<1>3. /\ GoOnStarting(s, r) /\ up' = up \cup {step.name} /\ UNCHANGED startupSteps
  BY DEF StepStarts
<1> HIDE DEF step
<1>4. starts[s].order \in Seq(StepPool) /\ starts[s].started \in Seq(StepPool)
  BY <1>1 DEF RunRecords
<1>5. /\ r \in RunRecords /\ r.started = Append(starts[s].started, step)
      /\ r.order = starts[s].order /\ r.after = starts[s].after
  <2>1. Append(starts[s].started, step) \in Seq(StepPool)
    BY <1>2, <1>4
  <2> QED BY <1>1, <2>1 DEF RunRecords
<1> HIDE DEF r
<1>6. StartedInOrder(r)
  BY <1>1, <1>2, <1>4, <1>5 DEF StartedInOrder
<1>7. PICK q \in Runs : Started(s, r, q) /\ StatusTypes'
  BY <1>1, <1>3, <1>5, <1>6, GoesOnStarting
<1>8. StartupTypes'
  <2>1. up' \subseteq StepNames /\ starts' = [starts EXCEPT ![s] = q]
    BY <1>1, <1>2, <1>3, <1>7 DEF StartupTypes, Started, Became
  <2> QED BY <1>1, <1>3, <1>7, <2>1, Move
<1>9. ASSUME ~Overlapped' PROVE Alone'
  <2>1. starts' = [starts EXCEPT ![s] = q] /\ q.after = starts[s].after
    BY <1>5, <1>7 DEF Started, Became
  <2>2. ~Overlapped
    BY <1>1, <1>9, <2>1, StaysApart
  <2>3. Alone
    BY <2>2 DEF StartupInv
  <2>4. /\ \A o \in StartCalls : Going(o) => o = s
        /\ startupPhase \in {"starting", "failed"} /\ StartedIsUp(starts[s], up)
    BY <1>1, <2>3 DEF Alone, Going
  <2>5. StartedIsUp(r, up')
    <3> SUFFICES ASSUME NEW i \in 1..Len(r.started) PROVE r.started[i].name \in up'
      BY DEF StartedIsUp
    <3>1. CASE i \in 1..Len(starts[s].started)
      BY <1>3, <1>4, <1>5, <2>4, <3>1 DEF StartedIsUp
    <3>2. CASE i = Len(starts[s].started) + 1
      BY <1>3, <1>4, <1>5, <3>2
    <3> QED BY <1>4, <1>5, <3>1, <3>2
  <2> QED BY <1>1, <1>5, <1>7, <2>3, <2>4, <2>5, AloneStarts
<1> QED BY <1>8, <1>9 DEF StartupInv

LEMMA StepFailsKeeps ==
    ASSUME StartupInv, NEW s \in StartCalls, StepFails(s) PROVE StartupInv'
<1>1. /\ StartupTypes /\ starts[s] \in RunRecords /\ StartedInOrder(starts[s])
      /\ Len(starts[s].started) < Len(starts[s].order) /\ starts[s].pc = "step"
  BY DEF StartupInv, StartupTypes, Runs, RunOK, StepFails
<1>2. Undoable(s) \in Seq(StepPool) /\ UndoneBut(starts[s], Undoable(s), up)
  BY <1>1, UndoableIs
<1>3. Current(s).name \in StepNames
  BY <1>1, StepInOrder DEF Current
<1>4. /\ GoOnUndoing(s, Undoable(s), Current(s).name) /\ UNCHANGED <<startupSteps, up>>
  BY DEF StepFails
<1>5. PICK q \in Runs : Undone(s, starts[s], Undoable(s), q) /\ StatusTypes'
  BY <1>1, <1>2, <1>3, <1>4, GoesOnUndoing
<1>6. StartupTypes'
  <2>1. up' \subseteq StepNames /\ Became(s, starts[s], q)
    BY <1>1, <1>4, <1>5 DEF StartupTypes, Undone
  <2> QED BY <1>1, <1>4, <1>5, <2>1, Move
<1>7. ASSUME ~Overlapped' PROVE Alone'
  <2>1. starts' = [starts EXCEPT ![s] = q] /\ q.after = starts[s].after
    BY <1>5 DEF Undone, Became
  <2>2. Alone
    BY <1>1, <1>7, <2>1, StaysApart DEF StartupInv
  <2>3. Going(s) /\ UndoneBut(starts[s], Undoable(s), up')
    BY <1>1, <1>2, <1>4 DEF Going
  <2> QED BY <1>1, <1>2, <1>5, <2>2, <2>3, AloneUndoes
<1> QED BY <1>6, <1>7 DEF StartupInv

LEMMA RollbackSettlesKeeps ==
    ASSUME StartupInv, NEW s \in StartCalls, RollbackSettles(s) PROVE StartupInv'
<1> DEFINE undo == starts[s].undo
<1>1. /\ StartupTypes /\ starts[s] \in RunRecords /\ StartedInOrder(starts[s])
      /\ Len(starts[s].started) < Len(starts[s].order) /\ starts[s].pc = "rollback"
      /\ undo \in Seq(StepPool) /\ undo # <<>>
  BY DEF StartupInv, StartupTypes, Runs, RunOK, RunRecords, RollbackSettles
<1>2. Tail(undo) \in Seq(StepPool)
  BY <1>1
<1>3. Current(s).name \in StepNames
  BY <1>1, StepInOrder DEF Current
<1>4. /\ GoOnUndoing(s, Tail(undo), Current(s).name) /\ UNCHANGED startupSteps
      /\ up' = up \ {Head(undo).name}
  BY DEF RollbackSettles
<1>5. PICK q \in Runs : Undone(s, starts[s], Tail(undo), q) /\ StatusTypes'
  BY <1>1, <1>2, <1>3, <1>4, GoesOnUndoing
<1>6. StartupTypes'
  <2>1. up' \subseteq StepNames /\ Became(s, starts[s], q)
    BY <1>1, <1>4, <1>5 DEF StartupTypes, Undone
  <2> QED BY <1>1, <1>4, <1>5, <2>1, Move
<1>7. ASSUME ~Overlapped' PROVE Alone'
  <2>1. starts' = [starts EXCEPT ![s] = q] /\ q.after = starts[s].after
    BY <1>5 DEF Undone, Became
  <2>2. Alone
    BY <1>1, <1>7, <2>1, StaysApart DEF StartupInv
  <2>3. Going(s) /\ UndoneBut(starts[s], undo, up)
    BY <1>1, <2>2 DEF Going, Alone
  <2>4. UndoneBut(starts[s], Tail(undo), up')
    BY <1>1, <1>4, <2>3, UndoesOne
  <2> QED BY <1>1, <1>2, <1>5, <2>2, <2>3, <2>4, AloneUndoes
<1> QED BY <1>6, <1>7 DEF StartupInv

LEMMA RaceKeeps ==
    ASSUME StartupInv, NEW s \in StartCalls, StartTimesOut(s) \/ StartReturns(s) PROVE StartupInv'
<1>1. StartupTypes /\ starts[s] \in Runs /\ starts[s] \in RunRecords /\ starts[s].pc # "idle"
  BY DEF StartupInv, StartupTypes, Runs, StartTimesOut, StartReturns, Going
<1>2. PICK race \in {"timed out", "returned"} :
          starts' = [starts EXCEPT ![s] = [starts[s] EXCEPT !.race = race]]
  BY <1>1 DEF StartTimesOut, StartReturns
<1>3. UNCHANGED <<startupSteps, up>>
  BY DEF StartTimesOut, StartReturns
<1>4. UNCHANGED <<startupPhase, shown>> \/ startupPhase' = "failed"
  BY DEF StartTimesOut, StartReturns, UpdateStatus
<1>5. StatusTypes'
  BY <1>1 DEF StartTimesOut, StartReturns, UpdateStatus, StartupTypes, StatusTypes, StartupPhases
<1> DEFINE q == [starts[s] EXCEPT !.race = race]
<1>6. /\ q \in RunRecords /\ q.pc = starts[s].pc /\ q.order = starts[s].order
      /\ q.started = starts[s].started /\ q.undo = starts[s].undo /\ q.after = starts[s].after
  BY <1>1 DEF RunRecords
<1>7. starts' = [starts EXCEPT ![s] = q]
  BY <1>2
<1> HIDE DEF q
<1>8. q \in Runs /\ Became(s, starts[s], q)
  BY <1>1, <1>6, <1>7 DEF Runs, RunOK, StartedInOrder, Became
<1>9. StartupTypes'
  <2>1. up' \subseteq StepNames
    BY <1>1, <1>3 DEF StartupTypes
  <2> QED BY <1>1, <1>3, <1>5, <1>8, <2>1, Move
<1>10. ASSUME ~Overlapped' PROVE Alone'
  <2>1. Alone
    BY <1>1, <1>6, <1>7, <1>8, <1>10, StaysApart DEF StartupInv
  <2> QED BY <1>1, <1>3, <1>4, <1>6, <1>8, <2>1, AloneRaces
<1> QED BY <1>9, <1>10 DEF StartupInv

LEMMA StepsChange ==
    ASSUME StartupInv, startupSteps' \in Seq(StepPool), Len(startupSteps') <= MaxSteps,
           UNCHANGED <<startupPhase, failedStep, shown, starts, up>>
    PROVE  StartupInv'
<1>1. Alone => Alone'
  BY DEF Alone, Going
<1>2. Overlapped => Overlapped'
  BY DEF Overlapped
<1>3. StartupTypes'
  BY DEF StartupInv, StartupTypes
<1>4. ASSUME ~Overlapped' PROVE Alone'
  BY <1>1, <1>2, <1>4 DEF StartupInv
<1> QED BY <1>3, <1>4 DEF StartupInv

LEMMA StartupStepInv == StartupInv /\ [StartupNext]_startupVars => StartupInv'
<1> SUFFICES ASSUME StartupInv, [StartupNext]_startupVars PROVE StartupInv'
  OBVIOUS
<1>0. startupSteps \in Seq(StepPool) /\ Len(startupSteps) <= MaxSteps /\ MaxSteps \in Nat
  BY StartupAssumption DEF StartupInv, StartupTypes
<1>1. ASSUME NEW step \in StepPool, AddStartupStep(step) PROVE StartupInv'
  <2>1. startupSteps' = Append(startupSteps, step) /\ Len(startupSteps) < MaxSteps
    BY <1>1 DEF AddStartupStep
  <2>2. startupSteps' \in Seq(StepPool) /\ Len(startupSteps') <= MaxSteps
    BY <1>0, <2>1
  <2> QED BY <1>1, <2>2, StepsChange DEF AddStartupStep
<1>2. ASSUME NEW step \in StepPool, RemoveStartupStep(step.name) PROVE StartupInv'
  <2>1. PICK i \in 1..Len(startupSteps) : startupSteps' = RemoveAt(startupSteps, i)
    BY <1>2 DEF RemoveStartupStep
  <2>2. startupSteps' \in Seq(StepPool) /\ Len(startupSteps') = Len(startupSteps) - 1
    BY <1>0, <2>1, RemoveAtIs
  <2>3. Len(startupSteps') <= MaxSteps
    BY <1>0, <2>2
  <2> QED BY <1>2, <2>2, <2>3, StepsChange DEF RemoveStartupStep
<1>3. ASSUME NEW s \in StartCalls,
             \/ Start(s) \/ StepStarts(s) \/ StepFails(s)
             \/ RollbackSettles(s) \/ StartTimesOut(s) \/ StartReturns(s)
      PROVE  StartupInv'
  BY <1>3, StartKeeps, StepStartsKeeps, StepFailsKeeps, RollbackSettlesKeeps, RaceKeeps
<1>4. CASE UNCHANGED startupVars
  BY <1>0, <1>4, StepsChange DEF startupVars
<1> QED BY <1>1, <1>2, <1>3, <1>4 DEF StartupNext

LEMMA StartupInitInv == StartupInit => StartupInv
<1> SUFFICES ASSUME StartupInit PROVE StartupInv
  OBVIOUS
<1>1. IdleStart \in Runs
  <2>1. <<>> \in Seq(StepPool)
    OBVIOUS
  <2>2. IdleStart \in RunRecords /\ IdleStart.pc = "idle"
    BY <2>1 DEF IdleStart, RunRecords
  <2>3. StartedInOrder(IdleStart)
    BY DEF IdleStart, StartedInOrder
  <2> QED BY <2>2, <2>3 DEF Runs, RunOK
<1>2. StartupTypes
  BY <1>1, StartupAssumption DEF StartupInit, StartupTypes, StartupPhases
<1>3. Alone
  BY DEF StartupInit, Alone, Going, IdleStart
<1> QED BY <1>2, <1>3 DEF StartupInv

(* The startup manager's steps, status and runs keep their type.            *)
LEMMA StartupInvType == StartupInv => StartupTypeOK
<1> SUFFICES ASSUME StartupTypes, NEW s \in StartCalls
             PROVE  /\ starts[s].pc \in {"idle", "step", "rollback", "done", "blocked",
                                         "rolled-back"}
                    /\ IsPrefix(starts[s].started, starts[s].order)
  BY DEF StartupInv, StartupTypes, StartupTypeOK
<1>1. starts[s] \in RunRecords /\ StartedInOrder(starts[s])
  BY DEF StartupTypes, Runs, RunOK
<1> DEFINE begun == starts[s].started
           order == starts[s].order
<1>2. begun \in Seq(StepPool) /\ order \in Seq(StepPool)
  BY <1>1 DEF RunRecords
<1>3. Len(begun) <= Len(order) /\ \A i \in 1..Len(begun) : begun[i] = order[i]
  BY <1>1 DEF StartedInOrder
<1> HIDE DEF begun, order
<1>4. SubSeq(begun, 1, Len(begun)) = SubSeq(order, 1, Len(begun))
  BY <1>2, <1>3
<1>5. IsPrefix(begun, order)
  BY <1>2, <1>3, <1>4 DEF IsPrefix
<1> QED BY <1>1, <1>5 DEF RunRecords, begun, order

LEMMA StartupInvStatus == StartupInv => StatusTellsWhatIsUp
<1> SUFFICES ASSUME StartupTypes, ~Overlapped => Alone PROVE StatusTellsWhatIsUp
  BY DEF StartupInv
<1>1. RunningMeansUp
  <2> SUFFICES ASSUME startupPhase = "running", ~Overlapped
               PROVE  starts[shown].pc = "done" /\ NamesOf(starts[shown].order) \subseteq up
    BY DEF RunningMeansUp
  <2>1. shown \in StartCalls /\ starts[shown].pc = "done" /\ StartedIsUp(starts[shown], up)
    BY DEF Alone
  <2>2. /\ StartedInOrder(starts[shown])
        /\ Len(starts[shown].started) = Len(starts[shown].order)
    BY <2>1 DEF StartupTypes, Runs, RunOK
  <2> QED BY <2>1, <2>2 DEF StartedIsUp, StartedInOrder, NamesOf
<1>2. FailedStartIsUndone
  BY DEF FailedStartIsUndone, Alone, UndoneBut
<1> QED BY <1>1, <1>2 DEF StatusTellsWhatIsUp

(* createStartupManager(): while the status says running, every step of the *)
(* run it shows is up, and once it says rolled back nothing is up that the  *)
(* run started and knows how to take down; for any steps and any number of  *)
(* calls that do not overlap, whatever fails, hangs or times out.           *)
THEOREM StatusTellsWhatIsUpAlways ==
    StartupSpec => [](StatusTellsWhatIsUp /\ StartupTypeOK)
<1>1. StartupSpec => []StartupInv
  BY StartupInitInv, StartupStepInv, PTL DEF StartupSpec
<1>2. StartupInv => StatusTellsWhatIsUp /\ StartupTypeOK
  BY StartupInvStatus, StartupInvType
<1> QED BY <1>1, <1>2, PTL

-----------------------------------------------------------------------------
(* The adapters.  A request by itself: what it may be at each stage, which  *)
(* is what its reply can be trusted for.                                    *)

StageOK(q) ==
    /\ q.pc = "idle" => q.ran = Nothing /\ q.reply = Nothing
    /\ q.pc = "parsing" => kind = "webhook" /\ q.ran = Nothing /\ q.reply = Nothing
    /\ q.pc = "handling" => q.ran = "running"
    /\ q.ran = "running" => \/ q.pc = "handling" /\ q.reply = Nothing
                            \/ q.pc = "done" /\ q.reply = "error" /\ kind = "webhook"

ReplyOK(q) ==
    /\ q.ran # Nothing =>
          /\ Known(q.command) \/ kind = "webhook"
          /\ \/ Requires(q.command) \in ViewerActions
             \/ q.role = "admin" \/ kind \in {"mcp", "webhook"}
    /\ q.reply = "ok" => q.ran = "ok" /\ Known(q.command)
    /\ q.reply \in {"denied", "unknown", "unavailable"} => q.ran = Nothing
    /\ q.reply = "error" => q.ran # Nothing \/ kind = "webhook"

RequestTypes ==
    /\ kind \in AdapterKinds
    /\ requests \in [AdapterRequests -> RequestRecords]

RequestInv ==
    /\ RequestTypes
    /\ GaugeCountsTheRequests
    /\ \A r \in AdapterRequests : StageOK(requests[r]) /\ ReplyOK(requests[r])

(* One request becomes q, and the gauge follows.                            *)
Becomes(r, q) ==
    /\ requests' = [requests EXCEPT ![r] = q]
    /\ kind' = kind
    /\ \/ Counted(q) /\ ~Counted(requests[r]) /\ gauge' = gauge + 1
       \/ ~Counted(q) /\ Counted(requests[r]) /\ Uncount
       \/ (Counted(q) <=> Counted(requests[r])) /\ gauge' = gauge

LEMMA GaugeFollows ==
    ASSUME RequestInv, NEW r \in AdapterRequests, NEW q \in RequestRecords, Becomes(r, q)
    PROVE  GaugeCountsTheRequests'
<1> DEFINE S == {o \in AdapterRequests : Counted(requests[o])}
           T == {o \in AdapterRequests : Counted(requests'[o])}
<1>1. /\ requests'[r] = q /\ kind' = kind
      /\ \A o \in AdapterRequests : o # r => requests'[o] = requests[o]
  BY DEF Becomes, RequestInv, RequestTypes
<1>2. gauge = Cardinality(S)
  BY DEF RequestInv, GaugeCountsTheRequests
<1>3. IsFiniteSet(S)
  BY FS_Subset, AdapterAssumption
<1>4. T = {o \in AdapterRequests : Counted(requests[o])'}
  BY <1>1 DEF Counted
<1>5. SUFFICES gauge' = Cardinality(T)
  BY <1>4 DEF GaugeCountsTheRequests
<1>6. CASE Counted(q) /\ ~Counted(requests[r]) /\ gauge' = gauge + 1
  <2>1. T = S \cup {r} /\ r \notin S
    BY <1>1, <1>6
  <2> QED BY <1>2, <1>3, <1>6, <2>1, FS_AddElement
<1>7. CASE ~Counted(q) /\ Counted(requests[r]) /\ Uncount
  <2>1. T = S \ {r} /\ r \in S
    BY <1>1, <1>7
  <2>2. Cardinality(T) = Cardinality(S) - 1
    BY <1>3, <2>1, FS_RemoveElement
  <2>3. Cardinality(S) \in Nat /\ Cardinality(T) \in Nat
    BY <1>3, <2>1, FS_RemoveElement, FS_CardinalityType
  <2> QED BY <1>2, <1>7, <2>2, <2>3 DEF Uncount
<1>8. CASE (Counted(q) <=> Counted(requests[r])) /\ gauge' = gauge
  <2>1. T = S
    BY <1>1, <1>8
  <2> QED BY <1>2, <1>8, <2>1
<1> QED BY <1>6, <1>7, <1>8 DEF Becomes

LEMMA RequestMoves ==
    ASSUME RequestInv, NEW r \in AdapterRequests, NEW q \in RequestRecords, Becomes(r, q),
           StageOK(q), ReplyOK(q)
    PROVE  RequestInv'
<1>1. /\ requests'[r] = q /\ kind' = kind /\ kind \in AdapterKinds
      /\ \A o \in AdapterRequests : o # r => requests'[o] = requests[o]
      /\ requests' \in [AdapterRequests -> RequestRecords]
  BY DEF Becomes, RequestInv, RequestTypes
<1>2. \A o \in AdapterRequests : StageOK(requests'[o]) /\ ReplyOK(requests'[o])
  BY <1>1 DEF RequestInv
<1>3. \A o \in AdapterRequests : StageOK(requests[o])' /\ ReplyOK(requests[o])'
  BY <1>1, <1>2 DEF StageOK, ReplyOK, Known, Requires
<1> QED BY <1>1, <1>3, GaugeFollows DEF RequestInv, RequestTypes

Roles == {"admin", "viewer"}

LEMMA AwaitedIs ==
    ASSUME NEW reply PROVE Awaited(reply) \in {"replying", "done"}
BY DEF Awaited

LEMMA Refused ==
    ASSUME RequestInv, NEW r \in AdapterRequests, NEW role \in Roles, NEW command \in AdapterCommands,
           NEW reply \in {"unavailable", "unknown", "denied"},
           requests[r].pc = "idle", Refuse(r, role, command, reply), kind' = kind
    PROVE  RequestInv'
<1> DEFINE old == requests[r]
           q == [old EXCEPT !.pc = Awaited(reply), !.role = role, !.command = command, !.reply = reply]
<1>1. old \in RequestRecords /\ StageOK(old) /\ ReplyOK(old) /\ old.ran = Nothing
  BY DEF RequestInv, RequestTypes, StageOK
<1>2. /\ q \in RequestRecords /\ q.pc = Awaited(reply) /\ q.reply = reply /\ q.ran = Nothing
      /\ q.command = command
  BY <1>1, AwaitedIs DEF RequestRecords, Replies, Roles
<1>3. requests' = [requests EXCEPT ![r] = q] /\ gauge' = gauge
  BY DEF Refuse
<1> HIDE DEF q
<1>4. q.pc \in {"replying", "done"}
  BY <1>2, AwaitedIs
<1>5. ~Counted(q) /\ ~Counted(old)
  BY <1>2, <1>4 DEF Counted
<1>6. Becomes(r, q)
  BY <1>3, <1>5 DEF Becomes
<1>7. StageOK(q) /\ ReplyOK(q)
  BY <1>2, <1>4 DEF StageOK, ReplyOK, Nothing
<1> QED BY <1>2, <1>6, <1>7, RequestMoves

LEMMA Begun ==
    ASSUME RequestInv, NEW r \in AdapterRequests, NEW role \in Roles, NEW command \in AdapterCommands,
           Receive(r, role, command)
    PROVE  RequestInv'
<1> DEFINE old == requests[r]
           pc == IF kind = "webhook" THEN "parsing" ELSE "handling"
           q == [old EXCEPT !.pc = pc, !.role = role, !.command = command,
                            !.ran = IF pc = "handling" THEN "running" ELSE Nothing]
<1>1. old \in RequestRecords /\ StageOK(old) /\ ReplyOK(old) /\ old.reply = Nothing /\ old.pc = "idle"
  BY DEF RequestInv, RequestTypes, StageOK, Receive
<1>2. /\ q \in RequestRecords /\ q.pc = pc /\ q.reply = Nothing
      /\ q.ran = IF pc = "handling" THEN "running" ELSE Nothing
      /\ q.command = command /\ q.role = role
  BY <1>1 DEF RequestRecords, Roles
<1>3. requests' = [requests EXCEPT ![r] = q] /\ gauge' = gauge + 1 /\ kind' = kind
  BY DEF Receive, Begin, lifecycle
<1>4. kind = "webhook" \/ (Known(command) /\ Permitted(role, command))
  BY DEF Receive
<1> HIDE DEF q
<1>5. Counted(q) /\ ~Counted(old)
  BY <1>1, <1>2 DEF Counted
<1>6. Becomes(r, q)
  BY <1>3, <1>5 DEF Becomes
<1>7. StageOK(q)
  BY <1>2 DEF StageOK, Nothing
<1>8. ASSUME kind # "webhook" PROVE \/ Requires(command) \in ViewerActions
                                    \/ role = "admin" \/ kind = "mcp"
  BY <1>4, <1>8 DEF Permitted, Can, RoleOf
<1>9. ReplyOK(q)
  BY <1>2, <1>4, <1>8 DEF ReplyOK, Nothing
<1> QED BY <1>2, <1>6, <1>7, <1>9, RequestMoves

LEMMA Parsed ==
    ASSUME RequestInv, NEW r \in AdapterRequests, ParseFails(r) \/ ParseSettles(r)
    PROVE  RequestInv'
<1> DEFINE old == requests[r]
<1>1. /\ old \in RequestRecords /\ StageOK(old) /\ ReplyOK(old) /\ old.pc = "parsing"
      /\ old.ran = Nothing /\ kind = "webhook" /\ old.reply = Nothing
      /\ kind' = kind /\ Counted(old)
  BY DEF RequestInv, RequestTypes, StageOK, ParseFails, ParseSettles, lifecycle, Counted
<1>2. ASSUME NEW reply \in {"error", "denied", "unknown"}, Request(r, "done", reply), Uncount
      PROVE  RequestInv'
  <2> DEFINE q == [old EXCEPT !.pc = "done", !.reply = reply]
  <2>1. /\ q \in RequestRecords /\ q.pc = "done" /\ q.reply = reply /\ q.ran = Nothing
    BY <1>1 DEF RequestRecords, Replies
  <2>2. requests' = [requests EXCEPT ![r] = q]
    BY <1>2 DEF Request
  <2> HIDE DEF q
  <2>3. Becomes(r, q)
    BY <1>1, <1>2, <2>1, <2>2 DEF Becomes, Counted
  <2>4. StageOK(q) /\ ReplyOK(q)
    BY <1>1, <2>1 DEF StageOK, ReplyOK, Nothing
  <2> QED BY <2>1, <2>3, <2>4, RequestMoves
<1>3. ASSUME requests' = [requests EXCEPT ![r].pc = "handling", ![r].ran = "running"], gauge' = gauge
      PROVE  RequestInv'
  <2> DEFINE q == [old EXCEPT !.pc = "handling", !.ran = "running"]
  <2>1. q \in RequestRecords /\ q.pc = "handling" /\ q.reply = Nothing /\ q.ran = "running"
    BY <1>1 DEF RequestRecords
  <2>2. requests' = [requests EXCEPT ![r] = q]
    BY <1>3
  <2> HIDE DEF q
  <2>3. Becomes(r, q)
    BY <1>1, <1>3, <2>1, <2>2 DEF Becomes, Counted
  <2>4. StageOK(q) /\ ReplyOK(q)
    BY <1>1, <2>1 DEF StageOK, ReplyOK, Nothing
  <2> QED BY <2>1, <2>3, <2>4, RequestMoves
<1> QED BY <1>2, <1>3 DEF ParseFails, ParseSettles

LEMMA OutcomesAre ==
    ASSUME kind \in AllKinds, NEW command, NEW outcome \in Outcomes(command)
    PROVE  /\ outcome \in {"ok", "error", "threw"}
           /\ outcome = "ok" => Known(command) \/ kind # "webhook"
<1>1. CASE kind = "webhook" /\ ~Known(command)
  BY <1>1 DEF Outcomes
<1>2. CASE ~(kind = "webhook" /\ ~Known(command))
  BY <1>2 DEF Outcomes
<1> QED BY <1>1, <1>2

LEMMA Settled ==
    ASSUME RequestInv, NEW r \in AdapterRequests, NEW outcome, HandlerSettles(r, outcome)
    PROVE  RequestInv'
<1> DEFINE old == requests[r]
           heard == old.pc = "handling"
           reply == IF outcome = "ok" THEN "ok" ELSE "error"
           q == [old EXCEPT !.ran = outcome,
                            !.pc = IF heard THEN Awaited(reply) ELSE @,
                            !.reply = IF heard THEN reply ELSE @]
<1>1. /\ old \in RequestRecords /\ StageOK(old) /\ ReplyOK(old) /\ old.ran = "running"
      /\ kind' = kind /\ kind \in AllKinds
  BY AdapterAssumption DEF RequestInv, RequestTypes, HandlerSettles, lifecycle
<1>2. outcome \in {"ok", "error", "threw"} /\ (outcome = "ok" => Known(old.command) \/ kind # "webhook")
  BY <1>1, OutcomesAre DEF HandlerSettles
<1>3. requests' = [requests EXCEPT ![r] = q]
  BY DEF HandlerSettles
<1>4. gauge' = gauge \/ Uncount
  BY DEF HandlerSettles
<1>5. old.ran # Nothing
  BY <1>1 DEF Nothing
<1>6. CASE heard
  <2>1. /\ q \in RequestRecords /\ q.ran = outcome /\ q.pc = Awaited(reply) /\ q.reply = reply
        /\ q.command = old.command /\ q.role = old.role
    BY <1>1, <1>2, <1>6, AwaitedIs DEF RequestRecords, Replies
  <2>2. q.pc = (IF kind \in Telegram \cup {"discord"} THEN "replying" ELSE "done") /\ q.ran # Nothing
    BY <1>2, <2>1 DEF Awaited, Nothing
  <2> HIDE DEF q
  <2>3. Counted(old) /\ (Counted(q) <=> kind = "discord")
    BY <1>6, <2>1, <2>2 DEF Counted
  <2>4. IF kind # "discord" THEN Uncount ELSE gauge' = gauge
    BY <1>6 DEF HandlerSettles
  <2>5. Becomes(r, q)
    BY <1>1, <1>3, <2>3, <2>4 DEF Becomes
  <2>6. StageOK(q)
    BY <1>2, <2>1, <2>2 DEF StageOK, Nothing
  <2>7. ReplyOK(q)
    BY <1>1, <1>2, <1>5, <2>1, <2>2 DEF ReplyOK, Nothing
  <2> QED BY <2>1, <2>5, <2>6, <2>7, RequestMoves
<1>7. CASE ~heard
  <2>1. old.pc = "done" /\ old.reply = "error" /\ kind = "webhook"
    BY <1>1, <1>7 DEF StageOK
  <2>2. /\ q \in RequestRecords /\ q.ran = outcome /\ q.pc = "done" /\ q.reply = "error"
        /\ q.command = old.command /\ q.role = old.role /\ q.ran # Nothing
    BY <1>1, <1>2, <1>7, <2>1 DEF RequestRecords, Nothing
  <2> HIDE DEF q
  <2>3. gauge' = gauge
    BY <1>7 DEF HandlerSettles
  <2>4. Becomes(r, q)
    BY <1>1, <1>3, <2>1, <2>2, <2>3 DEF Becomes, Counted
  <2>5. StageOK(q)
    BY <1>2, <2>2 DEF StageOK
  <2>6. ReplyOK(q)
    BY <1>1, <1>5, <2>1, <2>2 DEF ReplyOK
  <2> QED BY <2>2, <2>4, <2>5, <2>6, RequestMoves
<1> QED BY <1>6, <1>7

LEMMA TimedOut ==
    ASSUME RequestInv, NEW r \in AdapterRequests, WebhookTimesOut(r)
    PROVE  RequestInv'
<1> DEFINE old == requests[r]
           q == [old EXCEPT !.pc = "done", !.reply = "error"]
<1>1. /\ old \in RequestRecords /\ StageOK(old) /\ ReplyOK(old) /\ old.pc = "handling"
      /\ kind' = kind /\ kind = "webhook" /\ old.ran = "running" /\ Uncount
  BY DEF RequestInv, RequestTypes, WebhookTimesOut, lifecycle, StageOK
<1>2. /\ q \in RequestRecords /\ q.ran = "running" /\ q.pc = "done" /\ q.reply = "error"
      /\ q.command = old.command /\ q.role = old.role
  BY <1>1 DEF RequestRecords, Replies
<1>3. requests' = [requests EXCEPT ![r] = q]
  BY DEF WebhookTimesOut, Request
<1> HIDE DEF q
<1>4. Becomes(r, q)
  BY <1>1, <1>2, <1>3 DEF Becomes, Counted
<1>5. StageOK(q) /\ ReplyOK(q)
  BY <1>1, <1>2 DEF StageOK, ReplyOK, Nothing
<1> QED BY <1>2, <1>4, <1>5, RequestMoves

LEMMA ReplyArrives ==
    ASSUME RequestInv, NEW r \in AdapterRequests, NEW sent \in BOOLEAN, ReplySettles(r, sent)
    PROVE  RequestInv'
<1> DEFINE old == requests[r]
           again == kind = "discord" /\ ~sent /\ old.reply = "ok"
           q == [old EXCEPT !.pc = IF again THEN @ ELSE "done",
                            !.reply = IF sent THEN @ ELSE IF again THEN "error" ELSE "lost"]
<1>1. /\ old \in RequestRecords /\ StageOK(old) /\ ReplyOK(old) /\ old.pc = "replying"
      /\ kind' = kind /\ old.ran # "running"
  BY DEF RequestInv, RequestTypes, ReplySettles, lifecycle, StageOK
<1>2. requests' = [requests EXCEPT ![r] = q]
  BY DEF ReplySettles
<1>3. IF kind = "discord" /\ ~again /\ old.ran # Nothing THEN Uncount ELSE gauge' = gauge
  BY DEF ReplySettles
<1>4. CASE again
  <2>1. /\ q \in RequestRecords /\ q.ran = old.ran /\ q.pc = "replying" /\ q.reply = "error"
        /\ q.command = old.command /\ q.role = old.role
    BY <1>1, <1>4 DEF RequestRecords, Replies
  <2> HIDE DEF q
  <2>2. Becomes(r, q)
    BY <1>1, <1>2, <1>3, <1>4, <2>1 DEF Becomes, Counted
  <2>3. old.ran # Nothing
    BY <1>1, <1>4 DEF ReplyOK, Nothing
  <2>4. StageOK(q) /\ ReplyOK(q)
    BY <1>1, <2>1, <2>3 DEF StageOK, ReplyOK
  <2> QED BY <2>1, <2>2, <2>4, RequestMoves
<1>5. CASE ~again
  <2>1. /\ q \in RequestRecords /\ q.ran = old.ran /\ q.pc = "done" /\ q.reply \in {old.reply, "lost"}
        /\ q.command = old.command /\ q.role = old.role
    BY <1>1, <1>5 DEF RequestRecords, Replies
  <2> HIDE DEF q
  <2>2. ~Counted(q) /\ (Counted(old) <=> kind = "discord" /\ old.ran # Nothing)
    BY <1>1, <2>1 DEF Counted
  <2>3. Becomes(r, q)
    BY <1>1, <1>2, <1>3, <1>5, <2>2 DEF Becomes
  <2>4. StageOK(q) /\ ReplyOK(q)
    BY <1>1, <2>1 DEF StageOK, ReplyOK
  <2> QED BY <2>1, <2>3, <2>4, RequestMoves
<1> QED BY <1>4, <1>5

-----------------------------------------------------------------------------
(* The connection: at most one call connects or disconnects a bot that      *)
(* polls, and a tool server takes the flag and the connection together.     *)

OneAtATime ==
    /\ \A c, d \in AdapterCallers :
          callers[c] \in {"starting", "stopping"} /\ callers[d] \in {"starting", "stopping"} => c = d
    /\ \A c \in AdapterCallers :
          callers[c] \in {"starting", "stopping"} =>
             connection = "down" /\ (started <=> callers[c] = "stopping")
    /\ ~Underway({"starting", "stopping"}) => (started <=> connection = "up")

Attached ==
    /\ kind \notin Remote => \A c \in AdapterCallers : callers[c] \notin {"starting", "stopping"}
    /\ kind = "telegram-polling" /\ ~disturbed => OneAtATime
    /\ kind = "mcp" => (started <=> connection = "up")

ConnectionTypes ==
    /\ prepared \in BOOLEAN /\ started \in BOOLEAN /\ lastError \in BOOLEAN /\ disturbed \in BOOLEAN
    /\ connection \in {"up", "down"}
    /\ callers \in [AdapterCallers -> CallStages]

ConnectionInv == ConnectionTypes /\ Attached

Lives(c) ==
    \/ Connecting(c)
    \/ /\ kind \in Telegram
       /\ \/ PollingEnds(c) \/ PollingBreaks(c)
          \/ \E ok \in BOOLEAN : InitSettles(c, ok)

(* A call that neither connects nor disconnects goes on.                    *)
LEMMA CallGoesOn ==
    ASSUME ConnectionInv, NEW c \in AdapterCallers, NEW pc \in CallStages \ {"starting", "stopping"},
           CallMoves(c, pc), callers[c] \notin {"starting", "stopping"},
           UNCHANGED <<kind, started, connection, disturbed>>,
           prepared' \in BOOLEAN, lastError' \in BOOLEAN
    PROVE  ConnectionInv'
<1>1. /\ callers' \in [AdapterCallers -> CallStages] /\ callers'[c] = pc
      /\ \A d \in AdapterCallers : d # c => callers'[d] = callers[d]
  BY DEF ConnectionInv, ConnectionTypes, CallMoves
<1>2. \A d \in AdapterCallers :
         callers'[d] \in {"starting", "stopping"} <=> callers[d] \in {"starting", "stopping"}
  BY <1>1
<1>3. \A d \in AdapterCallers :
         callers[d] \in {"starting", "stopping"} => callers'[d] = callers[d]
  BY <1>1
<1>4. Underway({"starting", "stopping"})' <=> Underway({"starting", "stopping"})
  BY <1>2 DEF Underway
<1>5. OneAtATime => OneAtATime'
  BY <1>2, <1>3, <1>4 DEF OneAtATime
<1>6. Attached'
  BY <1>2, <1>5 DEF ConnectionInv, Attached
<1> QED BY <1>1, <1>6 DEF ConnectionInv, ConnectionTypes

LEMMA LivesOn ==
    ASSUME ConnectionInv, kind \in AllKinds, NEW c \in AdapterCallers, Lives(c)
    PROVE  ConnectionInv' /\ kind' = kind /\ requests' = requests /\ gauge' = gauge
<1> USE DEF CallStages
<1>1. kind' = kind /\ requests' = requests /\ gauge' = gauge
  BY DEF Lives, Connecting, Initialize, StartRefused, StartAdapter, Connects, ConnectFails,
         StopAdapter, StopSettles, StopFails, PollingEnds, PollingBreaks, InitSettles
<1>2. CASE Initialize(c)
  <2>1. /\ CallMoves(c, IF kind \in Telegram /\ ~prepared THEN "initializing" ELSE "idle")
        /\ callers[c] \notin {"starting", "stopping"} /\ prepared' \in BOOLEAN /\ lastError' \in BOOLEAN
        /\ UNCHANGED <<kind, started, connection, disturbed>>
    BY <1>2 DEF Initialize, ConnectionInv, ConnectionTypes
  <2> QED BY <1>1, <2>1, CallGoesOn
<1>3. CASE StartRefused(c) \/ PollingEnds(c) \/ \E ok \in BOOLEAN : InitSettles(c, ok)
  <2>1. /\ \E pc \in {"threw", "idle"} : CallMoves(c, pc)
        /\ callers[c] \notin {"starting", "stopping"} /\ prepared' \in BOOLEAN /\ lastError' \in BOOLEAN
        /\ UNCHANGED <<kind, started, connection, disturbed>>
    BY <1>3 DEF StartRefused, PollingEnds, InitSettles, ConnectionInv, ConnectionTypes
  <2> QED BY <1>1, <2>1, CallGoesOn
<1> DEFINE Moves(pc) == /\ callers' \in [AdapterCallers -> CallStages] /\ callers'[c] = pc
                        /\ \A d \in AdapterCallers : d # c => callers'[d] = callers[d]
<1>4. ASSUME NEW pc \in CallStages, CallMoves(c, pc) PROVE Moves(pc)
  BY <1>4 DEF CallMoves, ConnectionInv, ConnectionTypes
<1> HIDE DEF Moves
<1>5. CASE StartAdapter(c)
  <2>1. CASE kind \notin Remote
    <3>1. /\ CallMoves(c, "idle") /\ callers[c] \in {"idle", "threw"}
          /\ started' \in BOOLEAN /\ lastError' \in BOOLEAN /\ prepared' = prepared
          /\ UNCHANGED <<connection, disturbed>>
      BY <1>5, <2>1 DEF StartAdapter, ConnectionInv, ConnectionTypes
    <3>2. Moves("idle")
      BY <1>4, <3>1
    <3> QED BY <1>1, <2>1, <3>1, <3>2 DEF Moves, ConnectionInv, ConnectionTypes, Attached, Remote
  <2>2. CASE kind \in Remote
    <3>1. /\ callers[c] \in {"idle", "threw"}
          /\ UNCHANGED <<prepared, started, lastError, connection, disturbed>>
      BY <1>5, <2>2 DEF StartAdapter
    <3>2. CASE CallMoves(c, "idle")
      BY <1>1, <3>1, <3>2, CallGoesOn DEF ConnectionInv, ConnectionTypes
    <3>3. CASE /\ CallMoves(c, "starting") /\ ~started
               /\ kind = "telegram-polling" => connection = "down" /\ ~Underway({"starting"})
      <4>1. Moves("starting")
        BY <1>4, <3>3
      <4>2. ASSUME kind = "telegram-polling", ~disturbed PROVE OneAtATime'
        <5>1. OneAtATime /\ connection = "down" /\ ~Underway({"starting"})
          BY <3>3, <4>2 DEF ConnectionInv, Attached
        <5>2. \A d \in AdapterCallers : callers[d] \notin {"starting", "stopping"}
          BY <3>3, <5>1 DEF Underway, OneAtATime
        <5>3. Underway({"starting", "stopping"})'
          BY <4>1 DEF Moves, Underway
        <5> QED BY <3>1, <3>3, <4>1, <5>1, <5>2, <5>3 DEF Moves, OneAtATime
      <4> QED BY <1>1, <2>2, <3>1, <4>1, <4>2 DEF Moves, ConnectionInv, ConnectionTypes, Attached
    <3> QED BY <1>5, <2>2, <3>2, <3>3 DEF StartAdapter, ConnectionInv, ConnectionTypes
  <2> QED BY <2>1, <2>2
<1>6. CASE Connects(c)
  <2>1. /\ callers[c] = "starting" /\ connection' = "up" /\ UNCHANGED <<prepared, disturbed>>
        /\ started' \in BOOLEAN /\ lastError' \in BOOLEAN
        /\ kind # "discord" => started' = TRUE
    BY <1>6 DEF Connects, ConnectionInv, ConnectionTypes
  <2>2. kind \in Remote
    BY <2>1 DEF ConnectionInv, Attached
  <2>3. kind \in {"telegram-polling", "mcp", "discord"}
    BY <2>2 DEF Remote
  <2>4. QED
    <3>1. PICK pc \in {"idle", "polling", "threw"} : CallMoves(c, pc)
      BY <1>6, <2>3 DEF Connects
    <3>2. Moves(pc)
      BY <1>4, <3>1
    <3>3. ASSUME kind = "telegram-polling", ~disturbed PROVE OneAtATime'
      <4>1. OneAtATime
        BY <3>3 DEF ConnectionInv, Attached
      <4>2. \A d \in AdapterCallers : callers'[d] \notin {"starting", "stopping"}
        BY <2>1, <3>2, <4>1 DEF Moves, OneAtATime
      <4> QED BY <2>1, <3>3, <4>2 DEF OneAtATime
    <3> QED BY <1>1, <2>1, <2>2, <2>3, <3>2, <3>3 DEF Moves, ConnectionInv, ConnectionTypes, Attached
<1>8. CASE ConnectFails(c)
  <2>1. /\ callers[c] = "starting" /\ CallMoves(c, "threw")
        /\ UNCHANGED <<prepared, started, lastError, connection, disturbed>>
    BY <1>8 DEF ConnectFails
  <2>2. Moves("threw")
    BY <1>4, <2>1
  <2>3. ASSUME kind = "telegram-polling", ~disturbed PROVE OneAtATime'
    <3>1. OneAtATime
      BY <2>3 DEF ConnectionInv, Attached
    <3>2. \A d \in AdapterCallers : callers'[d] \notin {"starting", "stopping"}
      BY <2>1, <2>2, <3>1 DEF Moves, OneAtATime
    <3> QED BY <2>1, <3>1, <3>2 DEF OneAtATime
  <2> QED BY <1>1, <2>1, <2>2, <2>3 DEF Moves, ConnectionInv, ConnectionTypes, Attached
<1>9. CASE kind \in Telegram /\ PollingBreaks(c)
  <2>1. /\ CallMoves(c, "threw") /\ connection' = "down" /\ disturbed' = TRUE
        /\ UNCHANGED <<prepared, started, lastError>>
    BY <1>9 DEF PollingBreaks
  <2>2. Moves("threw")
    BY <1>4, <2>1
  <2>3. kind # "mcp"
    BY <1>9 DEF Telegram
  <2> QED BY <1>1, <2>1, <2>2, <2>3 DEF Moves, ConnectionInv, ConnectionTypes, Attached
<1>10. CASE StopAdapter(c)
  <2>1. CASE kind \notin Remote
    <3>1. /\ CallMoves(c, "idle") /\ callers[c] \in {"idle", "threw"}
          /\ started' = FALSE
          /\ UNCHANGED <<prepared, lastError, connection, disturbed>>
      BY <1>10, <2>1 DEF StopAdapter
    <3>2. Moves("idle")
      BY <1>4, <3>1
    <3> QED BY <1>1, <2>1, <3>1, <3>2 DEF Moves, ConnectionInv, ConnectionTypes, Attached, Remote
  <2>2. CASE kind \in Remote
    <3>1. /\ callers[c] \in {"idle", "threw"} /\ CallMoves(c, "stopping")
          /\ UNCHANGED <<prepared, started, lastError>>
          /\ connection' = IF kind = "telegram-polling" THEN "down" ELSE connection
          /\ disturbed' = (disturbed \/ Underway({"stopping"}))
          /\ kind # "discord" => started
      BY <1>10, <2>2 DEF StopAdapter, CanStop
    <3>2. Moves("stopping")
      BY <1>4, <3>1
    <3>3. disturbed' \in BOOLEAN /\ (~disturbed' => ~disturbed /\ ~Underway({"stopping"}))
      <4>1. disturbed \in BOOLEAN /\ Underway({"stopping"}) \in BOOLEAN
        BY DEF ConnectionInv, ConnectionTypes, Underway
      <4> QED BY <3>1, <4>1
    <3>4. ASSUME kind = "telegram-polling", ~disturbed' PROVE OneAtATime'
      <4>1. OneAtATime /\ started /\ connection' = "down" /\ started' = started
        BY <3>1, <3>3, <3>4 DEF ConnectionInv, Attached
      <4>2. \A d \in AdapterCallers : callers[d] \notin {"starting", "stopping"}
        BY <3>3, <3>4, <4>1 DEF OneAtATime, Underway
      <4>3. \A d \in AdapterCallers :
               callers'[d] \in {"starting", "stopping"} => d = c /\ callers'[d] = "stopping"
        BY <3>2, <4>2 DEF Moves
      <4>4. Underway({"starting", "stopping"})'
        BY <3>2 DEF Moves, Underway
      <4> QED BY <4>1, <4>3, <4>4 DEF OneAtATime
    <3>5. kind = "mcp" => connection' = connection
      BY <3>1
    <3>6. connection' \in {"up", "down"}
      BY <3>1 DEF ConnectionInv, ConnectionTypes
    <3>7. ConnectionTypes'
      BY <3>1, <3>2, <3>3, <3>6 DEF Moves, ConnectionInv, ConnectionTypes
    <3>8. Attached'
      BY <1>1, <2>2, <3>1, <3>4, <3>5 DEF ConnectionInv, Attached
    <3> QED BY <1>1, <3>7, <3>8 DEF ConnectionInv
  <2> QED BY <2>1, <2>2
<1>11. CASE StopSettles(c)
  <2>1. /\ callers[c] = "stopping" /\ started' = FALSE /\ UNCHANGED <<lastError, disturbed>>
        /\ connection' = IF kind = "telegram-polling" THEN connection ELSE "down"
        /\ prepared' = (prepared /\ kind # "discord")
        /\ \E pc \in {"threw", "idle"} : CallMoves(c, pc)
    BY <1>11 DEF StopSettles
  <2>2. PICK pc \in {"threw", "idle"} : Moves(pc)
    BY <1>4, <2>1
  <2>3. kind \in Remote
    BY <2>1 DEF ConnectionInv, Attached
  <2>4. prepared' \in BOOLEAN
    BY <2>1 DEF ConnectionInv, ConnectionTypes
  <2>5. ASSUME kind = "telegram-polling", ~disturbed PROVE OneAtATime'
    <3>1. OneAtATime /\ connection' = connection
      BY <2>1, <2>5 DEF ConnectionInv, Attached
    <3>2. \A d \in AdapterCallers : callers'[d] \notin {"starting", "stopping"}
      BY <2>1, <2>2, <3>1 DEF Moves, OneAtATime
    <3>3. connection = "down"
      BY <2>1, <3>1 DEF OneAtATime
    <3> QED BY <2>1, <3>1, <3>2, <3>3 DEF OneAtATime
  <2>6. connection' \in {"up", "down"} /\ (kind = "mcp" => connection' = "down")
    BY <2>1 DEF ConnectionInv, ConnectionTypes
  <2>7. ConnectionTypes'
    BY <2>1, <2>2, <2>4, <2>6 DEF Moves, ConnectionInv, ConnectionTypes
  <2>8. Attached'
    BY <1>1, <2>1, <2>3, <2>5, <2>6 DEF ConnectionInv, Attached
  <2> QED BY <1>1, <2>7, <2>8 DEF ConnectionInv
<1>12. CASE StopFails(c)
  <2>1. /\ callers[c] = "stopping" /\ disturbed' = TRUE /\ CallMoves(c, "threw")
        /\ UNCHANGED <<prepared, started, lastError, connection>>
    BY <1>12 DEF StopFails, CallMoves
  <2>2. Moves("threw")
    BY <1>4, <2>1
  <2> QED BY <1>1, <2>1, <2>2 DEF Moves, ConnectionInv, ConnectionTypes, Attached
<1> QED BY <1>2, <1>3, <1>5, <1>6, <1>8, <1>9, <1>10, <1>11, <1>12 DEF Lives, Connecting

-----------------------------------------------------------------------------

AdapterInv == RequestInv /\ ConnectionInv

LEMMA AdapterInitInv == AdapterInit => AdapterInv
<1> SUFFICES ASSUME AdapterInit PROVE AdapterInv
  OBVIOUS
<1> DEFINE idle == [pc |-> "idle", role |-> Nothing, command |-> Nothing, ran |-> Nothing,
                    reply |-> Nothing]
<1>1. /\ kind \in AdapterKinds /\ gauge = 0
      /\ requests = [r \in AdapterRequests |-> idle]
  BY DEF AdapterInit
<1>2. idle \in RequestRecords /\ StageOK(idle) /\ ReplyOK(idle) /\ ~Counted(idle)
  BY DEF RequestRecords, Replies, StageOK, ReplyOK, Counted, Nothing
<1> HIDE DEF idle
<1>3. {r \in AdapterRequests : Counted(requests[r])} = {}
  BY <1>1, <1>2
<1>4. GaugeCountsTheRequests
  BY <1>1, <1>3, FS_EmptySet DEF GaugeCountsTheRequests
<1>5. RequestInv
  BY <1>1, <1>2, <1>4 DEF RequestInv, RequestTypes
<1>6. ConnectionTypes
  BY DEF AdapterInit, ConnectionTypes, CallStages
<1>7. \A c \in AdapterCallers : callers[c] = "idle"
  BY DEF AdapterInit
<1>8. ~started /\ connection = "down"
  BY DEF AdapterInit
<1>9. OneAtATime
  BY <1>7, <1>8 DEF OneAtATime
<1>10. Attached
  BY <1>7, <1>8, <1>9 DEF Attached
<1> QED BY <1>5, <1>6, <1>10 DEF AdapterInv, ConnectionInv

Dispatches(r) ==
    \/ \E role \in Roles, command \in AdapterCommands :
          \/ ReceiveUnavailable(r, role, command) \/ ReceiveUnknown(r, role, command)
          \/ ReceiveDenied(r, role, command) \/ Receive(r, role, command)
    \/ ParseFails(r) \/ ParseSettles(r) \/ WebhookTimesOut(r)
    \/ \E outcome : HandlerSettles(r, outcome)
    \/ \E sent \in BOOLEAN : ReplySettles(r, sent)

LEMMA NextIs ==
    ASSUME AdapterNext
    PROVE  \/ \E c \in AdapterCallers : Lives(c)
           \/ \E r \in AdapterRequests : Dispatches(r)
<1>1. ASSUME NEW c \in AdapterCallers,
             \/ TelegramLives(c) \/ DiscordLives(c) \/ McpLives(c) \/ EmailLives(c)
             \/ WhatsAppLives(c) \/ WebhookLives(c) \/ CliLives(c)
      PROVE  Lives(c)
  BY <1>1 DEF TelegramLives, DiscordLives, McpLives, EmailLives, WhatsAppLives, WebhookLives,
              CliLives, Lives, Connecting
<1>2. ASSUME NEW r \in AdapterRequests,
             \/ TelegramDispatches(r) \/ DiscordDispatches(r) \/ McpDispatches(r)
             \/ EmailDispatches(r) \/ WhatsAppDispatches(r) \/ WebhookDispatches(r)
             \/ CliDispatches(r)
      PROVE  Dispatches(r)
  <2> USE DEF Roles
  <2>1. ASSUME Asked(r, ReceiveDenied) \/ Asked(r, Receive) \/ Asked(r, ReceiveUnknown)
                  \/ Asked(r, ReceiveUnavailable)
        PROVE  Dispatches(r)
    BY <2>1 DEF Dispatches, Asked
  <2>2. ASSUME Handled(r) \/ Replied(r) PROVE Dispatches(r)
    BY <2>2 DEF Dispatches, Handled, Replied
  <2>3. ASSUME ParseFails(r) \/ ParseSettles(r) \/ WebhookTimesOut(r) PROVE Dispatches(r)
    BY <2>3 DEF Dispatches
  <2> QED
    BY <1>2, <2>1, <2>2, <2>3 DEF TelegramDispatches, DiscordDispatches, McpDispatches,
       EmailDispatches, WhatsAppDispatches, WebhookDispatches, CliDispatches, HostHands
<1> QED BY <1>1, <1>2 DEF AdapterNext

LEMMA DispatchKeepsRequests ==
    ASSUME RequestInv, NEW r \in AdapterRequests, Dispatches(r)
    PROVE  RequestInv' /\ UNCHANGED lifecycle /\ (lastError \in BOOLEAN => lastError' \in BOOLEAN)
<1>1. UNCHANGED lifecycle
  BY DEF Dispatches, ReceiveUnavailable, ReceiveUnknown, ReceiveDenied, Receive, ParseFails,
         ParseSettles, HandlerSettles, WebhookTimesOut, ReplySettles
<1>2. lastError \in BOOLEAN => lastError' \in BOOLEAN
  BY DEF Dispatches, ReceiveUnavailable, ReceiveUnknown, ReceiveDenied, Receive, ParseFails,
         ParseSettles, HandlerSettles, WebhookTimesOut, ReplySettles
<1>3. ASSUME NEW role \in Roles, NEW command \in AdapterCommands,
             \/ ReceiveUnavailable(r, role, command) \/ ReceiveUnknown(r, role, command)
             \/ ReceiveDenied(r, role, command)
      PROVE  RequestInv'
  <2>1. requests[r].pc = "idle" /\ kind' = kind
    BY <1>1, <1>3 DEF ReceiveUnavailable, ReceiveUnknown, ReceiveDenied, lifecycle
  <2>2. PICK reply \in {"unavailable", "unknown", "denied"} : Refuse(r, role, command, reply)
    BY <1>3 DEF ReceiveUnavailable, ReceiveUnknown, ReceiveDenied
  <2> QED BY <2>1, <2>2, Refused
<1>4. RequestInv'
  BY <1>3, Begun, Parsed, Settled, TimedOut, ReplyArrives DEF Dispatches
<1> QED BY <1>1, <1>2, <1>4

LEMMA AdapterStepInv == AdapterInv /\ [AdapterNext]_adapterVars => AdapterInv'
<1> SUFFICES ASSUME AdapterInv, [AdapterNext]_adapterVars PROVE AdapterInv'
  OBVIOUS
<1>1. ASSUME UNCHANGED <<kind, requests, gauge>> PROVE RequestInv'
  BY <1>1 DEF AdapterInv, RequestInv, RequestTypes, GaugeCountsTheRequests, Counted, StageOK,
              ReplyOK, Known, Requires
<1>2. ASSUME UNCHANGED lifecycle, lastError' \in BOOLEAN PROVE ConnectionInv'
  BY <1>2 DEF AdapterInv, ConnectionInv, ConnectionTypes, Attached, OneAtATime, Underway, lifecycle
<1>3. ASSUME NEW c \in AdapterCallers, Lives(c) PROVE AdapterInv'
  <2>1. kind \in AllKinds
    BY AdapterAssumption DEF AdapterInv, RequestInv, RequestTypes
  <2> QED BY <1>1, <1>3, <2>1, LivesOn DEF AdapterInv
<1>4. ASSUME NEW r \in AdapterRequests, Dispatches(r) PROVE AdapterInv'
  <2>1. lastError \in BOOLEAN
    BY DEF AdapterInv, ConnectionInv, ConnectionTypes
  <2> QED BY <1>2, <1>4, <2>1, DispatchKeepsRequests DEF AdapterInv
<1>5. CASE UNCHANGED adapterVars
  <2>1. UNCHANGED <<kind, requests, gauge>> /\ UNCHANGED lifecycle /\ lastError' \in BOOLEAN
    BY <1>5 DEF adapterVars, lifecycle, AdapterInv, ConnectionInv, ConnectionTypes
  <2> QED BY <1>1, <1>2, <2>1 DEF AdapterInv
<1> QED BY <1>3, <1>4, <1>5, NextIs

LEMMA AdapterInvTells == AdapterInv => AdaptersTellWhatIs
<1> SUFFICES ASSUME AdapterInv PROVE AdaptersTellWhatIs
  OBVIOUS
<1>1. GaugeCountsTheRequests
  BY DEF AdapterInv, RequestInv
<1>2. RepliesTellWhatRan
  BY DEF AdapterInv, RequestInv, ReplyOK, RepliesTellWhatRan
<1>3. StartedFollowsTheConnection
  <2>1. started \in BOOLEAN
    BY DEF AdapterInv, ConnectionInv, ConnectionTypes
  <2>2. ASSUME kind \in {"telegram-polling", "mcp"}, ~disturbed,
               ~Underway({"initializing", "starting", "stopping"})
        PROVE  started <=> connection = "up"
    <3>1. ~Underway({"starting", "stopping"})
      BY <2>2 DEF Underway
    <3> QED BY <2>2, <3>1 DEF AdapterInv, ConnectionInv, Attached, OneAtATime
  <2> QED BY <2>1, <2>2 DEF StartedFollowsTheConnection
<1> QED BY <1>1, <1>2, <1>3 DEF AdaptersTellWhatIs

LEMMA AdapterInvType == AdapterInv => AdapterTypeOK
<1> SUFFICES ASSUME AdapterInv PROVE AdapterTypeOK
  OBVIOUS
<1>1. kind \in AllKinds
  BY AdapterAssumption DEF AdapterInv, RequestInv, RequestTypes
<1>2. BotHealth \in {"failed", "healthy", "degraded"}
  BY DEF BotHealth
<1>3. HostFedHealth \in {"failed", "healthy", "degraded"}
  BY DEF HostFedHealth
<1>4. {DiscordHealth, WebhookHealth, CliHealth} \subseteq {"healthy", "degraded"}
  BY DEF DiscordHealth, WebhookHealth, CliHealth
<1>5. kind \in HostFed \cup {"discord", "webhook", "cli", "mcp"} \cup Telegram
  BY <1>1 DEF AllKinds, HostFed, Telegram
<1>6. Health \in {"unknown", "degraded", "healthy", "failed"}
  BY <1>2, <1>3, <1>4, <1>5 DEF Health, HostFed, Telegram
<1> QED BY <1>6 DEF AdapterInv, RequestInv, RequestTypes, ConnectionInv, ConnectionTypes,
                    AdapterTypeOK

(* Whatever lifecycle calls, requests, handlers, timers and replies         *)
(* interleave, and whichever of them fail: the gauge of an adapter is the   *)
(* number of requests under way, a reply tells what ran and for whom it     *)
(* might, and the flag of a polling bot or a tool server follows its        *)
(* connection; and the state keeps its type.                                *)
THEOREM AdaptersTellWhatIsAlways ==
    AdapterSpec => [](AdaptersTellWhatIs /\ AdapterTypeOK)
<1>1. AdapterInv => AdaptersTellWhatIs /\ AdapterTypeOK
  BY AdapterInvTells, AdapterInvType
<1> QED BY <1>1, AdapterInitInv, AdapterStepInv, PTL DEF AdapterSpec

-----------------------------------------------------------------------------
(* The API server: what a step of the kernel below it does to its phase and *)
(* to the calls of stop().                                                  *)

Stoppers == ApiRequests \cup {Signal}

(* A terminal phase stays, a call that has returned stays as it did, and    *)
(* only a terminal phase makes one return well; nobody but who calls it.    *)
KernelGoesOn(who) ==
    /\ life'.phase \in Kernel!Phases /\ DOMAIN stops' = DOMAIN stops
    /\ life.phase \in Kernel!TerminalPhases => life'.phase \in Kernel!TerminalPhases
    /\ \A c \in Stoppers :
          /\ Kernel!Returned(c) => stops'[c] = stops[c]
          /\ stops'[c].pc # "idle" => stops[c].pc # "idle" \/ c \in who
          /\ stops'[c].pc = "ok" => stops[c].pc = "ok" \/ life'.phase \in Kernel!TerminalPhases

LEMMA LegalIs ==
    ASSUME NEW l, l.phase \in Kernel!Phases
    PROVE  /\ \A to : Kernel!Legal(l, to) => to \in Kernel!Phases /\ l.phase \notin Kernel!TerminalPhases
           /\ Kernel!Legal(l, "FAILED") <=> l.phase \notin Kernel!TerminalPhases
           /\ ~Kernel!Legal(l, "none")
<1>1. \A p \in Kernel!Phases : Kernel!LegalTransitions[p] =
         CASE p = "INITIALIZING" -> {"STARTING", "FAILED"}
           [] p = "STARTING"     -> {"RUNNING", "FAILED"}
           [] p = "RUNNING"      -> {"STOPPING", "FAILED"}
           [] p = "STOPPING"     -> {"STOPPED", "FAILED"}
           [] OTHER              -> {}
  BY DEF Kernel!LegalTransitions
<1> QED BY <1>1 DEF Kernel!Legal, Kernel!Phases, Kernel!TerminalPhases

LEMMA MovedIs ==
    ASSUME NEW l, l.phase \in Kernel!Phases, NEW to, Kernel!Legal(l, to),
           NEW reaction \in {"none"}, NEW m, m = Kernel!Moved(l, to, reaction)
    PROVE  m.phase = to /\ to \in Kernel!Phases
<1>1. PICK a : a = Kernel!Applied(l, to)
  OBVIOUS
<1>2. a.phase = to /\ to \in Kernel!Phases
  BY <1>1, LegalIs DEF Kernel!Applied
<1>3. ~Kernel!Legal(a, reaction)
  BY <1>2, LegalIs
<1> QED BY <1>1, <1>2, <1>3 DEF Kernel!Moved

LEMMA FailedIs ==
    ASSUME NEW l, l.phase \in Kernel!Phases, NEW reaction \in {"none"},
           NEW m, m = Kernel!Failed(l, reaction)
    PROVE  m.phase \in Kernel!Phases /\ m.phase \in Kernel!TerminalPhases
<1>1. CASE Kernel!Legal(l, "FAILED")
  <2>1. m = Kernel!Moved(l, "FAILED", reaction)
    BY <1>1 DEF Kernel!Failed
  <2> QED BY <1>1, <2>1, MovedIs DEF Kernel!TerminalPhases
<1>2. CASE ~Kernel!Legal(l, "FAILED")
  BY <1>2, LegalIs DEF Kernel!Failed
<1> QED BY <1>1, <1>2

(* A call takes one of the ways open to it.                                 *)
LEMMA StopCallGoesOn ==
    ASSUME DOMAIN stops = Stoppers, NEW c \in Stoppers, ~Kernel!Returned(c),
           NEW record, stops' = [stops EXCEPT ![c] = record],
           life'.phase \in Kernel!Phases,
           life.phase \in Kernel!TerminalPhases => life'.phase \in Kernel!TerminalPhases,
           record.pc = "ok" => life'.phase \in Kernel!TerminalPhases,
           NEW who, stops[c].pc # "idle" \/ c \in who
    PROVE  KernelGoesOn(who)
<1>1. stops'[c] = record /\ \A d \in Stoppers : d # c => stops'[d] = stops[d]
  OBVIOUS
<1>2. DOMAIN stops' = DOMAIN stops
  OBVIOUS
<1> QED BY <1>1, <1>2 DEF KernelGoesOn, Kernel!Returned

LEMMA GoOnGoesOn ==
    ASSUME DOMAIN stops = Stoppers, NEW c \in Stoppers, ~Kernel!Returned(c),
           NEW l, l.phase \in Kernel!Phases,
           life.phase \in Kernel!TerminalPhases => l.phase \in Kernel!TerminalPhases,
           NEW todo, NEW threw, Kernel!GoOn(c, l, todo, threw),
           NEW who, stops[c].pc # "idle" \/ c \in who
    PROVE  KernelGoesOn(who)
<1>1. CASE /\ todo # <<>> /\ life' = l
           /\ stops' = [stops EXCEPT ![c] = [pc |-> "awaiting", threw |-> threw,
                                             todo |-> SubSeq(todo, 1, Len(todo) - 1)]]
  <2>1. PICK record : record = [pc |-> "awaiting", threw |-> threw,
                                todo |-> SubSeq(todo, 1, Len(todo) - 1)]
    OBVIOUS
  <2>2. stops' = [stops EXCEPT ![c] = record] /\ record.pc = "awaiting" /\ life' = l
    BY <1>1, <2>1
  <2> QED BY <2>2, StopCallGoesOn
<1>2. CASE /\ Kernel!Legal(l, Kernel!DrainTarget(threw))
           /\ \E reaction \in {"none"} : life' = Kernel!Moved(l, Kernel!DrainTarget(threw), reaction)
           /\ stops' = [stops EXCEPT ![c] = [pc |-> "ok", threw |-> threw, todo |-> <<>>]]
  <2>1. Kernel!DrainTarget(threw) \in Kernel!TerminalPhases
    BY DEF Kernel!DrainTarget, Kernel!TerminalPhases
  <2>2. life'.phase \in Kernel!Phases /\ life'.phase \in Kernel!TerminalPhases
    BY <1>2, <2>1, MovedIs
  <2> QED BY <1>2, <2>2, StopCallGoesOn
<1>3. CASE /\ \E reaction \in {"none"} : life' = Kernel!Failed(l, reaction)
           /\ stops' = [stops EXCEPT ![c] = [pc |-> "err", threw |-> threw, todo |-> <<>>]]
  <2>1. life'.phase \in Kernel!Phases /\ life'.phase \in Kernel!TerminalPhases
    BY <1>3, FailedIs
  <2> QED BY <1>3, <2>1, StopCallGoesOn
<1> QED BY <1>1, <1>2, <1>3 DEF Kernel!GoOn

LEMMA StopGoesOn ==
    ASSUME DOMAIN stops = Stoppers, life.phase \in Kernel!Phases,
           NEW c \in Stoppers, Kernel!Stop(c)
    PROVE  KernelGoesOn({c}) /\ stops[c].pc = "idle"
<1>1. stops[c].pc = "idle" /\ ~Kernel!Returned(c)
  BY DEF Kernel!Stop, Kernel!StopAtEnd, Kernel!StopIllegal, Kernel!StopDrains, Kernel!Returned
<1>2. CASE Kernel!StopAtEnd(c)
  <2>1. PICK record : record = [stops[c] EXCEPT !.pc = IF life.phase = "STOPPED" THEN "ok" ELSE "err"]
    OBVIOUS
  <2>2. /\ stops' = [stops EXCEPT ![c] = record] /\ life' = life
        /\ life.phase \in Kernel!TerminalPhases
    BY <1>2, <2>1 DEF Kernel!StopAtEnd, Kernel!phase
  <2> QED BY <1>1, <2>2, StopCallGoesOn
<1>3. CASE Kernel!StopIllegal(c)
  <2>1. PICK record : record = [stops[c] EXCEPT !.pc = "err"]
    OBVIOUS
  <2>2. stops' = [stops EXCEPT ![c] = record]
    BY <1>3, <2>1 DEF Kernel!StopIllegal
  <2>3. life'.phase \in Kernel!Phases /\ life'.phase \in Kernel!TerminalPhases
    BY <1>3, FailedIs DEF Kernel!StopIllegal
  <2> QED BY <1>1, <2>2, <2>3, StopCallGoesOn
<1>4. CASE Kernel!StopDrains(c)
  <2>1. PICK l : /\ l = Kernel!Moved(life, "STOPPING", "none")
                 /\ Kernel!GoOn(c, l, modules, FALSE)
    BY <1>4 DEF Kernel!StopDrains
  <2>2. Kernel!Legal(life, "STOPPING")
    BY <1>4 DEF Kernel!StopDrains
  <2>3. l.phase \in Kernel!Phases /\ life.phase \notin Kernel!TerminalPhases
    BY <2>1, <2>2, MovedIs, LegalIs
  <2> QED BY <1>1, <2>1, <2>3, GoOnGoesOn
<1> QED BY <1>1, <1>2, <1>3, <1>4 DEF Kernel!Stop

LEMMA SettlesGoesOn ==
    ASSUME DOMAIN stops = Stoppers, life.phase \in Kernel!Phases,
           NEW c \in Stoppers, Kernel!Settles(c)
    PROVE  KernelGoesOn({})
<1>1. PICK fails \in BOOLEAN : Kernel!ShutdownSettles(c, fails)
  BY DEF Kernel!Settles
<1>2. /\ stops[c].pc = "awaiting" /\ ~Kernel!Returned(c)
      /\ Kernel!GoOn(c, life, stops[c].todo, stops[c].threw \/ fails)
  BY <1>1 DEF Kernel!ShutdownSettles, Kernel!Returned
<1> QED BY <1>2, GoOnGoesOn

LEMMA MoveGoesOn ==
    ASSUME DOMAIN stops = Stoppers, life.phase \in Kernel!Phases, UNCHANGED stops,
           \/ Kernel!Start
           \/ \E to \in Owner : Kernel!OwnerTransition(to)
           \/ \E spec \in Specs : Kernel!RegisterModule(spec)
    PROVE  KernelGoesOn({})
<1>1. CASE Kernel!Start
  <2>1. Kernel!Legal(life, "STARTING")
    BY <1>1 DEF Kernel!Start, Kernel!phase, Kernel!Legal, Kernel!LegalTransitions, Kernel!Phases
  <2>2. life'.phase \in Kernel!Phases /\ life.phase \notin Kernel!TerminalPhases
    BY <1>1, <2>1, MovedIs, LegalIs DEF Kernel!Start
  <2> QED BY <2>2 DEF KernelGoesOn
<1>2. ASSUME NEW to \in Owner, Kernel!OwnerTransition(to) PROVE KernelGoesOn({})
  <2>1. life'.phase \in Kernel!Phases /\ life.phase \notin Kernel!TerminalPhases
    BY <1>2, MovedIs, LegalIs DEF Kernel!OwnerTransition
  <2> QED BY <2>1 DEF KernelGoesOn
<1>3. ASSUME NEW spec \in Specs, Kernel!RegisterModule(spec) PROVE KernelGoesOn({})
  <2>1. CASE UNCHANGED life
    BY <2>1 DEF KernelGoesOn
  <2>2. CASE \E reaction \in {"none"} : life' = Kernel!Failed(life, reaction)
    <3>1. life'.phase \in Kernel!Phases /\ life'.phase \in Kernel!TerminalPhases
      BY <2>2, FailedIs
    <3> QED BY <3>1 DEF KernelGoesOn
  <2> QED BY <1>3, <2>1, <2>2 DEF Kernel!RegisterModule
<1> QED BY <1>1, <1>2, <1>3

LEMMA NothingGoesOn ==
    ASSUME UNCHANGED <<life, stops>>, life.phase \in Kernel!Phases, NEW who
    PROVE  KernelGoesOn(who)
BY DEF KernelGoesOn

-----------------------------------------------------------------------------
(* The requests of the API server, their codes, and what a hook or a        *)
(* handler makes of one                                                     *)

Codes == {0, 200, 204, 401, 403, 409, 500, 503}

Good == {200}

Exchange ==
    [pc : {"idle", "preflight", "authenticating", "admitted", "stopping", "responding", "done"},
     kind : Kinds \cup {"none"}, credential : Credentials \cup {"none"}, code : Codes]

Passed(q, pc) == [q EXCEPT !.pc = pc]
Answering(q, pc, code) == [q EXCEPT !.pc = pc, !.code = code]
Arrived(q, what, credential) == [q EXCEPT !.kind = what, !.credential = credential]

PCs == {"preflight", "authenticating", "admitted", "stopping", "responding", "done"}

(* What the hooks and the handlers change of one.                           *)
LEMMA PassedIs ==
    ASSUME NEW q \in Exchange, NEW pc \in PCs
    PROVE  /\ Passed(q, pc) \in Exchange
           /\ Passed(q, pc).pc = pc /\ Passed(q, pc).code = q.code
           /\ Passed(q, pc).kind = q.kind /\ Passed(q, pc).credential = q.credential
BY DEF Exchange, Passed, PCs

LEMMA AnsweringIs ==
    ASSUME NEW q \in Exchange, NEW code \in Codes, NEW pc \in PCs
    PROVE  /\ Answering(q, pc, code) \in Exchange
           /\ Answering(q, pc, code).pc = pc /\ Answering(q, pc, code).code = code
           /\ Answering(q, pc, code).kind = q.kind
           /\ Answering(q, pc, code).credential = q.credential
<1>1. PICK first \in Exchange : /\ first = [q EXCEPT !.pc = pc]
                               /\ first.pc = pc /\ first.kind = q.kind
                               /\ first.credential = q.credential
  BY PassedIs DEF Passed
<1>2. PICK answer : answer = [first EXCEPT !.code = code]
  OBVIOUS
<1>3. /\ answer \in Exchange /\ answer.pc = pc /\ answer.code = code
      /\ answer.kind = first.kind /\ answer.credential = first.credential
  BY <1>1, <1>2 DEF Exchange
<1>4. answer = Answering(q, pc, code)
  BY <1>1, <1>2 DEF Answering
<1> QED BY <1>1, <1>3, <1>4

LEMMA ArrivedIs ==
    ASSUME NEW q \in Exchange, NEW what \in Kinds, NEW credential \in Credentials
    PROVE  /\ Arrived(q, what, credential) \in Exchange
           /\ Arrived(q, what, credential).kind = what
           /\ Arrived(q, what, credential).credential = credential
           /\ Arrived(q, what, credential).pc = q.pc /\ Arrived(q, what, credential).code = q.code
<1>1. PICK first : first = [q EXCEPT !.kind = what]
  OBVIOUS
<1>2. first \in Exchange /\ first.kind = what /\ first.pc = q.pc /\ first.code = q.code
  BY <1>1 DEF Exchange
<1>3. PICK request : request = [first EXCEPT !.credential = credential]
  OBVIOUS
<1>4. /\ request \in Exchange /\ request.kind = what /\ request.credential = credential
      /\ request.pc = first.pc /\ request.code = first.code
  BY <1>2, <1>3 DEF Exchange
<1>5. request = Arrived(q, what, credential)
  BY <1>1, <1>3 DEF Arrived
<1> QED BY <1>2, <1>4, <1>5

(* What is known of a request and the call of stop() in its name: there is  *)
(* no call unless it may make one, and its answer of 200 is that call's.    *)
Fits(q, stop, asked) ==
    /\ q.pc = "idle" => q.kind = "none" /\ q.code \notin Good
    /\ q.pc = "admitted" /\ q.kind # "public" => (asked => q.credential = "valid")
    /\ q.kind = "stop" /\ q.code \in Good => stop.pc = "ok"
    /\ stop.pc # "idle" => q.kind = "stop" /\ (asked => q.credential = "valid")

LEMMA FitsStill ==
    ASSUME NEW q, NEW stop, NEW later, NEW asked, Fits(q, stop, asked),
           stop.pc = "ok" => later.pc = "ok", later.pc # "idle" => stop.pc # "idle"
    PROVE  Fits(q, later, asked)
BY DEF Fits

Told(r) == Fits(apiRequests[r], stops[r], auth)

ApiInv ==
    /\ life.phase \in Kernel!Phases
    /\ DOMAIN stops = Stoppers /\ apiRequests \in [ApiRequests -> Exchange]
    /\ \A c \in Stoppers : stops[c].pc = "ok" => life.phase \in Kernel!TerminalPhases
    /\ server \in {"closing", "exit 0"} => Kernel!Returned(Signal)
    /\ \A r \in ApiRequests : Told(r) /\ (server = "exit 0" => ~Open(r))

LEMMA ApiInvIsRight ==
    ASSUME ApiInv
    PROVE  AnswersMatchTheKernel
BY DEF ApiInv, AnswersMatchTheKernel, Told, Fits, Stoppers, Good

LEMMA ApiInvInit ==
    ASSUME ApiInit
    PROVE  ApiInv
<1>1. life.phase \in Kernel!Phases
  BY DEF ApiInit, Kernel!Init, Kernel!Phases
<1>2. DOMAIN stops = Stoppers /\ \A c \in Stoppers : stops[c].pc = "idle"
  BY DEF ApiInit, Kernel!Init, Stoppers
<1>3. /\ apiRequests \in [ApiRequests -> Exchange]
      /\ \A r \in ApiRequests : /\ apiRequests[r].pc = "idle" /\ apiRequests[r].kind = "none"
                               /\ apiRequests[r].code = 0
  BY DEF ApiInit, Exchange, Codes
<1>4. server = "starting"
  BY DEF ApiInit
<1> QED BY <1>1, <1>2, <1>3, <1>4 DEF ApiInv, Told, Fits, Stoppers, Good

(* A step of the kernel or the process, with every request where it was.    *)
LEMMA KernelKeepsApi ==
    ASSUME ApiInv, NEW who \in SUBSET {Signal}, KernelGoesOn(who), UNCHANGED <<apiRequests, auth>>,
           server' \in {"closing", "exit 0"} => server = server' \/ Kernel!Returned(Signal),
           server' = "exit 0" => server = server' \/ \A r \in ApiRequests : ~Open(r)
    PROVE  ApiInv'
<1>1. \A c \in Stoppers : stops[c].pc = "ok" => Kernel!Returned(c)
  BY DEF Kernel!Returned
<1>2. /\ life'.phase \in Kernel!Phases /\ DOMAIN stops' = Stoppers
      /\ \A c \in Stoppers : stops'[c].pc = "ok" => life'.phase \in Kernel!TerminalPhases
  BY DEF ApiInv, KernelGoesOn
<1>3. server' \in {"closing", "exit 0"} => Kernel!Returned(Signal)'
  BY DEF ApiInv, KernelGoesOn, Stoppers, Kernel!Returned
<1>4. ASSUME NEW r \in ApiRequests PROVE Told(r)' /\ (server' = "exit 0" => ~Open(r)')
  <2>1. r \in Stoppers /\ r \notin who
    BY ApiAssumption DEF Stoppers
  <2>2. Told(r) /\ (server = "exit 0" => ~Open(r))
    BY DEF ApiInv
  <2>3. /\ stops[r].pc = "ok" => stops'[r].pc = "ok"
        /\ stops'[r].pc # "idle" => stops[r].pc # "idle"
    BY <1>1, <2>1 DEF KernelGoesOn
  <2>4. Told(r)'
    BY <2>2, <2>3, FitsStill DEF Told
  <2>5. Open(r)' <=> Open(r)
    BY DEF Open
  <2> QED BY <2>2, <2>4, <2>5
<1> QED BY <1>2, <1>3, <1>4 DEF ApiInv

(* What a request may become, with the kernel's step that goes with it.     *)
MayBecome(r, q) == q.pc # "idle" /\ Fits(q, stops'[r], auth)

LEMMA RequestKeepsApi ==
    ASSUME ApiInv, server # "exit 0", NEW r \in ApiRequests, KernelGoesOn({r}),
           NEW q \in Exchange, RequestBecomes(r, q), MayBecome(r, q)
    PROVE  ApiInv'
<1>1. \A c \in Stoppers : stops[c].pc = "ok" => Kernel!Returned(c)
  BY DEF Kernel!Returned
<1>2. /\ life'.phase \in Kernel!Phases /\ DOMAIN stops' = Stoppers
      /\ \A c \in Stoppers : stops'[c].pc = "ok" => life'.phase \in Kernel!TerminalPhases
  BY DEF ApiInv, KernelGoesOn
<1>3. server' = server /\ (auth' <=> auth)
  BY DEF RequestBecomes
<1>4. server' \in {"closing", "exit 0"} => Kernel!Returned(Signal)'
  BY <1>3 DEF ApiInv, KernelGoesOn, Stoppers, Kernel!Returned
<1>5. /\ apiRequests' \in [ApiRequests -> Exchange] /\ apiRequests'[r] = q
      /\ \A s \in ApiRequests : s # r => apiRequests'[s] = apiRequests[s]
  BY DEF ApiInv, RequestBecomes
<1>6. Told(r)'
  BY <1>3, <1>5 DEF Told, MayBecome
<1>7. ASSUME NEW s \in ApiRequests, s # r PROVE Told(s)'
  <2>1. Told(s) /\ s \in Stoppers
    BY DEF ApiInv, Stoppers
  <2>2. /\ stops[s].pc = "ok" => stops'[s].pc = "ok"
        /\ stops'[s].pc # "idle" => stops[s].pc # "idle"
    BY <1>1, <1>7, <2>1 DEF KernelGoesOn
  <2>3. Fits(apiRequests[s], stops'[s], auth)
    BY <2>1, <2>2, FitsStill DEF Told
  <2> QED BY <1>3, <1>5, <1>7, <2>3 DEF Told
<1> QED BY <1>2, <1>3, <1>4, <1>5, <1>6, <1>7 DEF ApiInv

Earned(r, code) == apiRequests[r].kind = "stop" /\ code \in Good => stops[r].pc = "ok"

LEMMA ReplyKeepsApi ==
    ASSUME ApiInv, server # "exit 0", NEW r \in ApiRequests, UNCHANGED kernel,
           apiRequests[r].pc # "idle", NEW code \in Codes, Reply(r, code),
           Earned(r, code)
    PROVE  ApiInv'
<1>1. KernelGoesOn({r})
  BY NothingGoesOn DEF ApiInv, kernel
<1>2. PICK old \in Exchange : old = apiRequests[r]
  BY DEF ApiInv
<1> DEFINE q == Answering(old, "responding", code)
<1>3. q \in Exchange /\ q.pc = "responding" /\ q.code = code /\ q.kind = old.kind
      /\ q.credential = old.credential
  <2>1. "responding" \in PCs
    BY DEF PCs
  <2> QED BY <2>1, AnsweringIs
<1>5. RequestBecomes(r, q)
  <2>1. RequestBecomes(r, Answering(apiRequests[r], "responding", code))
    BY Zenon DEF Reply, Answering
  <2> QED BY <1>2, <2>1
<1> HIDE DEF q
<1>4. MayBecome(r, q)
  BY <1>2, <1>3 DEF ApiInv, Told, Fits, MayBecome, kernel, Earned
<1> QED BY <1>1, <1>3, <1>4, <1>5, RequestKeepsApi

LEMMA ErrorsAreNoSuccess ==
    ASSUME NEW message
    PROVE  ErrorReply(message) \in Codes /\ ErrorReply(message) \notin Good
<1>1. AdapterErrorHttpStatus["PHASE_CONFLICT"] = 409 /\ AdapterErrorHttpStatus["HERMES_ERROR"] = 500
  BY DEF AdapterErrorHttpStatus
<1>2. ErrorReply(message) \in {409, 500}
  BY <1>1 DEF ErrorReply, MapKernelError
<1> QED BY <1>2 DEF Codes, Good

LEMMA ProcessKeepsApi ==
    ASSUME ApiInv, Listen \/ Terminate \/ CloseApp \/ ExitCleanly \/ ExitTimerFires \/ KernelMoves
    PROVE  ApiInv'
<1>1. DOMAIN stops = Stoppers /\ life.phase \in Kernel!Phases /\ Signal \in Stoppers
  BY DEF ApiInv, Stoppers
<1>2. CASE Listen
  <2>1. KernelGoesOn({})
    BY <1>1, <1>2, MoveGoesOn DEF Listen, Kernel!Start
  <2> QED BY <1>2, <2>1, KernelKeepsApi DEF Listen
<1>3. CASE Terminate
  <2>1. KernelGoesOn({Signal})
    BY <1>1, <1>3, StopGoesOn DEF Terminate
  <2> QED BY <1>3, <2>1, KernelKeepsApi DEF Terminate
<1>4. CASE CloseApp \/ ExitCleanly \/ ExitTimerFires
  <2>1. UNCHANGED <<life, stops, apiRequests, auth>>
    BY <1>4 DEF CloseApp, ExitCleanly, ExitTimerFires, kernel
  <2>2. KernelGoesOn({})
    BY <1>1, <2>1, NothingGoesOn
  <2>3. /\ server' \in {"closing", "exit 0"} => server = server' \/ Kernel!Returned(Signal)
        /\ server' = "exit 0" => server = server' \/ \A r \in ApiRequests : ~Open(r)
    BY <1>4 DEF CloseApp, ExitCleanly, ExitTimerFires, ApiInv
  <2> QED BY <2>1, <2>2, <2>3, KernelKeepsApi
<1>5. CASE KernelMoves
  <2>1. KernelGoesOn({})
    <3>1. ASSUME NEW c \in Stoppers, Kernel!Settles(c) PROVE KernelGoesOn({})
      BY <1>1, <3>1, SettlesGoesOn
    <3>2. CASE \E to \in Owner : Kernel!OwnerTransition(to)
      <4>1. UNCHANGED stops
        BY <3>2 DEF Kernel!OwnerTransition
      <4> QED BY <1>1, <3>2, <4>1, MoveGoesOn
    <3>3. CASE \E spec \in Specs : Kernel!RegisterModule(spec)
      <4>1. UNCHANGED stops
        BY <3>3 DEF Kernel!RegisterModule
      <4> QED BY <1>1, <3>3, <4>1, MoveGoesOn
    <3> QED BY <1>5, <3>1, <3>2, <3>3 DEF KernelMoves, Stoppers
  <2> QED BY <1>5, <2>1, KernelKeepsApi DEF KernelMoves
<1> QED BY <1>2, <1>3, <1>4, <1>5

LEMMA ArrivingKeepsApi ==
    ASSUME ApiInv, NEW r \in ApiRequests, NEW what \in Kinds, NEW credential \in Credentials,
           Arriving(r, what, credential)
    PROVE  ApiInv'
<1>1. /\ server # "exit 0" /\ apiRequests[r].pc = "idle" /\ apiRequests[r].code \notin Good
      /\ apiRequests[r].kind = "none" /\ stops[r].pc = "idle" /\ UNCHANGED kernel
      /\ apiRequests[r] \in Exchange
  BY DEF ApiInv, Told, Fits, Arriving
<1>2. KernelGoesOn({r})
  BY <1>1, NothingGoesOn DEF ApiInv, kernel
<1> /\ "preflight" \in PCs /\ "admitted" \in PCs
    /\ "responding" \in PCs /\ "authenticating" \in PCs
  BY DEF PCs
<1>3. PICK old \in Exchange : old = apiRequests[r]
  BY <1>1
<1> DEFINE request == Arrived(old, what, credential)
<1>4. \/ RequestBecomes(r, Answering(request, "preflight", 204))
      \/ RequestBecomes(r, Passed(request, "admitted")) /\ (~auth \/ what = "public")
      \/ RequestBecomes(r, Answering(request, "responding", 401))
      \/ RequestBecomes(r, Passed(request, "authenticating"))
  <2> DEFINE arrived == Arrived(apiRequests[r], what, credential)
  <2>1. \/ RequestBecomes(r, Answering(arrived, "preflight", 204))
        \/ RequestBecomes(r, Passed(arrived, "admitted")) /\ (~auth \/ what = "public")
        \/ RequestBecomes(r, Answering(arrived, "responding", 401))
        \/ RequestBecomes(r, Passed(arrived, "authenticating"))
    BY Zenon DEF Arriving, Arrived, Answering, Passed
  <2> QED BY <1>3, <2>1
<1> request \in Exchange /\ request.kind = what /\ request.pc = "idle" /\ request.code \notin Good
  <2>1. /\ request \in Exchange /\ request.kind = what
        /\ request.pc = old.pc /\ request.code = old.code
    BY ArrivedIs
  <2> QED BY <1>1, <1>3, <2>1
<1> HIDE DEF request
<1>5. PICK q \in Exchange :
               /\ RequestBecomes(r, q) /\ q.pc # "idle" /\ q.code \notin Good
               /\ (q.pc = "admitted" /\ q.kind # "public") => ~auth
  <2>1. CASE RequestBecomes(r, Answering(request, "preflight", 204))
    <3>1. PICK code \in Codes : code = 204
      BY DEF Codes
    <3>2. RequestBecomes(r, Answering(request, "preflight", code)) /\ code \notin Good
      BY <2>1, <3>1 DEF Good
    <3>3. /\ Answering(request, "preflight", code) \in Exchange
          /\ Answering(request, "preflight", code).pc = "preflight"
          /\ Answering(request, "preflight", code).code = code
      BY AnsweringIs
    <3> QED BY <3>2, <3>3
  <2>2. CASE RequestBecomes(r, Passed(request, "admitted")) /\ (~auth \/ what = "public")
    <3> PICK passed : passed = Passed(request, "admitted")
      OBVIOUS
    <3>1. /\ passed \in Exchange /\ passed.pc = "admitted"
          /\ passed.kind = request.kind /\ passed.code = request.code
      BY PassedIs, Zenon
    <3> QED BY <2>2, <3>1
  <2>3. CASE RequestBecomes(r, Answering(request, "responding", 401))
    <3>1. PICK code \in Codes : code = 401
      BY DEF Codes
    <3>2. RequestBecomes(r, Answering(request, "responding", code)) /\ code \notin Good
      BY <2>3, <3>1 DEF Good
    <3>3. /\ Answering(request, "responding", code) \in Exchange
          /\ Answering(request, "responding", code).pc = "responding"
          /\ Answering(request, "responding", code).code = code
      BY AnsweringIs
    <3> QED BY <3>2, <3>3
  <2>4. CASE RequestBecomes(r, Passed(request, "authenticating"))
    <3> PICK passed : passed = Passed(request, "authenticating")
      OBVIOUS
    <3>1. /\ passed \in Exchange /\ passed.pc = "authenticating"
          /\ passed.kind = request.kind /\ passed.code = request.code
      BY PassedIs, Zenon
    <3> QED BY <2>4, <3>1
  <2> QED BY <1>4, <2>1, <2>2, <2>3, <2>4
<1>6. MayBecome(r, q)
  BY <1>1, <1>5 DEF MayBecome, Fits, kernel
<1> QED BY <1>1, <1>2, <1>5, <1>6, RequestKeepsApi

(* A request goes on to its next hook or handler, which for a stop calls    *)
(* the kernel.                                                              *)
LEMMA PassingKeepsApi ==
    ASSUME ApiInv, server # "exit 0", NEW r \in ApiRequests, NEW pc \in PCs,
           RequestBecomes(r, Passed(apiRequests[r], pc)), apiRequests[r].pc # "idle",
           pc = "admitted" => apiRequests[r].credential = "valid",
           \/ UNCHANGED kernel
           \/ /\ Kernel!Stop(r) /\ apiRequests[r].kind = "stop"
              /\ auth => apiRequests[r].credential = "valid"
    PROVE  ApiInv'
<1>1. DOMAIN stops = Stoppers /\ life.phase \in Kernel!Phases /\ r \in Stoppers /\ Told(r)
  BY DEF ApiInv, Stoppers
<1>2. KernelGoesOn({r})
  BY <1>1, NothingGoesOn, StopGoesOn DEF kernel
<1>3. PICK old \in Exchange : old = apiRequests[r]
  BY DEF ApiInv
<1> DEFINE q == Passed(old, pc)
<1>4. RequestBecomes(r, q)
  BY <1>3
<1>5. q \in Exchange /\ q.pc = pc /\ q.code = old.code /\ q.kind = old.kind
      /\ q.credential = old.credential
  BY PassedIs
<1> HIDE DEF q
<1>6. Fits(q, stops'[r], auth)
  <2>1. CASE UNCHANGED kernel
    <3>1. Fits(q, stops[r], auth)
      BY <1>1, <1>3, <1>5 DEF Told, Fits, PCs
    <3> QED BY <2>1, <3>1 DEF kernel
  <2>2. CASE /\ Kernel!Stop(r) /\ apiRequests[r].kind = "stop"
             /\ auth => apiRequests[r].credential = "valid"
    <3>1. stops[r].pc = "idle"
      BY <1>1, <2>2, StopGoesOn
    <3>2. q.kind = "stop" /\ (auth => q.credential = "valid") /\ q.pc # "idle" /\ q.code \notin Good
      BY <1>1, <1>3, <1>5, <2>2, <3>1 DEF Told, Fits, PCs
    <3> QED BY <3>2 DEF Fits
  <2> QED BY <2>1, <2>2
<1>7. MayBecome(r, q)
  BY <1>5, <1>6 DEF MayBecome, PCs
<1> QED BY <1>2, <1>4, <1>5, <1>7, RequestKeepsApi

LEMMA HooksKeepApi ==
    ASSUME ApiInv, NEW r \in ApiRequests, Authenticate(r) \/ Respond(r)
    PROVE  ApiInv'
<1>1. server # "exit 0" /\ apiRequests[r].pc # "idle" /\ UNCHANGED kernel
  BY DEF Authenticate, Respond, Exited
<1>2. CASE Respond(r)
  <2>1. RequestBecomes(r, Passed(apiRequests[r], "done"))
    BY <1>2, Zenon DEF Respond, Passed
  <2>2. "done" \in PCs
    BY DEF PCs
  <2> QED BY <1>1, <2>1, <2>2, PassingKeepsApi
<1>3. CASE Authenticate(r) /\ apiRequests[r].credential = "valid"
  <2>1. RequestBecomes(r, Passed(apiRequests[r], "admitted"))
    BY <1>3 DEF Authenticate, Passed
  <2>2. "admitted" \in PCs
    BY DEF PCs
  <2> QED BY <1>1, <1>3, <2>1, <2>2, PassingKeepsApi
<1>4. CASE Authenticate(r) /\ apiRequests[r].credential # "valid"
  <2>1. PICK code \in Codes : code = 403 /\ Reply(r, code)
    BY <1>4 DEF Authenticate, Codes
  <2>2. Earned(r, code)
    BY <2>1 DEF Earned, Good
  <2> QED BY <1>1, <2>1, <2>2, ReplyKeepsApi
<1> QED BY <1>2, <1>3, <1>4

LEMMA RoutesKeepApi ==
    ASSUME ApiInv, NEW r \in ApiRequests,
           HandlePublic(r) \/ HandleRead(r) \/ HandleStart(r) \/ HandleStop(r) \/ StopReturns(r)
    PROVE  ApiInv'
<1>1. server # "exit 0" /\ apiRequests[r].pc # "idle"
  BY DEF HandlePublic, HandleRead, HandleStart, HandleStop, StopReturns, Handling, Exited
<1>2. CASE HandlePublic(r) \/ HandleRead(r)
  <2>1. PICK code \in Codes : Reply(r, code)
    BY <1>2 DEF HandlePublic, HandleRead, Codes
  <2>2. Earned(r, code) /\ UNCHANGED kernel
    BY <1>2 DEF HandlePublic, HandleRead, Handling, Earned
  <2> QED BY <1>1, <2>1, <2>2, ReplyKeepsApi
<1>3. CASE HandleStart(r)
  <2>1. PICK code : Reply(r, code) /\ code = CASE life.phase = "RUNNING" -> 200
               [] life.phase \in Kernel!TerminalPhases -> ErrorReply("cannot start from")
               [] OTHER -> ErrorReply("illegal transition")
    BY <1>3, Zenon DEF HandleStart
  <2>2. code \in Codes
    <3>1. 200 \in Codes
      BY DEF Codes
    <3>2. ErrorReply("cannot start from") \in Codes /\ ErrorReply("illegal transition") \in Codes
      BY ErrorsAreNoSuccess
    <3> QED BY <2>1, <3>1, <3>2
  <2>3. Earned(r, code) /\ UNCHANGED kernel
    BY <1>3 DEF HandleStart, Handling, Earned
  <2> QED BY <1>1, <2>1, <2>2, <2>3, ReplyKeepsApi
<1>4. CASE HandleStop(r)
  <2>1. RequestBecomes(r, Passed(apiRequests[r], "stopping"))
    BY <1>4, Zenon DEF HandleStop, Passed
  <2>2. /\ Kernel!Stop(r) /\ apiRequests[r].kind = "stop"
        /\ auth => apiRequests[r].credential = "valid"
    BY <1>4 DEF HandleStop, Handling, ApiInv, Told, Fits
  <2>3. "stopping" \in PCs
    BY DEF PCs
  <2> QED BY <1>1, <2>1, <2>2, <2>3, PassingKeepsApi
<1>5. CASE StopReturns(r)
  <2>1. PICK code : /\ Reply(r, code)
                    /\ code = IF stops[r].pc = "ok" THEN 200 ELSE ErrorReply("cannot stop from")
    BY <1>5, Zenon DEF StopReturns
  <2>2. code \in Codes
    <3>1. 200 \in Codes
      BY DEF Codes
    <3>2. ErrorReply("cannot stop from") \in Codes
      BY ErrorsAreNoSuccess
    <3> QED BY <2>1, <3>1, <3>2
  <2>3. Earned(r, code) /\ UNCHANGED kernel
    BY <1>5, <2>1, ErrorsAreNoSuccess DEF StopReturns, Earned
  <2> QED BY <1>1, <2>1, <2>2, <2>3, ReplyKeepsApi
<1> QED BY <1>2, <1>3, <1>4, <1>5

LEMMA ApiKeepsTheInvariant ==
    ASSUME ApiInv, [ApiNext]_apiVars
    PROVE  ApiInv'
<1>1. CASE UNCHANGED apiVars
  BY <1>1 DEF apiVars, ApiInv, Told, Open, Stoppers, Kernel!Returned
<1>2. CASE ApiNext
  <2>1. ASSUME NEW r \in ApiRequests, NEW what \in Kinds, NEW credential \in Credentials,
               Arriving(r, what, credential)
        PROVE  ApiInv'
    BY <2>1, ArrivingKeepsApi
  <2> QED BY <1>2, <2>1, ProcessKeepsApi, HooksKeepApi, RoutesKeepApi DEF ApiNext
<1> QED BY <1>1, <1>2

(* What is answered is what happened to the kernel, for any number of       *)
(* requests, with authentication and without (app.ts, authPlugin.ts,        *)
(* routes/hermes.ts, server.ts).                                            *)
THEOREM AnswersMatchTheKernelAlways == ApiSpec => []AnswersMatchTheKernel
<1>1. ApiSpec => []ApiInv
  BY ApiInvInit, ApiKeepsTheInvariant, PTL DEF ApiSpec
<1> QED BY <1>1, ApiInvIsRight, PTL

-----------------------------------------------------------------------------
(* The health manager: where a poll is with each check that is registered   *)
(* all through it.                                                          *)

Report == [name : CheckNames, status : CheckStatuses]

Poll == [pc : {"idle", "awaiting", "ending", "answered"}, at : CheckNames \cup {NoCheck},
         place : Nat, results : Seq(Report), throughout : SUBSET CheckNames, ready : BOOLEAN]

ChecksOK ==
    /\ DOMAIN checks \subseteq CheckNames /\ stamp \in 0..MaxStamp /\ lastReady \in BOOLEAN
    /\ \A n \in DOMAIN checks : checks[n] \in 1..stamp
    /\ \A n, m \in DOMAIN checks : n # m => checks[n] # checks[m]

Never(results, name) == \A i \in 1..Len(results) : results[i].name # name

Once(results, name) ==
    \E i \in 1..Len(results) :
       /\ results[i].name = name
       /\ \A k \in 1..Len(results) : results[k].name = name => k = i

(* Before the iteration goes on: the checks up to the poll's place are in   *)
(* its results, those behind it are not.                                    *)
UpToPlace(c, poll, name) ==
    \/ c[name] > poll.place /\ Never(poll.results, name)
    \/ c[name] <= poll.place /\ Once(poll.results, name)

(* While it waits: the check that it waits for is not yet.                  *)
Due(c, poll, name) ==
    poll.at # name /\ c[name] > poll.place /\ Never(poll.results, name)

BeingAsked(c, poll, name) ==
    /\ poll.pc = "awaiting" /\ poll.at = name /\ c[name] = poll.place
    /\ Never(poll.results, name)

Reported(c, poll, name) ==
    poll.at # name /\ c[name] <= poll.place /\ Once(poll.results, name)

AllOk(results) == \A i \in 1..Len(results) : results[i].status = "ok"

PollOK(c, poll) ==
    /\ poll.pc = "awaiting" <=> poll.at \in CheckNames
    /\ poll.throughout \subseteq DOMAIN c
    /\ poll.pc = "idle" => poll.place = 0 /\ poll.results = <<>>
    /\ poll.pc # "idle" => \A name \in poll.throughout :
          Due(c, poll, name) \/ BeingAsked(c, poll, name) \/ Reported(c, poll, name)
    /\ poll.pc \in {"ending", "answered"} =>
          \A name \in poll.throughout : c[name] <= poll.place
    /\ poll.pc = "answered" /\ poll.ready => AllOk(poll.results)

HealthInv ==
    /\ ChecksOK /\ polls \in [Polls -> Poll]
    /\ \A p \in Polls : PollOK(checks, polls[p])

LEMMA HealthInvCovers ==
    ASSUME HealthInv
    PROVE  ReportsCoverTheChecks
<1> SUFFICES ASSUME NEW p \in Polls, polls[p].pc = "answered", NEW name \in polls[p].throughout
             PROVE  \E i \in 1..Len(polls[p].results) :
                       /\ polls[p].results[i].name = name
                       /\ polls[p].ready => polls[p].results[i].status = "ok"
                       /\ \A k \in 1..Len(polls[p].results) :
                             polls[p].results[k].name = name => k = i
  BY DEF ReportsCoverTheChecks
<1>1. PICK poll \in Poll : poll = polls[p] /\ PollOK(checks, poll)
  BY DEF HealthInv
<1>2. name \in DOMAIN checks /\ checks[name] \in Nat /\ poll.place \in Nat
  BY <1>1 DEF HealthInv, ChecksOK, PollOK, Poll
<1>3. Once(poll.results, name)
  BY <1>1, <1>2 DEF PollOK, Due, BeingAsked, Reported
<1>4. poll.ready => AllOk(poll.results)
  BY <1>1 DEF PollOK
<1> QED BY <1>1, <1>3, <1>4 DEF Once, AllOk

LEMMA HealthInvInit ==
    ASSUME HealthInit
    PROVE  HealthInv
<1>1. ChecksOK
  <2>1. DOMAIN checks = {}
    BY DEF HealthInit
  <2>2. stamp = 0 /\ lastReady = FALSE
    BY DEF HealthInit
  <2>3. stamp \in 0..MaxStamp
    BY <2>2, HealthAssumption
  <2> QED BY <2>1, <2>2, <2>3 DEF ChecksOK
<1>2. ASSUME NEW p \in Polls PROVE polls[p] \in Poll /\ PollOK(checks, polls[p])
  <2>1. polls[p] = [pc |-> "idle", at |-> NoCheck, place |-> 0, results |-> <<>>,
                    throughout |-> {}, ready |-> FALSE]
    BY DEF HealthInit
  <2>2. <<>> \in Seq(Report)
    OBVIOUS
  <2> QED BY <2>1, <2>2, HealthAssumption DEF Poll, PollOK
<1>3. DOMAIN polls = Polls /\ polls = [p \in Polls |-> polls[p]]
  BY DEF HealthInit
<1> QED BY <1>1, <1>2, <1>3 DEF HealthInv

(* The check that comes next is the first of those behind the place.        *)
LEMMA FollowingIs ==
    ASSUME ChecksOK, NEW poll \in Poll
    PROVE  \/ /\ Following(poll) = NoCheck
              /\ \A n \in DOMAIN checks : checks[n] <= poll.place
           \/ /\ Following(poll) \in DOMAIN checks
              /\ checks[Following(poll)] > poll.place
              /\ \A n \in DOMAIN checks :
                    checks[n] > poll.place => checks[Following(poll)] <= checks[n]
<1> DEFINE later == {n \in DOMAIN checks : checks[n] > poll.place}
<1>1. poll.place \in Nat /\ \A n \in DOMAIN checks : checks[n] \in Nat
  BY DEF ChecksOK, Poll
<1>2. CASE later = {}
  BY <1>1, <1>2 DEF Following
<1>3. CASE later # {}
  <2> DEFINE places == {checks[n] : n \in later}
  <2>1. places \in SUBSET Nat /\ places # {}
    BY <1>1, <1>3
  <2>2. PICK x \in places : \A y \in places : x <= y
    <3> HIDE DEF places
    <3> QED BY <2>1, LeastOf
  <2>3. \E n \in later : \A m \in later : checks[n] <= checks[m]
    BY <2>2
  <2>4. Following(poll) = CHOOSE n \in later : \A m \in later : checks[n] <= checks[m]
    BY <1>3 DEF Following
  <2>5. Following(poll) \in later /\ \A m \in later : checks[Following(poll)] <= checks[m]
    BY <2>3, <2>4
  <2> QED BY <2>5
<1> QED BY <1>2, <1>3

LEMMA PollGoesOnIs ==
    ASSUME ChecksOK, NEW poll \in Poll
    PROVE  \E next \in Poll :
              /\ PollGoesOn(poll) = next
              /\ next.results = poll.results /\ next.throughout = poll.throughout
              /\ \/ /\ next.pc = "ending" /\ next.at = NoCheck /\ next.place = poll.place
                    /\ \A n \in DOMAIN checks : checks[n] <= poll.place
                 \/ /\ next.pc = "awaiting" /\ next.at \in DOMAIN checks
                    /\ next.place = checks[next.at] /\ checks[next.at] > poll.place
                    /\ \A n \in DOMAIN checks :
                          checks[n] > poll.place => checks[next.at] <= checks[n]
<1> DEFINE following == Following(poll)
<1>0. DOMAIN checks \subseteq CheckNames /\ \A n \in DOMAIN checks : checks[n] \in Nat
  BY DEF ChecksOK
<1>1. CASE following = NoCheck
  <2>1. \A n \in DOMAIN checks : checks[n] <= poll.place
    BY <1>0, <1>1, FollowingIs, HealthAssumption
  <2>2. PollGoesOn(poll) = [poll EXCEPT !.pc = "ending", !.at = NoCheck]
    BY <1>1 DEF PollGoesOn
  <2> QED BY <2>1, <2>2 DEF Poll
<1>2. CASE following # NoCheck
  <2>1. /\ following \in DOMAIN checks /\ checks[following] > poll.place
        /\ \A n \in DOMAIN checks : checks[n] > poll.place => checks[following] <= checks[n]
    BY <1>2, FollowingIs
  <2>2. PollGoesOn(poll) = [poll EXCEPT !.pc = "awaiting", !.at = following,
                                        !.place = checks[following]]
    BY <1>2 DEF PollGoesOn
  <2> HIDE DEF following
  <2> QED BY <1>0, <2>1, <2>2 DEF Poll
<1> QED BY <1>1, <1>2

LEMMA PollGoesOnKeeps ==
    ASSUME ChecksOK, NEW poll \in Poll, poll.throughout \subseteq DOMAIN checks,
           \A name \in poll.throughout : UpToPlace(checks, poll, name)
    PROVE  PollGoesOn(poll) \in Poll /\ PollOK(checks, PollGoesOn(poll))
<1>1. PICK next \in Poll :
         /\ PollGoesOn(poll) = next
         /\ next.results = poll.results /\ next.throughout = poll.throughout
         /\ \/ /\ next.pc = "ending" /\ next.at = NoCheck /\ next.place = poll.place
               /\ \A n \in DOMAIN checks : checks[n] <= poll.place
            \/ /\ next.pc = "awaiting" /\ next.at \in DOMAIN checks
               /\ next.place = checks[next.at] /\ checks[next.at] > poll.place
               /\ \A n \in DOMAIN checks : checks[n] > poll.place => checks[next.at] <= checks[n]
  BY PollGoesOnIs
<1>2. /\ DOMAIN checks \subseteq CheckNames /\ \A n \in DOMAIN checks : checks[n] \in Nat
      /\ \A n, m \in DOMAIN checks : n # m => checks[n] # checks[m]
      /\ poll.place \in Nat /\ NoCheck \notin CheckNames
  BY HealthAssumption DEF ChecksOK, Poll
<1>3. ASSUME NEW name \in next.throughout
      PROVE  Due(checks, next, name) \/ BeingAsked(checks, next, name) \/ Reported(checks, next, name)
  <2>1. name \in DOMAIN checks /\ UpToPlace(checks, poll, name)
    BY <1>1
  <2>2. CASE next.pc = "ending"
    BY <1>1, <1>2, <2>1, <2>2 DEF UpToPlace, Reported
  <2>3. CASE next.pc = "awaiting" /\ next.at = name
    BY <1>1, <1>2, <2>1, <2>3 DEF UpToPlace, BeingAsked
  <2>4. CASE next.pc = "awaiting" /\ next.at # name
    <3>1. checks[name] > poll.place => checks[name] > next.place
      BY <1>1, <1>2, <2>1, <2>4
    <3>2. checks[name] <= poll.place => checks[name] <= next.place
      BY <1>1, <1>2, <2>1, <2>4
    <3> QED BY <1>1, <2>1, <2>4, <3>1, <3>2 DEF UpToPlace, Due, Reported
  <2> QED BY <1>1, <2>2, <2>3, <2>4
<1>4. next.pc = "awaiting" <=> next.at \in CheckNames
  BY <1>1, <1>2
<1>5. next.pc = "ending" => \A name \in next.throughout : checks[name] <= next.place
  BY <1>1
<1> QED BY <1>1, <1>3, <1>4, <1>5 DEF PollOK

LEMMA NeverThenOnce ==
    ASSUME NEW results \in Seq(Report), NEW entry \in Report
    PROVE  /\ Append(results, entry) \in Seq(Report)
           /\ Never(results, entry.name) => Once(Append(results, entry), entry.name)
           /\ \A name : name # entry.name =>
                 /\ Never(results, name) => Never(Append(results, entry), name)
                 /\ Once(results, name) => Once(Append(results, entry), name)
<1> DEFINE len == Len(results)
           more == Append(results, entry)
<1>1. /\ len \in Nat /\ more \in Seq(Report) /\ Len(more) = len + 1
      /\ more[len + 1] = entry /\ \A i \in 1..len : more[i] = results[i]
  OBVIOUS
<1>2. 1..(len + 1) = 1..len \cup {len + 1} /\ (len + 1) \notin 1..len
  BY <1>1
<1> HIDE DEF len, more
<1>3. ASSUME Never(results, entry.name) PROVE Once(more, entry.name)
  <2>1. \A i \in 1..len : more[i].name # entry.name
    BY <1>1, <1>3 DEF Never, len
  <2>2. \A k \in 1..(len + 1) : more[k].name = entry.name => k = len + 1
    BY <1>2, <2>1
  <2>3. len + 1 \in 1..(len + 1) /\ more[len + 1].name = entry.name
    BY <1>1, <1>2
  <2> QED BY <1>1, <2>2, <2>3 DEF Once
<1>4. ASSUME NEW name, name # entry.name, Never(results, name) PROVE Never(more, name)
  <2>1. \A i \in 1..len : more[i].name # name
    BY <1>1, <1>4 DEF Never, len
  <2> QED BY <1>1, <1>2, <1>4, <2>1 DEF Never
<1>5. ASSUME NEW name, name # entry.name, Once(results, name) PROVE Once(more, name)
  <2>1. PICK i \in 1..len : /\ results[i].name = name
                            /\ \A k \in 1..len : results[k].name = name => k = i
    BY <1>5 DEF Once, len
  <2>2. i \in 1..(len + 1) /\ more[i].name = name
    BY <1>1, <1>2, <2>1
  <2>3. \A k \in 1..(len + 1) : more[k].name = name => k = i
    BY <1>1, <1>2, <1>5, <2>1
  <2> QED BY <1>1, <2>2, <2>3 DEF Once
<1> QED BY <1>1, <1>3, <1>4, <1>5 DEF more

LEMMA ReadyMeansAllOk ==
    ASSUME NEW results \in Seq(Report), AggregateStatus(results) = "ok"
    PROVE  AllOk(results)
<1> SUFFICES ASSUME NEW i \in 1..Len(results) PROVE results[i].status = "ok"
  BY DEF AllOk
<1> DEFINE found == {results[k].status : k \in 1..Len(results)}
<1>1. results[i].status \in {"ok", "degraded", "down"} /\ results[i].status \in found
  <2>1. results[i] \in Report
    OBVIOUS
  <2> QED BY <2>1 DEF Report, CheckStatuses
<1>2. "down" \notin found
  BY DEF AggregateStatus
<1>3. "degraded" \notin found
  BY <1>2 DEF AggregateStatus
<1> QED BY <1>1, <1>2, <1>3

-----------------------------------------------------------------------------

LEMMA RegisterCheckKeeps ==
    ASSUME HealthInv, NEW name \in CheckNames, RegisterCheck(name)
    PROVE  HealthInv'
<1>1. polls' = polls /\ lastReady' = lastReady
  BY DEF RegisterCheck
<1>2. CASE name \in DOMAIN checks
  <2>1. checks' = checks /\ stamp' = stamp
    BY <1>2 DEF RegisterCheck
  <2> QED BY <1>1, <2>1 DEF HealthInv, ChecksOK
<1>3. CASE name \notin DOMAIN checks
  <2>1. /\ stamp < MaxStamp /\ stamp' = stamp + 1
        /\ checks' = [n \in DOMAIN checks \cup {name} |-> IF n = name THEN stamp + 1 ELSE checks[n]]
    BY <1>3 DEF RegisterCheck
  <2>2. DOMAIN checks' = DOMAIN checks \cup {name}
    BY <2>1
  <2>3. checks'[name] = stamp + 1 /\ \A n \in DOMAIN checks : checks'[n] = checks[n]
    BY <1>3, <2>1
  <2>4. stamp \in Nat /\ stamp' \in 0..MaxStamp /\ \A n \in DOMAIN checks : checks[n] \in 1..stamp
    BY <2>1, HealthAssumption DEF HealthInv, ChecksOK
  <2>5. ChecksOK'
    <3>1. \A n \in DOMAIN checks' : checks'[n] \in 1..(stamp + 1)
      BY <2>2, <2>3, <2>4
    <3>2. \A n, m \in DOMAIN checks' : n # m => checks'[n] # checks'[m]
      <4>1. \A n \in DOMAIN checks : checks'[n] # checks'[name]
        BY <2>3, <2>4
      <4> QED BY <2>2, <2>3, <4>1 DEF HealthInv, ChecksOK
    <3>3. DOMAIN checks' \subseteq CheckNames /\ lastReady' \in BOOLEAN
      BY <1>1, <2>2 DEF HealthInv, ChecksOK
    <3> QED BY <2>1, <2>4, <3>1, <3>2, <3>3 DEF ChecksOK
  <2>6. ASSUME NEW p \in Polls PROVE PollOK(checks', polls[p])
    <3>1. PICK poll \in Poll : poll = polls[p] /\ PollOK(checks, poll)
      BY DEF HealthInv
    <3>2. \A n \in poll.throughout : n \in DOMAIN checks' /\ checks'[n] = checks[n]
      BY <2>2, <2>3, <3>1 DEF PollOK
    <3> QED BY <3>1, <3>2 DEF PollOK, Due, BeingAsked, Reported
  <2> QED BY <1>1, <2>5, <2>6 DEF HealthInv
<1> QED BY <1>2, <1>3

LEMMA UnregisterCheckKeeps ==
    ASSUME HealthInv, NEW name \in CheckNames, UnregisterCheck(name)
    PROVE  HealthInv'
<1>1. /\ checks' = [n \in DOMAIN checks \ {name} |-> checks[n]]
      /\ stamp' = stamp /\ lastReady' = lastReady
      /\ polls' = [p \in Polls |-> [polls[p] EXCEPT !.throughout = @ \ {name}]]
  BY DEF UnregisterCheck
<1>2. DOMAIN checks' = DOMAIN checks \ {name} /\ \A n \in DOMAIN checks' : checks'[n] = checks[n]
  BY <1>1
<1>3. ChecksOK'
  BY <1>1, <1>2 DEF HealthInv, ChecksOK
<1>4. ASSUME NEW p \in Polls PROVE polls'[p] \in Poll /\ PollOK(checks', polls'[p])
  <2>1. PICK poll \in Poll : poll = polls[p] /\ PollOK(checks, poll)
    BY DEF HealthInv
  <2>2. PICK next \in Poll :
           /\ next = polls'[p] /\ next.throughout = poll.throughout \ {name}
           /\ next.pc = poll.pc /\ next.at = poll.at /\ next.place = poll.place
           /\ next.results = poll.results /\ next.ready = poll.ready
    <3> DEFINE less == [poll EXCEPT !.throughout = @ \ {name}]
    <3>1. polls'[p] = less
      BY <1>1, <2>1
    <3>2. /\ less \in Poll /\ less.throughout = poll.throughout \ {name}
          /\ less.pc = poll.pc /\ less.at = poll.at /\ less.place = poll.place
          /\ less.results = poll.results /\ less.ready = poll.ready
      BY DEF Poll
    <3> QED BY <3>1, <3>2
  <2>3. \A n \in next.throughout : /\ n \in poll.throughout /\ n \in DOMAIN checks'
                                   /\ checks'[n] = checks[n]
    BY <1>2, <2>1, <2>2 DEF PollOK
  <2> QED BY <2>1, <2>2, <2>3 DEF PollOK, Due, BeingAsked, Reported
<1>5. polls' \in [Polls -> Poll]
  BY <1>1, <1>4
<1> QED BY <1>3, <1>4, <1>5 DEF HealthInv

(* A step of one poll.                                                      *)
LEMMA PollMoves ==
    ASSUME HealthInv, NEW p \in Polls, NEW next \in Poll, PollOK(checks, next),
           polls' = [polls EXCEPT ![p] = next], UNCHANGED <<checks, stamp>>, lastReady' \in BOOLEAN
    PROVE  HealthInv'
<1>1. ChecksOK'
  BY DEF HealthInv, ChecksOK
<1>2. polls' \in [Polls -> Poll]
  BY DEF HealthInv
<1>3. \A q \in Polls : polls'[q] = IF q = p THEN next ELSE polls[q]
  BY DEF HealthInv
<1>4. \A q \in Polls : PollOK(checks, polls'[q])
  BY <1>3 DEF HealthInv
<1> QED BY <1>1, <1>2, <1>4 DEF HealthInv

LEMMA ReadinessKeeps ==
    ASSUME HealthInv, NEW p \in Polls, Readiness(p)
    PROVE  HealthInv'
<1>1. PICK poll \in Poll : poll = polls[p] /\ PollOK(checks, poll)
  BY DEF HealthInv
<1>2. poll.place = 0 /\ poll.results = <<>>
  BY <1>1 DEF Readiness, PollOK
<1>3. DOMAIN checks \subseteq CheckNames /\ \A n \in DOMAIN checks : checks[n] > 0
  BY DEF HealthInv, ChecksOK
<1>4. PICK begun \in Poll : /\ begun = [poll EXCEPT !.throughout = DOMAIN checks]
                            /\ begun.throughout = DOMAIN checks
                            /\ begun.place = 0 /\ begun.results = <<>>
  <2> DEFINE b == [poll EXCEPT !.throughout = DOMAIN checks]
  <2>1. b \in Poll /\ b.throughout = DOMAIN checks /\ b.place = 0 /\ b.results = <<>>
    BY <1>2, <1>3 DEF Poll
  <2> QED BY <2>1
<1>5. \A name \in begun.throughout : UpToPlace(checks, begun, name)
  <2>1. Len(begun.results) = 0
    BY <1>4
  <2> QED BY <1>3, <1>4, <2>1 DEF UpToPlace, Never
<1>6. PollGoesOn(begun) \in Poll /\ PollOK(checks, PollGoesOn(begun))
  BY <1>4, <1>5, PollGoesOnKeeps DEF HealthInv
<1>7. polls' = [polls EXCEPT ![p] = PollGoesOn(begun)]
  BY <1>1, <1>4 DEF Readiness, HealthInv
<1>8. UNCHANGED <<checks, stamp>> /\ lastReady' \in BOOLEAN
  BY DEF Readiness, HealthInv, ChecksOK
<1> HIDE DEF PollGoesOn
<1> QED BY <1>6, <1>7, <1>8, PollMoves

LEMMA CheckSettlesKeeps ==
    ASSUME HealthInv, NEW p \in Polls, NEW status \in CheckStatuses, CheckSettles(p, status)
    PROVE  HealthInv'
<1>1. PICK poll \in Poll : poll = polls[p] /\ PollOK(checks, poll)
  BY DEF HealthInv
<1>2. poll.pc = "awaiting" /\ poll.at \in CheckNames /\ poll.results \in Seq(Report)
  BY <1>1 DEF CheckSettles, PollOK, Poll
<1>3. PICK entry \in Report : /\ entry = [name |-> poll.at, status |-> status]
                              /\ entry.name = poll.at
  <2> DEFINE e == [name |-> poll.at, status |-> status]
  <2>1. e \in Report /\ e.name = poll.at
    BY <1>2 DEF Report
  <2> QED BY <2>1
<1>4. PICK results \in Seq(Report) :
         /\ results = Append(poll.results, entry)
         /\ Never(poll.results, entry.name) => Once(results, entry.name)
         /\ \A name : name # entry.name =>
               /\ Never(poll.results, name) => Never(results, name)
               /\ Once(poll.results, name) => Once(results, name)
  BY <1>2, NeverThenOnce
<1>5. PICK settled \in Poll :
         /\ settled = [poll EXCEPT !.results = results]
         /\ settled.results = results /\ settled.place = poll.place
         /\ settled.throughout = poll.throughout
  <2> DEFINE with == [poll EXCEPT !.results = results]
  <2>1. /\ with \in Poll /\ with.results = results /\ with.place = poll.place
        /\ with.throughout = poll.throughout
    BY DEF Poll
  <2> QED BY <2>1
<1>6. ASSUME NEW name \in settled.throughout PROVE UpToPlace(checks, settled, name)
  <2>1. Due(checks, poll, name) \/ BeingAsked(checks, poll, name) \/ Reported(checks, poll, name)
    BY <1>1, <1>2, <1>5 DEF PollOK
  <2>2. checks[name] \in Nat /\ poll.place \in Nat
    BY <1>1, <1>5 DEF HealthInv, ChecksOK, PollOK, Poll
  <2>3. CASE Due(checks, poll, name)
    BY <1>3, <1>4, <1>5, <2>3 DEF Due, UpToPlace
  <2>4. CASE BeingAsked(checks, poll, name)
    BY <1>3, <1>4, <1>5, <2>2, <2>4 DEF BeingAsked, UpToPlace
  <2>5. CASE Reported(checks, poll, name)
    BY <1>3, <1>4, <1>5, <2>5 DEF Reported, UpToPlace
  <2> QED BY <2>1, <2>3, <2>4, <2>5
<1>7. PollGoesOn(settled) \in Poll /\ PollOK(checks, PollGoesOn(settled))
  <2>1. settled.throughout \subseteq DOMAIN checks
    BY <1>1, <1>5 DEF PollOK
  <2> QED BY <1>6, <2>1, PollGoesOnKeeps DEF HealthInv
<1>8. polls' = [polls EXCEPT ![p] = PollGoesOn(settled)]
  <2>1. polls' = [polls EXCEPT ![p] = PollGoesOn(WithResult(poll, status))]
    BY <1>1 DEF CheckSettles, HealthInv
  <2>2. WithResult(poll, status) = settled
    BY <1>3, <1>4, <1>5 DEF WithResult
  <2> QED BY <2>1, <2>2
<1>9. UNCHANGED <<checks, stamp>> /\ lastReady' \in BOOLEAN
  BY DEF CheckSettles, HealthInv, ChecksOK
<1> QED BY <1>7, <1>8, <1>9, PollMoves

LEMMA ReadinessEndsKeeps ==
    ASSUME HealthInv, NEW p \in Polls, ReadinessEnds(p)
    PROVE  HealthInv'
<1>1. PICK poll \in Poll : poll = polls[p] /\ PollOK(checks, poll)
  BY DEF HealthInv
<1>2. PICK ready \in BOOLEAN : ready = (AggregateStatus(poll.results) = "ok")
  OBVIOUS
<1>3. /\ poll.pc = "ending"
      /\ polls' = [polls EXCEPT ![p] = [poll EXCEPT !.pc = "answered", !.ready = ready]]
  BY <1>1, <1>2 DEF ReadinessEnds, HealthInv
<1>4. PICK next \in Poll :
         /\ next = [poll EXCEPT !.pc = "answered", !.ready = ready]
         /\ next.pc = "answered" /\ next.ready = ready /\ next.at = poll.at
         /\ next.place = poll.place /\ next.results = poll.results
         /\ next.throughout = poll.throughout
  <2> DEFINE n == [poll EXCEPT !.pc = "answered", !.ready = ready]
  <2>1. /\ n \in Poll /\ n.pc = "answered" /\ n.ready = ready /\ n.at = poll.at
        /\ n.place = poll.place /\ n.results = poll.results /\ n.throughout = poll.throughout
    BY DEF Poll
  <2> QED BY <2>1
<1>5. ready => AllOk(next.results)
  <2>1. poll.results \in Seq(Report)
    BY DEF Poll
  <2> QED BY <1>2, <1>4, <2>1, ReadyMeansAllOk
<1>6. PollOK(checks, next)
  BY <1>1, <1>3, <1>4, <1>5 DEF PollOK, Due, BeingAsked, Reported
<1>7. UNCHANGED <<checks, stamp>> /\ lastReady' \in BOOLEAN
  BY DEF ReadinessEnds
<1> QED BY <1>3, <1>4, <1>6, <1>7, PollMoves

LEMMA HealthInvNext ==
    ASSUME HealthInv, [HealthNext]_healthVars
    PROVE  HealthInv'
<1>1. CASE UNCHANGED healthVars
  BY <1>1 DEF healthVars, HealthInv, ChecksOK
<1>2. CASE HealthNext
  BY <1>2, RegisterCheckKeeps, UnregisterCheckKeeps, ReadinessKeeps, ReadinessEndsKeeps,
     CheckSettlesKeeps DEF HealthNext
<1> QED BY <1>1, <1>2

LEMMA HealthInvTypes ==
    ASSUME HealthInv
    PROVE  HealthTypeOK
<1>1. ASSUME NEW p \in Polls
      PROVE  /\ polls[p].pc \in {"idle", "awaiting", "ending", "answered"}
             /\ (polls[p].pc = "awaiting") = (polls[p].at \in CheckNames)
             /\ polls[p].throughout \subseteq CheckNames
  <2>1. PICK poll \in Poll : poll = polls[p] /\ PollOK(checks, poll)
    BY DEF HealthInv
  <2> QED BY <2>1 DEF Poll, PollOK
<1> QED BY <1>1 DEF HealthInv, ChecksOK, HealthTypeOK

(* Whatever is registered and unregistered during a poll, and however many  *)
(* polls run: a report names each check that was there all through it       *)
(* exactly once, and is ready only if all of them were ok                   *)
(* (HealthManager.readiness(), runChecks()).                                *)
THEOREM ReportsCoverTheChecksAlways == HealthSpec => [](HealthTypeOK /\ ReportsCoverTheChecks)
<1>1. HealthInit => HealthInv
  BY HealthInvInit
<1>2. HealthInv /\ [HealthNext]_healthVars => HealthInv'
  BY HealthInvNext
<1>3. HealthInv => HealthTypeOK /\ ReportsCoverTheChecks
  BY HealthInvTypes, HealthInvCovers
<1> QED BY <1>1, <1>2, <1>3, PTL DEF HealthSpec
=============================================================================
