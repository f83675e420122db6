-------------------------- MODULE DependencyChecks --------------------------
(***************************************************************************)
(* The two depth-first searches for circular dependencies that answer with *)
(* a verdict: validateStepOrdering() of an execution's steps               *)
(* (packages/hermes/src/execution/ExecutionValidator.ts), and the check    *)
(* that every build makes of the workspace's packages and their layers     *)
(* (scripts/check-cycles.ts).                                              *)
(***************************************************************************)
EXTENDS Naturals, Sequences, SequencesExt, FiniteSets

CONSTANTS
    Nodes,      \* the steps or packages, in order
    Unknown,    \* names that are none of them
    Layers

VARIABLES
    deps,       \* what each node names as its dependencies
    layer,
    verdict

vars == <<deps, layer, verdict>>

Known == ToSet(Nodes)

DepsOf(n) == IF n \in Known THEN SetToSeq(deps[n]) ELSE <<>>

-----------------------------------------------------------------------------
(* validateStepOrdering()                                                   *)

RECURSIVE HasCycle(_, _)

(* mutant: a node seen before is taken for one on the stack                 *)
SeenOrOnStack(search, n) == n \in search.visited

OnStack(search, n) == n \in search.inStack

(* The first cycle ends the search, and leaves the stack as it is.          *)
HasCycle(search, n) ==
    IF search.found \/ OnStack(search, n) THEN [search EXCEPT !.found = TRUE]
    ELSE IF n \in search.visited THEN search
    ELSE LET inside == [search EXCEPT !.visited = @ \cup {n}, !.inStack = @ \cup {n}]
             after  == FoldLeft(HasCycle, inside, DepsOf(n))
         IN  IF after.found THEN after ELSE [after EXCEPT !.inStack = @ \ {n}]

OrderingValid ==
    /\ \A n \in Known : deps[n] \subseteq Known
    /\ ~FoldLeft(HasCycle, [visited |-> {}, inStack |-> {}, found |-> FALSE], Nodes).found

-----------------------------------------------------------------------------
(* checkCycles(), checkLayerMatrix()                                        *)

RECURSIVE Visit(_, _)

(* mutant: it is asked whether the node was visited before whether it is on *)
(* the stack                                                                *)
VisitedFirst(search, n) == n \in ToSet(search.stack) /\ n \notin search.visited

ClosesCycle(search, n) == n \in ToSet(search.stack)

Visit(search, n) ==
    IF ClosesCycle(search, n)
    THEN [search EXCEPT !.cycles = Append(@,
             SubSeq(search.stack, SelectInSeq(search.stack, LAMBDA m : m = n),
                    Len(search.stack)) \o <<n>>)]
    ELSE IF n \in search.visited THEN search
    ELSE LET inside == [search EXCEPT !.visited = @ \cup {n}, !.stack = Append(@, n)]
             after  == FoldLeft(Visit, inside, DepsOf(n))
         IN  [after EXCEPT !.stack = Front(@)]

Cycles == FoldLeft(Visit, [visited |-> {}, stack |-> <<>>, cycles |-> <<>>], Nodes).cycles

(* LAYER_EDGES: from a layer to each of those below it; within one anything *)
(* goes.                                                                    *)
LayerEdges == {<<2, 1>>, <<3, 1>>, <<3, 2>>, <<4, 1>>, <<4, 2>>, <<4, 3>>}

LayerErrors ==
    {<<n, d>> \in Known \X (Known \cup Unknown) :
        /\ d \in deps[n]
        /\ d \in Known => layer[n] # layer[d] /\ <<layer[n], layer[d]>> \notin LayerEdges}

-----------------------------------------------------------------------------

Pending == [done |-> FALSE, ordering |-> FALSE, cycles |-> <<>>, layerErrors |-> {}]

Init ==
    /\ deps \in [Known -> SUBSET (Known \cup Unknown)]
    /\ layer \in [Known -> Layers]
    /\ verdict = Pending

Check ==
    /\ ~verdict.done
    /\ verdict' = [done |-> TRUE, ordering |-> OrderingValid, cycles |-> Cycles,
                   layerErrors |-> LayerErrors]
    /\ UNCHANGED <<deps, layer>>

Next == Check

Spec == Init /\ [][Next]_vars

-----------------------------------------------------------------------------

(* The steps that have everything they depend on below them, level by level *)
RECURSIVE Orderable(_)
Orderable(below) ==
    LET more == {n \in Known : deps[n] \subseteq below} \cup below
    IN  IF more = below THEN below ELSE Orderable(more)

RECURSIVE Reaches(_, _)
Reaches(from, steps) ==
    IF steps = 0 THEN from
    ELSE Reaches(from \cup UNION {deps[n] : n \in from \cap Known}, steps - 1)

Below(n) == Reaches(deps[n], Len(Nodes))

(* A set of steps is refused exactly if there is no order to run them in;   *)
(* and packages pass exactly if they can be built layer by layer.  Every    *)
(* cycle reported is one, and every knot of packages has one reported.      *)
(* (validateStepOrdering(), checkCycles(), checkLayerMatrix())              *)
RefusedMeansUnorderable ==
    verdict.done =>
        /\ verdict.ordering <=> Orderable({}) = Known
        /\ \A i \in 1..Len(verdict.cycles) : LET cycle == verdict.cycles[i] IN
              /\ Len(cycle) > 1 /\ Head(cycle) = Last(cycle)
              /\ \A k \in 1..(Len(cycle) - 1) : cycle[k + 1] \in deps[cycle[k]]
        /\ \A n \in Known : n \in Below(n) =>
              \E i \in 1..Len(verdict.cycles) :
                 LET m == Head(verdict.cycles[i]) IN m \in Below(n) /\ n \in Below(m)
        /\ verdict.layerErrors = {} <=>
              \A n \in Known : deps[n] \subseteq {d \in Known : layer[d] <= layer[n]}
=============================================================================
