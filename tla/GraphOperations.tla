-------------------------- MODULE GraphOperations --------------------------
(***************************************************************************)
(* The operations of InMemoryGraphiti (packages/graphiti) on a graph       *)
(* [nodes, edges, out, inc]: nodes maps ids to a status (the property the  *)
(* event writer keeps there), edges maps ids to [source, target], out and  *)
(* inc map nodes to the ids of edges listed under them, as often as they   *)
(* were added.  Times, labels, change log and listeners are left out.      *)
(***************************************************************************)
EXTENDS Naturals, Sequences, SequencesExt, FiniteSetsExt, Functions, SequenceFilters

EmptyGraph == [nodes |-> <<>>, edges |-> <<>>, out |-> <<>>, inc |-> <<>>]

Put(f, key, value) == [k \in DOMAIN f \cup {key} |-> IF k = key THEN value ELSE f[k]]
Without(f, key) == [k \in DOMAIN f \ {key} |-> f[k]]
Listed(f, node) == IF node \in DOMAIN f THEN f[node] ELSE <<>>

(* A node whose id is in use is replaced, its edges stay.                   *)
AddNode(g, id, status) == [g EXCEPT !.nodes = Put(@, id, status)]

UpdateNode(g, id, status) ==
    IF id \in DOMAIN g.nodes THEN [g EXCEPT !.nodes[id] = status] ELSE g

(* An edge whose id is in use is replaced, and stays listed where it was.   *)
AddEdge(g, id, source, target) ==
    [g EXCEPT !.edges = Put(@, id, [source |-> source, target |-> target]),
              !.out = Put(@, source, Append(Listed(@, source), id)),
              !.inc = Put(@, target, Append(Listed(@, target), id))]

Unlist(f, node, id) == IF node \in DOMAIN f THEN [f EXCEPT ![node] = RemoveFirst(@, id)] ELSE f

RemoveEdge(g, id) ==
    IF id \notin DOMAIN g.edges THEN g
    ELSE [g EXCEPT !.edges = Without(@, id),
                   !.out = Unlist(@, g.edges[id].source, id),
                   !.inc = Unlist(@, g.edges[id].target, id)]

(* One after the other; an edge that is gone already stays so.              *)
RemoveEdges(g, ids) ==
    LET rest[n \in 0..Len(ids)] == IF n = 0 THEN g ELSE RemoveEdge(rest[n - 1], ids[n])
    IN  rest[Len(ids)]

DropNode(g, id) ==
    [g EXCEPT !.nodes = Without(@, id), !.out = Without(@, id), !.inc = Without(@, id)]

(* mutant: only the edges that leave the node go with it                    *)
RemoveNodeAndOutgoing(g, id) ==
    IF id \notin DOMAIN g.nodes THEN g ELSE DropNode(RemoveEdges(g, Listed(g.out, id)), id)

RemoveNode(g, id) ==
    IF id \notin DOMAIN g.nodes THEN g
    ELSE DropNode(RemoveEdges(g, Listed(g.out, id) \o Listed(g.inc, id)), id)

(* The edges listed under a node that still exist.                          *)
GetEdges(g, list, node) == KeepIn(Listed(list, node), DOMAIN g.edges)

Reached(arcs, from) == {arc[2] : arc \in {a \in arcs : a[1] \in from}}

(* In how many steps along the arcs the target is reached: the first wave   *)
(* from the source that has it, or maxDepth + 1.                            *)
Steps(arcs, source, target, maxDepth) ==
    LET wave[n \in 0..maxDepth] == IF n = 0 THEN {source} ELSE Reached(arcs, wave[n - 1])
    IN  Min({n \in 0..maxDepth : target \in wave[n]} \cup {maxDepth + 1})

ListedArcs(g) ==
    UNION {{<<node, g.edges[id].target>> : id \in Range(GetEdges(g, g.out, node))} :
               node \in DOMAIN g.out}

(* findPath(): breadth first along the edges listed as outgoing; the length *)
(* of the path found, or maxDepth + 1 for none.                             *)
PathLength(g, source, target, maxDepth) == Steps(ListedArcs(g), source, target, maxDepth)

-----------------------------------------------------------------------------

(* The length of a shortest path by the edges alone.                        *)
Distance(g, source, target, maxDepth) ==
    Steps({<<g.edges[id].source, g.edges[id].target>> : id \in DOMAIN g.edges},
          source, target, maxDepth)
=============================================================================
