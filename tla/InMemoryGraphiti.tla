-------------------------- MODULE InMemoryGraphiti --------------------------
(***************************************************************************)
(* The in-memory graph under any sequence of calls; every call is one step *)
(* (nothing in packages/graphiti/src/InMemoryGraphiti.ts awaits).  What    *)
(* updateNode() changes is in GraphitiEventWriter.  The proof that the     *)
(* graph stays whole, for any nodes, edges and bounds, is at the end.      *)
(***************************************************************************)
EXTENDS GraphOperations, TLAPS

CONSTANTS
    NodeIds, EdgeIds,
    MaxDepth,       \* the option of findPath() (10 if a caller gives none)
    MaxListed       \* bound: how many listings of edges as outgoing, or incoming

VARIABLES
    graph,
    reused          \* an edge id has been added while it was in use

graphVars == <<graph, reused>>

GraphInit == graph = EmptyGraph /\ reused = FALSE

DoAddNode(id) ==
    /\ id \notin DOMAIN graph.nodes
    /\ graph' = AddNode(graph, id, "new") /\ UNCHANGED reused

DoRemoveNode(id) ==
    /\ graph' = RemoveNode(graph, id) /\ UNCHANGED reused

Listings(list) == MapThenSumSet(LAMBDA node : Len(list[node]), DOMAIN list)

(* The ends need not be nodes.                                              *)
DoAddEdge(id, source, target) ==
    /\ Listings(graph.out) < MaxListed /\ Listings(graph.inc) < MaxListed
    /\ graph' = AddEdge(graph, id, source, target)
    /\ reused' = (reused \/ id \in DOMAIN graph.edges)

DoRemoveEdge(id) ==
    /\ graph' = RemoveEdge(graph, id) /\ UNCHANGED reused

ClearGraph ==
    /\ graph # EmptyGraph /\ graph' = EmptyGraph /\ reused' = FALSE

GraphNext ==
    \/ ClearGraph
    \/ \E id \in NodeIds : DoAddNode(id) \/ DoRemoveNode(id)
    \/ \E id \in EdgeIds :
          DoRemoveEdge(id) \/ \E s, t \in NodeIds : DoAddEdge(id, s, t)

GraphSpec == GraphInit /\ [][GraphNext]_graphVars

-----------------------------------------------------------------------------

(* An edge is listed under its source, or its target.                       *)
EdgesAreListed(list, side) ==
    \A id \in DOMAIN graph.edges : id \in Range(Listed(list, graph.edges[id][side]))

(* getEdges() gives the edges that have the node for that end, each once.   *)
EdgesAreFound(list, side) ==
    \A node \in NodeIds :
        /\ Range(GetEdges(graph, list, node)) =
              {id \in DOMAIN graph.edges : graph.edges[id][side] = node}
        /\ NoRepeats(GetEdges(graph, list, node))

PathsAreShortest ==
    \A s, t \in NodeIds : PathLength(graph, s, t, MaxDepth) = Distance(graph, s, t, MaxDepth)

(* A node that is removed takes its edges with it: none is left with that   *)
(* node for an end (removeNode()).                                          *)
RemovesEdgesWithTheNode ==
    \A node \in DOMAIN graph.nodes \ DOMAIN graph'.nodes :
        \A id \in DOMAIN graph'.edges :
            node \notin {graph'.edges[id].source, graph'.edges[id].target}

(* The two listings and the edges never part: an edge is listed under both  *)
(* its ends, however ids are reused and nodes removed; as long as no id was *)
(* added twice, getEdges() gives a node's edges, and findPath() finds a     *)
(* path exactly if there is one, and a shortest one; and a node that is     *)
(* removed leaves no edge (addEdge(), removeNode(), findPath()).            *)
GraphStaysWhole ==
    /\ [](/\ EdgesAreListed(graph.out, "source") /\ EdgesAreListed(graph.inc, "target")
          /\ ~reused => /\ EdgesAreFound(graph.out, "source")
                        /\ EdgesAreFound(graph.inc, "target")
                        /\ PathsAreShortest)
    /\ [][RemovesEdgesWithTheNode]_graphVars

-----------------------------------------------------------------------------
(* Proofs.  The two listings are alike: what is shown of one, and of the    *)
(* ends of the edges on its side, holds of the other.                       *)

Sides == {"source", "target"}

EdgeTables == UNION {[D -> [source : NodeIds, target : NodeIds]] : D \in SUBSET EdgeIds}

ListTables == UNION {[D -> Seq(EdgeIds)] : D \in SUBSET NodeIds}

NodeTables == UNION {[D -> {"new"}] : D \in SUBSET NodeIds}

AreListed(list, edges, side) ==
    \A id \in DOMAIN edges : id \in Range(Listed(list, edges[id][side]))

NothingElseIsListed(list, edges, side) ==
    \A node \in NodeIds :
        /\ NoRepeats(Listed(list, node))
        /\ \A id \in Range(Listed(list, node)) : id \in DOMAIN edges /\ edges[id][side] = node

LEMMA EdgeIs ==
    ASSUME NEW edges \in EdgeTables, NEW id \in DOMAIN edges
    PROVE  /\ id \in EdgeIds /\ edges[id] \in [source : NodeIds, target : NodeIds]
           /\ \A side \in Sides : edges[id][side] \in NodeIds
BY DEF EdgeTables, Sides

LEMMA WithoutEdge ==
    ASSUME NEW edges \in EdgeTables, NEW id, NEW new, new = Without(edges, id)
    PROVE  new \in EdgeTables
<1>1. new \in [DOMAIN edges \ {id} -> Range(edges)]
  BY DEF Without, Range
<1>2. /\ DOMAIN edges \subseteq EdgeIds /\ Range(edges) \subseteq [source : NodeIds, target : NodeIds]
  BY DEF EdgeTables, Range
<1> QED BY <1>1, <1>2 DEF EdgeTables

LEMMA PutEdge ==
    ASSUME NEW edges \in EdgeTables, NEW id \in EdgeIds,
           NEW edge \in [source : NodeIds, target : NodeIds], NEW new, new = Put(edges, id, edge)
    PROVE  new \in EdgeTables
<1>1. /\ DOMAIN new = DOMAIN edges \cup {id} /\ new[id] = edge
      /\ new = [e \in DOMAIN edges \cup {id} |-> new[e]]
      /\ \A e \in DOMAIN edges : e # id => new[e] = edges[e]
  BY DEF Put
<1>2. \A e \in DOMAIN edges : e \in EdgeIds /\ edges[e] \in [source : NodeIds, target : NodeIds]
  BY EdgeIs
<1>3. new \in [DOMAIN edges \cup {id} -> [source : NodeIds, target : NodeIds]]
  BY <1>1, <1>2
<1> QED BY <1>1, <1>2, <1>3 DEF EdgeTables

LEMMA ListIs ==
    ASSUME NEW list \in ListTables
    PROVE  DOMAIN list \subseteq NodeIds /\ \A node : Listed(list, node) \in Seq(EdgeIds)
<1>1. DOMAIN list \subseteq NodeIds /\ \A node \in DOMAIN list : list[node] \in Seq(EdgeIds)
  BY DEF ListTables
<1>2. <<>> \in Seq(EdgeIds)
  OBVIOUS
<1> QED BY <1>1, <1>2 DEF Listed

LEMMA WithoutList ==
    ASSUME NEW list \in ListTables, NEW node, NEW new, new = Without(list, node)
    PROVE  /\ new \in ListTables /\ Listed(new, node) = <<>>
           /\ \A n : n # node => Listed(new, n) = Listed(list, n)
<1>1. /\ DOMAIN new = DOMAIN list \ {node} /\ new = [n \in DOMAIN list \ {node} |-> new[n]]
      /\ \A n \in DOMAIN new : new[n] = list[n]
  BY DEF Without
<1>2. \A n \in DOMAIN list : n \in NodeIds /\ list[n] \in Seq(EdgeIds)
  BY DEF ListTables
<1>3. new \in [DOMAIN list \ {node} -> Seq(EdgeIds)]
  BY <1>1, <1>2
<1>4. new \in ListTables
  BY <1>2, <1>3 DEF ListTables
<1> QED BY <1>1, <1>4 DEF Listed

LEMMA PutList ==
    ASSUME NEW list \in ListTables, NEW node \in NodeIds, NEW ids \in Seq(EdgeIds),
           NEW new, new = Put(list, node, ids)
    PROVE  /\ new \in ListTables /\ Listed(new, node) = ids
           /\ \A n : n # node => Listed(new, n) = Listed(list, n)
<1>1. /\ DOMAIN new = DOMAIN list \cup {node} /\ new[node] = ids
      /\ new = [n \in DOMAIN list \cup {node} |-> new[n]]
      /\ \A n \in DOMAIN list : n # node => new[n] = list[n]
  BY DEF Put
<1>2. \A n \in DOMAIN list : n \in NodeIds /\ list[n] \in Seq(EdgeIds)
  BY DEF ListTables
<1>3. new \in [DOMAIN list \cup {node} -> Seq(EdgeIds)]
  BY <1>1, <1>2
<1>4. new \in ListTables
  BY <1>2, <1>3 DEF ListTables
<1> QED BY <1>1, <1>4 DEF Listed

(* The first occurrence of id goes from the node's list, nothing else.      *)
LEMMA UnlistIs ==
    ASSUME NEW list \in ListTables, NEW node \in NodeIds, NEW id,
           NEW new, new = Unlist(list, node, id)
    PROVE  /\ new \in ListTables
           /\ \A n : n # node => Listed(new, n) = Listed(list, n)
           /\ Range(Listed(new, node)) \subseteq Range(Listed(list, node))
           /\ \A e \in Range(Listed(list, node)) : e # id => e \in Range(Listed(new, node))
           /\ NoRepeats(Listed(list, node)) =>
                 NoRepeats(Listed(new, node)) /\ id \notin Range(Listed(new, node))
<1>1. CASE node \notin DOMAIN list
  <2>1. new = list /\ Listed(list, node) = <<>>
    BY <1>1 DEF Unlist, Listed
  <2>2. id \notin Range(Listed(list, node))
    BY <2>1 DEF Range
  <2> QED BY <2>1, <2>2
<1>2. CASE node \in DOMAIN list
  <2>1. PICK s : s = list[node]
    OBVIOUS
  <2>2. PICK t : t = RemoveFirst(s, id)
    OBVIOUS
  <2>3. s \in Seq(EdgeIds) /\ Listed(list, node) = s
    BY <1>2, <2>1, ListIs DEF Listed
  <2>4. /\ t \in Seq(EdgeIds) /\ Range(t) \subseteq Range(s)
        /\ \A e \in Range(s) : e # id => e \in Range(t)
        /\ NoRepeats(s) => NoRepeats(t) /\ id \notin Range(t)
    BY <2>2, <2>3, RemoveFirstKeeps
  <2>5. new = Put(list, node, t)
    <3>1. new = [list EXCEPT ![node] = t]
      BY <1>2, <2>1, <2>2 DEF Unlist
    <3>2. list = [n \in DOMAIN list |-> list[n]]
      BY DEF ListTables
    <3>3. DOMAIN list \cup {node} = DOMAIN list
      BY <1>2
    <3> QED BY <3>1, <3>2, <3>3 DEF Put
  <2>6. /\ new \in ListTables /\ Listed(new, node) = t
        /\ \A n : n # node => Listed(new, n) = Listed(list, n)
    BY <2>4, <2>5, PutList
  <2> QED BY <2>3, <2>4, <2>6
<1> QED BY <1>1, <1>2

-----------------------------------------------------------------------------
(* What an operation does to one listing                                    *)

(* An edge goes, with its first listing under its end on this side.         *)
LEMMA RemovedEdge ==
    ASSUME NEW list \in ListTables, NEW edges \in EdgeTables, NEW side \in Sides,
           NEW id \in DOMAIN edges, AreListed(list, edges, side),
           NEW rest, rest = Without(edges, id), NEW new, new = Unlist(list, edges[id][side], id)
    PROVE  /\ new \in ListTables /\ AreListed(new, rest, side)
           /\ NothingElseIsListed(list, edges, side) => NothingElseIsListed(new, rest, side)
<1>1. PICK end : end = edges[id][side]
  OBVIOUS
<1>2. end \in NodeIds
  BY <1>1, EdgeIs
<1>3. /\ rest \in EdgeTables /\ DOMAIN rest = DOMAIN edges \ {id}
      /\ \A e \in DOMAIN rest : rest[e] = edges[e]
  <2>1. rest \in EdgeTables
    BY WithoutEdge
  <2>2. DOMAIN rest = DOMAIN edges \ {id} /\ \A e \in DOMAIN rest : rest[e] = edges[e]
    BY DEF Without
  <2> QED BY <2>1, <2>2
<1>4. /\ new \in ListTables
      /\ \A n : n # end => Listed(new, n) = Listed(list, n)
      /\ Range(Listed(new, end)) \subseteq Range(Listed(list, end))
      /\ \A e \in Range(Listed(list, end)) : e # id => e \in Range(Listed(new, end))
      /\ NoRepeats(Listed(list, end)) =>
            NoRepeats(Listed(new, end)) /\ id \notin Range(Listed(new, end))
  BY <1>1, <1>2, UnlistIs
<1>5. AreListed(new, rest, side)
  BY <1>3, <1>4 DEF AreListed
<1>6. ASSUME NothingElseIsListed(list, edges, side), NEW node \in NodeIds
      PROVE  /\ NoRepeats(Listed(new, node))
             /\ \A e \in Range(Listed(new, node)) : e \in DOMAIN rest /\ rest[e][side] = node
  <2>1. /\ NoRepeats(Listed(list, node))
        /\ \A e \in Range(Listed(list, node)) : e \in DOMAIN edges /\ edges[e][side] = node
    BY <1>6 DEF NothingElseIsListed
  <2>2. CASE node = end
    BY <1>3, <1>4, <2>1, <2>2
  <2>3. CASE node # end
    BY <1>1, <1>3, <1>4, <2>1, <2>3
  <2> QED BY <2>2, <2>3
<1> QED BY <1>4, <1>5, <1>6 DEF NothingElseIsListed

(* A list goes whose node is no edge's end on this side.                    *)
LEMMA RemovedList ==
    ASSUME NEW list \in ListTables, NEW edges \in EdgeTables, NEW side \in Sides, NEW node,
           AreListed(list, edges, side), \A id \in DOMAIN edges : edges[id][side] # node,
           NEW new, new = Without(list, node)
    PROVE  /\ new \in ListTables /\ AreListed(new, edges, side)
           /\ NothingElseIsListed(list, edges, side) => NothingElseIsListed(new, edges, side)
<1>1. /\ new \in ListTables /\ Listed(new, node) = <<>>
      /\ \A n : n # node => Listed(new, n) = Listed(list, n)
  BY WithoutList
<1>2. AreListed(new, edges, side)
  BY <1>1 DEF AreListed
<1>3. NoRepeats(<<>>) /\ Range(<<>>) = {}
  BY DEF NoRepeats, Range
<1>4. NothingElseIsListed(list, edges, side) => NothingElseIsListed(new, edges, side)
  BY <1>1, <1>3 DEF NothingElseIsListed
<1> QED BY <1>1, <1>2, <1>4

(* An edge comes, or another takes its id, and is listed under its end.     *)
LEMMA AddedEdge ==
    ASSUME NEW list \in ListTables, NEW edges \in EdgeTables, NEW side \in Sides,
           NEW id \in EdgeIds, NEW edge \in [source : NodeIds, target : NodeIds],
           AreListed(list, edges, side), NEW more, more = Put(edges, id, edge),
           NEW new, new = Put(list, edge[side], Append(Listed(list, edge[side]), id))
    PROVE  /\ new \in ListTables /\ AreListed(new, more, side)
           /\ id \notin DOMAIN edges /\ NothingElseIsListed(list, edges, side) =>
                 NothingElseIsListed(new, more, side)
<1>1. PICK end : end = edge[side]
  OBVIOUS
<1>2. end \in NodeIds
  BY <1>1 DEF Sides
<1>3. PICK ids : ids = Listed(list, end)
  OBVIOUS
<1>4. ids \in Seq(EdgeIds) /\ Append(ids, id) \in Seq(EdgeIds)
  BY <1>3, ListIs
<1>5. Range(Append(ids, id)) = Range(ids) \cup {id}
  BY <1>4, RangeAppend
<1>6. /\ new \in ListTables /\ Listed(new, end) = Append(ids, id)
      /\ \A n : n # end => Listed(new, n) = Listed(list, n)
  <2>1. /\ list \in ListTables /\ end \in NodeIds /\ Append(ids, id) \in Seq(EdgeIds)
        /\ new = Put(list, end, Append(ids, id))
    BY <1>1, <1>2, <1>3, <1>4
  <2>2. new \in ListTables
    BY ONLY <2>1, PutList
  <2>3. Listed(new, end) = Append(ids, id)
    BY ONLY <2>1 DEF Put, Listed
  <2>4. \A n : n # end => Listed(new, n) = Listed(list, n)
    BY ONLY <2>1 DEF Put, Listed
  <2> QED BY <2>2, <2>3, <2>4
<1>7. /\ more \in EdgeTables /\ DOMAIN more = DOMAIN edges \cup {id}
      /\ more[id] = edge /\ \A e \in DOMAIN edges : e # id => more[e] = edges[e]
  <2>1. /\ edges \in EdgeTables /\ id \in EdgeIds /\ more = Put(edges, id, edge)
        /\ edge \in [source : NodeIds, target : NodeIds]
    OBVIOUS
  <2>2. more \in EdgeTables
    BY ONLY <2>1, PutEdge
  <2>3. /\ DOMAIN more = DOMAIN edges \cup {id} /\ more[id] = edge
        /\ \A e \in DOMAIN edges : e # id => more[e] = edges[e]
    BY ONLY <2>1 DEF Put
  <2> QED BY <2>2, <2>3
<1>8. AreListed(new, more, side)
  <2> SUFFICES ASSUME NEW e \in DOMAIN more PROVE e \in Range(Listed(new, more[e][side]))
    BY DEF AreListed
  <2>1. CASE e = id
    BY <1>1, <1>5, <1>6, <1>7, <2>1
  <2>2. CASE e # id
    <3>1. e \in Range(Listed(list, edges[e][side])) /\ more[e] = edges[e]
      BY <1>7, <2>2 DEF AreListed
    <3> QED BY <1>3, <1>5, <1>6, <3>1
  <2> QED BY <2>1, <2>2
<1>9. ASSUME id \notin DOMAIN edges, NothingElseIsListed(list, edges, side), NEW node \in NodeIds
      PROVE  /\ NoRepeats(Listed(new, node))
             /\ \A e \in Range(Listed(new, node)) : e \in DOMAIN more /\ more[e][side] = node
  <2>1. /\ NoRepeats(Listed(list, node))
        /\ \A e \in Range(Listed(list, node)) : e \in DOMAIN edges /\ edges[e][side] = node
    BY <1>9 DEF NothingElseIsListed
  <2>2. \A e \in Range(Listed(list, node)) : e # id /\ e \in DOMAIN more /\ more[e][side] = node
    BY <1>7, <1>9, <2>1
  <2>3. CASE node # end
    BY <1>6, <2>1, <2>2, <2>3
  <2>4. CASE node = end
    <3>1. NoRepeats(Append(ids, id))
      BY <1>3, <1>4, <2>1, <2>2, <2>4, NoRepeatsAppend
    <3> QED BY <1>1, <1>3, <1>5, <1>6, <1>7, <2>2, <2>4, <3>1
  <2> QED BY <2>3, <2>4
<1>10. id \notin DOMAIN edges /\ NothingElseIsListed(list, edges, side) =>
           NothingElseIsListed(new, more, side)
  BY <1>9 DEF NothingElseIsListed
<1> QED BY <1>6, <1>8, <1>10

-----------------------------------------------------------------------------
(* What an operation does to a graph                                        *)

GraphTables == [nodes : NodeTables, edges : EdgeTables, out : ListTables, inc : ListTables]

(* Every edge is listed under its ends; and, in an exact graph, once, and   *)
(* nothing else is.                                                         *)
SideKept(g, list, side, exact) ==
    AreListed(list, g.edges, side) /\ (exact => NothingElseIsListed(list, g.edges, side))

GraphKept(g, exact) ==
    /\ g \in GraphTables
    /\ SideKept(g, g.out, "source", exact) /\ SideKept(g, g.inc, "target", exact)

(* h is g without some edges.                                               *)
Lacks(h, g, ids) ==
    /\ h.nodes = g.nodes /\ DOMAIN h.edges = DOMAIN g.edges \ ids
    /\ \A e \in DOMAIN h.edges : h.edges[e] = g.edges[e]

LEMMA RemoveEdgeKeeps ==
    ASSUME NEW exact, NEW g, GraphKept(g, exact), NEW id, NEW h, h = RemoveEdge(g, id)
    PROVE  GraphKept(h, exact) /\ Lacks(h, g, {id})
<1>1. CASE id \notin DOMAIN g.edges
  BY <1>1 DEF RemoveEdge, Lacks
<1>2. CASE id \in DOMAIN g.edges
  <2>1. /\ g.edges \in EdgeTables /\ g.out \in ListTables /\ g.inc \in ListTables
        /\ g.nodes \in NodeTables
    BY DEF GraphKept, GraphTables
  <2>2. h = [nodes |-> g.nodes, edges |-> Without(g.edges, id),
             out |-> Unlist(g.out, g.edges[id].source, id),
             inc |-> Unlist(g.inc, g.edges[id].target, id)]
    BY <1>2 DEF RemoveEdge, GraphKept, GraphTables
  <2>3. PICK rest : rest = Without(g.edges, id)
    OBVIOUS
  <2>4. /\ rest \in EdgeTables /\ DOMAIN rest = DOMAIN g.edges \ {id}
        /\ \A e \in DOMAIN rest : rest[e] = g.edges[e]
    <3>1. rest \in EdgeTables
      BY <2>1, <2>3, WithoutEdge
    <3>2. DOMAIN rest = DOMAIN g.edges \ {id} /\ \A e \in DOMAIN rest : rest[e] = g.edges[e]
      BY <2>3 DEF Without
    <3> QED BY <3>1, <3>2
  <2>5. PICK out : out = Unlist(g.out, g.edges[id]["source"], id)
    OBVIOUS
  <2>6. out \in ListTables /\ SideKept([edges |-> rest], out, "source", exact)
    <3>1. AreListed(g.out, g.edges, "source") /\ "source" \in Sides
      BY DEF GraphKept, SideKept, Sides
    <3>2. /\ out \in ListTables /\ AreListed(out, rest, "source")
          /\ NothingElseIsListed(g.out, g.edges, "source") => NothingElseIsListed(out, rest, "source")
      BY <1>2, <2>1, <2>3, <2>5, <3>1, RemovedEdge
    <3> QED BY <3>2 DEF GraphKept, SideKept
  <2>7. PICK inc : inc = Unlist(g.inc, g.edges[id]["target"], id)
    OBVIOUS
  <2>8. inc \in ListTables /\ SideKept([edges |-> rest], inc, "target", exact)
    <3>1. AreListed(g.inc, g.edges, "target") /\ "target" \in Sides
      BY DEF GraphKept, SideKept, Sides
    <3>2. /\ inc \in ListTables /\ AreListed(inc, rest, "target")
          /\ NothingElseIsListed(g.inc, g.edges, "target") => NothingElseIsListed(inc, rest, "target")
      BY <1>2, <2>1, <2>3, <2>7, <3>1, RemovedEdge
    <3> QED BY <3>2 DEF GraphKept, SideKept
  <2>9. h = [nodes |-> g.nodes, edges |-> rest, out |-> out, inc |-> inc]
    BY <2>2, <2>3, <2>5, <2>7
  <2>10. GraphKept(h, exact)
    BY <2>1, <2>4, <2>6, <2>8, <2>9 DEF GraphKept, GraphTables, SideKept
  <2>11. Lacks(h, g, {id})
    BY <2>4, <2>9 DEF Lacks
  <2> QED BY <2>10, <2>11
<1> QED BY <1>1, <1>2

(* f removes the first m of the edges, one after the other.                 *)
RemovesUpTo(f, g, ids, m) ==
    f = [n \in 0..m |-> IF n = 0 THEN g ELSE RemoveEdge(f[n - 1], ids[n])]

LEMMA RemovesExists ==
    ASSUME NEW g, NEW ids
    PROVE  \A m \in Nat : \E f : RemovesUpTo(f, g, ids, m)
<1> DEFINE A == {m \in Nat : \E f : RemovesUpTo(f, g, ids, m)}
<1>1. 0 \in A
  <2> DEFINE f == [n \in 0..0 |-> g]
  <2>1. RemovesUpTo(f, g, ids, 0)
    BY DEF RemovesUpTo
  <2> QED BY <2>1
<1>2. ASSUME NEW m \in Nat, m \in A PROVE m + 1 \in A
  <2>1. PICK f : RemovesUpTo(f, g, ids, m)
    BY <1>2
  <2> DEFINE h == [n \in 0..(m + 1) |-> IF n = m + 1 THEN RemoveEdge(f[n - 1], ids[n]) ELSE f[n]]
  <2>2. RemovesUpTo(h, g, ids, m + 1)
    <3>1. \A n \in 0..m : f[n] = IF n = 0 THEN g ELSE RemoveEdge(f[n - 1], ids[n])
      BY <2>1 DEF RemovesUpTo
    <3>2. \A n \in 0..m : h[n] = f[n]
      OBVIOUS
    <3>3. \A n \in 0..(m + 1) : n # 0 => n - 1 \in 0..m
      OBVIOUS
    <3> HIDE DEF h
    <3>4. \A n \in 0..(m + 1) : h[n] = IF n = 0 THEN g ELSE RemoveEdge(h[n - 1], ids[n])
      <4> TAKE n \in 0..(m + 1)
      <4>1. CASE n = m + 1
        BY <3>2, <3>3, <4>1 DEF h
      <4>2. CASE n \in 0..m
        BY <3>1, <3>2, <3>3, <4>2
      <4> QED BY <4>1, <4>2
    <3>5. h = [n \in 0..(m + 1) |-> h[n]]
      BY DEF h
    <3> QED BY <3>4, <3>5 DEF RemovesUpTo
  <2> QED BY <2>2
<1> HIDE DEF A
<1>3. Nat \subseteq A
  BY <1>1, <1>2, SetInduction
<1> QED BY <1>3 DEF A

LEMMA RemoveEdgesIs ==
    ASSUME NEW g, NEW ids, Len(ids) \in Nat
    PROVE  \E f : RemovesUpTo(f, g, ids, Len(ids)) /\ RemoveEdges(g, ids) = f[Len(ids)]
<1> DEFINE f == CHOOSE f : RemovesUpTo(f, g, ids, Len(ids))
<1>1. RemovesUpTo(f, g, ids, Len(ids))
  BY RemovesExists
<1>2. RemoveEdges(g, ids) = f[Len(ids)]
  BY DEF RemoveEdges, RemovesUpTo
<1> QED BY <1>1, <1>2

(* All the edges go, and what is left is kept.                              *)
LEMMA RemoveEdgesKeep ==
    ASSUME NEW exact, NEW g, GraphKept(g, exact), NEW ids \in Seq(EdgeIds),
           NEW h, h = RemoveEdges(g, ids)
    PROVE  GraphKept(h, exact) /\ Lacks(h, g, Range(ids))
<1>1. PICK f : RemovesUpTo(f, g, ids, Len(ids)) /\ h = f[Len(ids)]
  <2>1. Len(ids) \in Nat
    OBVIOUS
  <2> QED BY <2>1, RemoveEdgesIs
<1> DEFINE First(n) == {ids[i] : i \in 1..n}
           A == {n \in Nat : GraphKept(f[n], exact) /\ Lacks(f[n], g, First(n))}
<1>2. 0 \in A
  <2>1. f[0] = g
    BY <1>1 DEF RemovesUpTo
  <2>2. First(0) = {}
    OBVIOUS
  <2>3. Lacks(g, g, {})
    BY DEF Lacks
  <2> QED BY <2>1, <2>2, <2>3
<1>3. ASSUME NEW n \in 0..(Len(ids) - 1), n \in A PROVE n + 1 \in A
  <2>1. f[n + 1] = RemoveEdge(f[n], ids[n + 1])
    <3>1. n + 1 \in 0..Len(ids) /\ n + 1 # 0 /\ (n + 1) - 1 = n
      OBVIOUS
    <3> QED BY <1>1, <3>1 DEF RemovesUpTo
  <2>2. GraphKept(f[n], exact) /\ Lacks(f[n], g, First(n))
    BY <1>3
  <2>3. PICK next : next = f[n + 1]
    OBVIOUS
  <2>4. GraphKept(next, exact) /\ Lacks(next, f[n], {ids[n + 1]})
    BY <2>1, <2>2, <2>3, RemoveEdgeKeeps
  <2>5. First(n + 1) = First(n) \cup {ids[n + 1]}
    <3>1. \A i : i \in 1..(n + 1) <=> i \in 1..n \/ i = n + 1
      OBVIOUS
    <3> QED BY <3>1
  <2>6. Lacks(next, g, First(n + 1))
    <3> HIDE DEF First
    <3> QED BY <2>2, <2>4, <2>5 DEF Lacks
  <2> QED BY <2>3, <2>4, <2>6
<1>4. Len(ids) \in A
  <2> HIDE DEF A
  <2> QED BY <1>2, <1>3, PrefixInduction
<1>5. First(Len(ids)) = Range(ids)
  BY DEF Range
<1> QED BY <1>1, <1>4, <1>5

-----------------------------------------------------------------------------
LEMMA NodesAre ==
    ASSUME NEW nodes \in NodeTables, NEW id
    PROVE  /\ Without(nodes, id) \in NodeTables
           /\ id \in NodeIds => Put(nodes, id, "new") \in NodeTables
<1>1. DOMAIN nodes \subseteq NodeIds /\ \A n \in DOMAIN nodes : nodes[n] = "new"
  BY DEF NodeTables
<1>2. Without(nodes, id) \in NodeTables
  <2>1. Without(nodes, id) \in [DOMAIN nodes \ {id} -> {"new"}]
    BY <1>1 DEF Without
  <2>2. DOMAIN nodes \ {id} \in SUBSET NodeIds
    BY <1>1
  <2> QED BY <2>1, <2>2 DEF NodeTables
<1>3. ASSUME id \in NodeIds PROVE Put(nodes, id, "new") \in NodeTables
  <2>1. Put(nodes, id, "new") \in [DOMAIN nodes \cup {id} -> {"new"}]
    BY <1>1 DEF Put
  <2>2. DOMAIN nodes \cup {id} \in SUBSET NodeIds
    BY <1>1, <1>3
  <2> QED BY <2>1, <2>2 DEF NodeTables
<1> QED BY <1>2, <1>3

(* A node goes with all edges listed under it, and these are its edges.     *)
LEMMA RemoveNodeKeeps ==
    ASSUME NEW exact, NEW g, GraphKept(g, exact), NEW id, NEW h, h = RemoveNode(g, id)
    PROVE  /\ GraphKept(h, exact)
           /\ \A node \in DOMAIN g.nodes \ DOMAIN h.nodes : \A e \in DOMAIN h.edges :
                 node \notin {h.edges[e].source, h.edges[e].target}
<1>1. CASE id \notin DOMAIN g.nodes
  BY <1>1 DEF RemoveNode
<1>2. CASE id \in DOMAIN g.nodes
  <2>1. g.out \in ListTables /\ g.inc \in ListTables /\ g.nodes \in NodeTables
    BY DEF GraphKept, GraphTables
  <2>2. PICK ids : ids = Listed(g.out, id) \o Listed(g.inc, id)
    OBVIOUS
  <2>3. /\ ids \in Seq(EdgeIds)
        /\ Range(ids) = Range(Listed(g.out, id)) \cup Range(Listed(g.inc, id))
    <3>1. Listed(g.out, id) \in Seq(EdgeIds) /\ Listed(g.inc, id) \in Seq(EdgeIds)
      BY <2>1, ListIs
    <3> QED BY <2>2, <3>1, RangeConcat
  <2>4. PICK k : k = RemoveEdges(g, ids)
    OBVIOUS
  <2>5. GraphKept(k, exact) /\ Lacks(k, g, Range(ids))
    BY <2>3, <2>4, RemoveEdgesKeep
  <2>6. /\ k.edges \in EdgeTables /\ k.out \in ListTables /\ k.inc \in ListTables
        /\ k.nodes = g.nodes
    BY <2>5 DEF GraphKept, GraphTables, Lacks
  <2>7. \A e \in DOMAIN k.edges : k.edges[e]["source"] # id /\ k.edges[e]["target"] # id
    <3> TAKE e \in DOMAIN k.edges
    <3>1. e \in DOMAIN g.edges /\ e \notin Range(ids) /\ k.edges[e] = g.edges[e]
      BY <2>5 DEF Lacks
    <3>2. /\ e \in Range(Listed(g.out, g.edges[e]["source"]))
          /\ e \in Range(Listed(g.inc, g.edges[e]["target"]))
      BY <3>1 DEF GraphKept, SideKept, AreListed
    <3> QED BY <2>3, <3>1, <3>2
  <2>8. h = [nodes |-> Without(g.nodes, id), edges |-> k.edges,
             out |-> Without(k.out, id), inc |-> Without(k.inc, id)]
    BY <1>2, <2>2, <2>4, <2>5, <2>6 DEF RemoveNode, DropNode, GraphKept, GraphTables
  <2>9. Without(g.nodes, id) \in NodeTables
    BY <2>1, NodesAre
  <2>10. PICK out : out = Without(k.out, id)
    OBVIOUS
  <2>11. out \in ListTables /\ SideKept(k, out, "source", exact)
    <3>1. SideKept(k, k.out, "source", exact) /\ "source" \in Sides
      BY <2>5 DEF GraphKept, Sides
    <3>2. /\ out \in ListTables /\ AreListed(out, k.edges, "source")
          /\ NothingElseIsListed(k.out, k.edges, "source") =>
                NothingElseIsListed(out, k.edges, "source")
      BY <2>6, <2>7, <2>10, <3>1, RemovedList DEF SideKept
    <3> QED BY <3>1, <3>2 DEF SideKept
  <2>12. PICK inc : inc = Without(k.inc, id)
    OBVIOUS
  <2>13. inc \in ListTables /\ SideKept(k, inc, "target", exact)
    <3>1. SideKept(k, k.inc, "target", exact) /\ "target" \in Sides
      BY <2>5 DEF GraphKept, Sides
    <3>2. /\ inc \in ListTables /\ AreListed(inc, k.edges, "target")
          /\ NothingElseIsListed(k.inc, k.edges, "target") =>
                NothingElseIsListed(inc, k.edges, "target")
      BY <2>6, <2>7, <2>12, <3>1, RemovedList DEF SideKept
    <3> QED BY <3>1, <3>2 DEF SideKept
  <2>14. GraphKept(h, exact)
    BY <2>6, <2>8, <2>9, <2>10, <2>11, <2>12, <2>13 DEF GraphKept, GraphTables, SideKept
  <2>15. DOMAIN g.nodes \ DOMAIN h.nodes \subseteq {id} /\ h.edges = k.edges
    BY <2>8 DEF Without
  <2> QED BY <2>7, <2>14, <2>15
<1> QED BY <1>1, <1>2

LEMMA AddNodeKeeps ==
    ASSUME NEW exact, NEW g, GraphKept(g, exact), NEW id \in NodeIds,
           NEW h, h = AddNode(g, id, "new")
    PROVE  GraphKept(h, exact) /\ DOMAIN g.nodes \subseteq DOMAIN h.nodes
<1>1. h = [nodes |-> Put(g.nodes, id, "new"), edges |-> g.edges, out |-> g.out, inc |-> g.inc]
  BY DEF AddNode, GraphKept, GraphTables
<1>2. g.nodes \in NodeTables
  BY DEF GraphKept, GraphTables
<1>3. /\ Put(g.nodes, id, "new") \in NodeTables
      /\ DOMAIN g.nodes \subseteq DOMAIN Put(g.nodes, id, "new")
  BY <1>2, NodesAre DEF Put
<1> QED BY <1>1, <1>3 DEF GraphKept, GraphTables, SideKept

(* A graph stays exact as long as the id is not in use.                     *)
LEMMA AddEdgeKeeps ==
    ASSUME NEW exact, NEW g, GraphKept(g, exact), NEW id \in EdgeIds,
           NEW source \in NodeIds, NEW target \in NodeIds, NEW still,
           still => exact /\ id \notin DOMAIN g.edges,
           NEW h, h = AddEdge(g, id, source, target)
    PROVE  GraphKept(h, still) /\ DOMAIN g.nodes \subseteq DOMAIN h.nodes
<1>1. PICK edge : edge = [source |-> source, target |-> target]
  OBVIOUS
<1>2. edge \in [source : NodeIds, target : NodeIds]
  BY <1>1
<1>3. PICK more : more = Put(g.edges, id, edge)
  OBVIOUS
<1>4. /\ g.edges \in EdgeTables /\ g.out \in ListTables /\ g.inc \in ListTables
      /\ g.nodes \in NodeTables
  BY DEF GraphKept, GraphTables
<1>5. more \in EdgeTables
  BY <1>2, <1>3, <1>4, PutEdge
<1>6. PICK out : out = Put(g.out, edge["source"], Append(Listed(g.out, edge["source"]), id))
  OBVIOUS
<1>7. /\ out \in ListTables /\ AreListed(out, more, "source")
      /\ still => NothingElseIsListed(out, more, "source")
  <2>1. SideKept(g, g.out, "source", exact) /\ "source" \in Sides
    BY DEF GraphKept, Sides
  <2>2. /\ out \in ListTables /\ AreListed(out, more, "source")
        /\ id \notin DOMAIN g.edges /\ NothingElseIsListed(g.out, g.edges, "source") =>
              NothingElseIsListed(out, more, "source")
    BY <1>2, <1>3, <1>4, <1>6, <2>1, AddedEdge DEF SideKept
  <2> QED BY <2>1, <2>2 DEF SideKept
<1>8. PICK inc : inc = Put(g.inc, edge["target"], Append(Listed(g.inc, edge["target"]), id))
  OBVIOUS
<1>9. /\ inc \in ListTables /\ AreListed(inc, more, "target")
      /\ still => NothingElseIsListed(inc, more, "target")
  <2>1. SideKept(g, g.inc, "target", exact) /\ "target" \in Sides
    BY DEF GraphKept, Sides
  <2>2. /\ inc \in ListTables /\ AreListed(inc, more, "target")
        /\ id \notin DOMAIN g.edges /\ NothingElseIsListed(g.inc, g.edges, "target") =>
              NothingElseIsListed(inc, more, "target")
    BY <1>2, <1>3, <1>4, <1>8, <2>1, AddedEdge DEF SideKept
  <2> QED BY <2>1, <2>2 DEF SideKept
<1>10. h = [nodes |-> g.nodes, edges |-> more, out |-> out, inc |-> inc]
  <2>1. edge["source"] = source /\ edge["target"] = target
    BY <1>1
  <2> QED BY <1>1, <1>3, <1>6, <1>8, <2>1 DEF AddEdge, GraphKept, GraphTables
<1> QED BY <1>4, <1>5, <1>7, <1>9, <1>10 DEF GraphKept, GraphTables, SideKept

-----------------------------------------------------------------------------
(* Every call                                                               *)

GraphInv == GraphKept(graph, ~reused)

LEMMA EmptyKept == ASSUME NEW exact PROVE GraphKept(EmptyGraph, exact)
<1>1. <<>> \in NodeTables /\ <<>> \in EdgeTables /\ <<>> \in ListTables
  <2>1. \A S : <<>> \in [{} -> S]
    OBVIOUS
  <2> QED BY <2>1 DEF NodeTables, EdgeTables, ListTables
<1>2. Listed(<<>>, 0) = <<>> /\ \A node : Listed(<<>>, node) = <<>>
  BY DEF Listed
<1>3. NoRepeats(<<>>) /\ Range(<<>>) = {}
  BY DEF NoRepeats, Range
<1>4. \A side : AreListed(<<>>, <<>>, side) /\ NothingElseIsListed(<<>>, <<>>, side)
  BY <1>2, <1>3 DEF AreListed, NothingElseIsListed
<1> QED BY <1>1, <1>4 DEF GraphKept, GraphTables, SideKept, EmptyGraph

LEMMA GraphStep ==
    ASSUME GraphInv, [GraphNext]_graphVars
    PROVE  GraphInv' /\ (RemovesEdgesWithTheNode \/ UNCHANGED graphVars)
<1>1. CASE UNCHANGED graphVars
  BY <1>1 DEF graphVars, GraphInv
<1>2. CASE ClearGraph
  <2>1. GraphInv'
    BY <1>2, EmptyKept DEF ClearGraph, GraphInv
  <2>2. RemovesEdgesWithTheNode
    BY <1>2 DEF ClearGraph, EmptyGraph, RemovesEdgesWithTheNode
  <2> QED BY <2>1, <2>2
<1>3. ASSUME NEW id \in NodeIds, DoAddNode(id) PROVE GraphInv' /\ RemovesEdgesWithTheNode
  <2>1. graph' = AddNode(graph, id, "new") /\ reused' = reused
    BY <1>3 DEF DoAddNode
  <2>2. GraphKept(graph', ~reused) /\ DOMAIN graph.nodes \subseteq DOMAIN graph'.nodes
    BY <2>1, AddNodeKeeps DEF GraphInv
  <2> QED BY <2>1, <2>2 DEF GraphInv, RemovesEdgesWithTheNode
<1>4. ASSUME NEW id \in NodeIds, DoRemoveNode(id) PROVE GraphInv' /\ RemovesEdgesWithTheNode
  <2>1. graph' = RemoveNode(graph, id) /\ reused' = reused
    BY <1>4 DEF DoRemoveNode
  <2>2. /\ GraphKept(graph', ~reused)
        /\ \A node \in DOMAIN graph.nodes \ DOMAIN graph'.nodes : \A e \in DOMAIN graph'.edges :
              node \notin {graph'.edges[e].source, graph'.edges[e].target}
    BY <2>1, RemoveNodeKeeps DEF GraphInv
  <2> QED BY <2>1, <2>2 DEF GraphInv, RemovesEdgesWithTheNode
<1>5. ASSUME NEW id \in EdgeIds, DoRemoveEdge(id) PROVE GraphInv' /\ RemovesEdgesWithTheNode
  <2>1. graph' = RemoveEdge(graph, id) /\ reused' = reused
    BY <1>5 DEF DoRemoveEdge
  <2>2. GraphKept(graph', ~reused) /\ Lacks(graph', graph, {id})
    BY <2>1, RemoveEdgeKeeps DEF GraphInv
  <2> QED BY <2>1, <2>2 DEF GraphInv, RemovesEdgesWithTheNode, Lacks
<1>6. ASSUME NEW id \in EdgeIds, NEW s \in NodeIds, NEW t \in NodeIds, DoAddEdge(id, s, t)
      PROVE  GraphInv' /\ RemovesEdgesWithTheNode
  <2>1. /\ graph' = AddEdge(graph, id, s, t)
        /\ ~reused' => ~reused /\ id \notin DOMAIN graph.edges
    BY <1>6 DEF DoAddEdge
  <2>2. PICK still : still = ~reused'
    OBVIOUS
  <2>3. still => ~reused /\ id \notin DOMAIN graph.edges
    BY <2>1, <2>2
  <2>4. GraphKept(graph', still) /\ DOMAIN graph.nodes \subseteq DOMAIN graph'.nodes
    BY <2>1, <2>3, AddEdgeKeeps DEF GraphInv
  <2> QED BY <2>2, <2>4 DEF GraphInv, RemovesEdgesWithTheNode
<1> QED BY <1>1, <1>2, <1>3, <1>4, <1>5, <1>6 DEF GraphNext

-----------------------------------------------------------------------------
(* What is found in an exact graph                                          *)

LEMMA FoundEdges ==
    ASSUME NEW g, NEW list \in ListTables, NEW side, AreListed(list, g.edges, side),
           NothingElseIsListed(list, g.edges, side), NEW node
    PROVE  /\ Range(GetEdges(g, list, node)) = Range(Listed(list, node)) \cap DOMAIN g.edges
           /\ node \in NodeIds =>
                 /\ Range(GetEdges(g, list, node)) = {id \in DOMAIN g.edges : g.edges[id][side] = node}
                 /\ NoRepeats(GetEdges(g, list, node))
<1>1. PICK s : s = Listed(list, node)
  OBVIOUS
<1>2. s \in Seq(EdgeIds)
  BY <1>1, ListIs
<1>3. PICK k : k = KeepIn(s, DOMAIN g.edges)
  OBVIOUS
<1>4. k = GetEdges(g, list, node)
  BY <1>1, <1>3 DEF GetEdges
<1>5. Range(k) = Range(s) \cap DOMAIN g.edges
  BY <1>2, <1>3, KeepInRange
<1>6. ASSUME node \in NodeIds
      PROVE  Range(k) = {id \in DOMAIN g.edges : g.edges[id][side] = node} /\ NoRepeats(k)
  <2>1. NoRepeats(s) /\ \A id \in Range(s) : id \in DOMAIN g.edges /\ g.edges[id][side] = node
    BY <1>1, <1>6 DEF NothingElseIsListed
  <2>2. \A id \in DOMAIN g.edges : g.edges[id][side] = node => id \in Range(s)
    BY <1>1 DEF AreListed
  <2>3. NoRepeats(k)
    BY <1>2, <1>3, <2>1, KeepInNoRepeats
  <2> QED BY <1>5, <2>1, <2>2, <2>3
<1> QED BY <1>1, <1>4, <1>5, <1>6

(* The arcs findPath() walks are the edges.                                 *)
LEMMA ArcsAreEdges ==
    ASSUME NEW g, GraphKept(g, TRUE)
    PROVE  ListedArcs(g) = {<<g.edges[id].source, g.edges[id].target>> : id \in DOMAIN g.edges}
<1> DEFINE arcs == {<<g.edges[id].source, g.edges[id].target>> : id \in DOMAIN g.edges}
<1>1. /\ g.out \in ListTables /\ AreListed(g.out, g.edges, "source")
      /\ NothingElseIsListed(g.out, g.edges, "source")
  BY DEF GraphKept, GraphTables, SideKept
<1>2. \A node \in DOMAIN g.out :
         Range(GetEdges(g, g.out, node)) = {id \in DOMAIN g.edges : g.edges[id]["source"] = node}
  <2> TAKE node \in DOMAIN g.out
  <2>1. node \in NodeIds
    BY <1>1, ListIs
  <2>2. Range(GetEdges(g, g.out, node)) = Range(Listed(g.out, node)) \cap DOMAIN g.edges
    BY <1>1, <2>1, FoundEdges
  <2>3. \A id \in Range(Listed(g.out, node)) :
           id \in DOMAIN g.edges /\ g.edges[id]["source"] = node
    BY <1>1, <2>1 DEF NothingElseIsListed
  <2>4. \A id \in DOMAIN g.edges :
           g.edges[id]["source"] = node => id \in Range(Listed(g.out, node))
    BY <1>1 DEF AreListed
  <2> QED BY <2>2, <2>3, <2>4
<1>3. \A id \in DOMAIN g.edges : g.edges[id]["source"] \in DOMAIN g.out
  <2> TAKE id \in DOMAIN g.edges
  <2>1. id \in Range(Listed(g.out, g.edges[id]["source"]))
    BY <1>1 DEF AreListed
  <2>2. Range(<<>>) = {}
    BY DEF Range
  <2> QED BY <2>1, <2>2 DEF Listed
<1>4. ListedArcs(g) \subseteq arcs
  BY <1>2 DEF ListedArcs
<1>5. arcs \subseteq ListedArcs(g)
  BY <1>2, <1>3 DEF ListedArcs
<1> QED BY <1>4, <1>5

LEMMA GraphIsWhole ==
    ASSUME GraphInv
    PROVE  /\ EdgesAreListed(graph.out, "source") /\ EdgesAreListed(graph.inc, "target")
           /\ ~reused => /\ EdgesAreFound(graph.out, "source")
                         /\ EdgesAreFound(graph.inc, "target")
                         /\ PathsAreShortest
<1>1. /\ AreListed(graph.out, graph.edges, "source") /\ AreListed(graph.inc, graph.edges, "target")
      /\ graph.out \in ListTables /\ graph.inc \in ListTables
      /\ ~reused => /\ NothingElseIsListed(graph.out, graph.edges, "source")
                    /\ NothingElseIsListed(graph.inc, graph.edges, "target")
  BY DEF GraphInv, GraphKept, GraphTables, SideKept
<1>2. EdgesAreListed(graph.out, "source") /\ EdgesAreListed(graph.inc, "target")
  BY <1>1 DEF EdgesAreListed, AreListed
<1>3. ~reused => EdgesAreFound(graph.out, "source")
  BY <1>1, FoundEdges DEF EdgesAreFound
<1>4. ~reused => EdgesAreFound(graph.inc, "target")
  BY <1>1, FoundEdges DEF EdgesAreFound
<1>5. ~reused => PathsAreShortest
  <2> HAVE ~reused
  <2>1. GraphKept(graph, TRUE)
    BY DEF GraphInv
  <2>2. ListedArcs(graph) =
            {<<graph.edges[id].source, graph.edges[id].target>> : id \in DOMAIN graph.edges}
    BY <2>1, ArcsAreEdges
  <2> QED BY <2>2 DEF PathsAreShortest, PathLength, Distance
<1> QED BY <1>2, <1>3, <1>4, <1>5

(* GraphStaysWhole, for all sets of nodes and edges and every depth.        *)
THEOREM GraphIsKeptWhole == GraphSpec => GraphStaysWhole
<1>1. GraphInit => GraphInv
  BY EmptyKept DEF GraphInit, GraphInv
<1>2. GraphInv /\ [GraphNext]_graphVars => GraphInv'
  BY GraphStep
<1>3. GraphInv /\ [GraphNext]_graphVars => [RemovesEdgesWithTheNode]_graphVars
  BY GraphStep
<1> QED BY <1>1, <1>2, <1>3, GraphIsWhole, PTL DEF GraphSpec, GraphStaysWhole
=============================================================================
