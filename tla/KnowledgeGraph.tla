---------------------------- MODULE KnowledgeGraph ----------------------------
(***************************************************************************)
(* The graph on the knowledge page of the dashboard                        *)
(* (app/knowledge/page.tsx): its layout (layouts.ts), the filters of the   *)
(* toolbar, the search, the selection and its history                      *)
(* (useGraphSelection.ts), and the canvas that draws it and is clicked on  *)
(* (GraphifyCanvas.tsx).  Where the answers come from is Dashboard's.      *)
(*                                                                         *)
(* Every event renders the page and runs its effects before the next; a    *)
(* drawing waits for an animation frame.                                   *)
(***************************************************************************)
EXTENDS Integers, Sequences, SequencesExt, FiniteSets

(* Where the nodes are put (layouts.ts): a node is an id, an edge           *)
(* [source, target]; an answer of the API may be cut short, so that edges   *)
(* have ends that are not among its nodes.                                  *)

Layouts == {"force", "hierarchical", "radial", "tree", "dag"}

(* The ids there are, and the targets of the edges of one, as often as they *)
(* are listed.                                                              *)
Ends(nodes, edges) ==
    ToSet(nodes) \cup UNION {{edges[i].source, edges[i].target} : i \in DOMAIN edges}

Targets(id, edges) ==
    LET from == SelectSeq(edges, LAMBDA e : e.source = id)
    IN  [i \in DOMAIN from |-> from[i].target]

-----------------------------------------------------------------------------
(* The levels of the tree, hierarchical and radial layouts: a breadth-first *)
(* walk from the roots, and what it did not reach in levels of its own.     *)

(* mutant: a graph that is all cycles has no root                           *)
RootsOfTrees(nodes, edges) ==
    SelectSeq(nodes, LAMBDA n : \A i \in DOMAIN edges : edges[i].target # n)

Roots(nodes, edges) ==
    LET free == SelectSeq(nodes, LAMBDA n : \A i \in DOMAIN edges : edges[i].target # n)
    IN  IF free = <<>> /\ nodes # <<>> THEN <<Head(nodes)>> ELSE free

PushTo(levels, level, id) ==
    IF level > Len(levels) THEN Append(levels, <<id>>)
    ELSE [levels EXCEPT ![level] = Append(@, id)]

(* queue: of <<id, level>>, the roots on level 1.                           *)
RECURSIVE Walk(_, _, _, _)
Walk(queue, levels, queued, children) ==
    IF queue = <<>> THEN levels
    ELSE LET id == Head(queue)[1]  level == Head(queue)[2] IN
         IF id \in queued THEN Walk(Tail(queue), levels, queued, children)
         ELSE LET new == SelectSeq(children[id], LAMBDA c : c \notin queued \cup {id}) IN
              Walk(Tail(queue) \o [i \in DOMAIN new |-> <<new[i], level + 1>>],
                   PushTo(levels, level, id), queued \cup {id}, children)

AssignLevels(nodes, edges, children) ==
    LET roots  == Roots(nodes, edges)
        walked == Walk([i \in DOMAIN roots |-> <<roots[i], 1>>], <<>>, {}, children)
        missed == SelectSeq(nodes, LAMBDA n : \A l \in DOMAIN walked : n \notin ToSet(walked[l]))
    IN  walked \o [i \in DOMAIN missed |-> <<missed[i]>>]

(* The children of a node are looked up in the order of the nodes, and are  *)
(* not those that come earlier in it, a parent or not; excluded is what     *)
(* else a node does not have for a child.                                   *)
Before(nodes, id) == {nodes[i] : i \in 1..(SelectInSeq(nodes, LAMBDA n : n = id) - 1)}

ChildrenLater(nodes, edges, excluded) ==
    [id \in Ends(nodes, edges) |->
        IF id \in ToSet(nodes)
        THEN SelectSeq(Targets(id, edges),
                       LAMBDA t : t \notin Before(nodes, id) \cup excluded[id])
        ELSE <<>>]

TreeLevels(nodes, edges) ==
    AssignLevels(nodes, edges, ChildrenLater(nodes, edges, [id \in Ends(nodes, edges) |-> {id}]))

HierarchicalLevels(nodes, edges) ==
    AssignLevels(nodes, edges, ChildrenLater(nodes, edges, [id \in Ends(nodes, edges) |-> {}]))

RadialLevels(nodes, edges) ==
    AssignLevels(nodes, edges, [id \in Ends(nodes, edges) |-> Targets(id, edges)])

-----------------------------------------------------------------------------
(* The layers of the dag layout                                             *)

InDegree(id, edges) == Cardinality({i \in DOMAIN edges : edges[i].target = id})

(* Kahn's algorithm over a queue; degree is what is left of the in-degrees. *)
RECURSIVE Drain(_, _, _)
Drain(queue, degree, edges) ==
    IF queue = <<>> THEN <<>>
    ELSE LET Free(acc, n) ==
                 [queue  |-> IF acc.degree[n] = 1 THEN Append(acc.queue, n) ELSE acc.queue,
                  degree |-> [acc.degree EXCEPT ![n] = @ - 1]]
             after == FoldLeft(Free, [queue |-> Tail(queue), degree |-> degree],
                               Targets(Head(queue), edges))
         IN  <<Head(queue)>> \o Drain(after.queue, after.degree, edges)

HasCycle(edges) ==
    LET ids    == Ends(<<>>, edges)
        degree == [id \in ids |-> InDegree(id, edges)]
    IN  Len(Drain(SetToSeq({id \in ids : degree[id] = 0}), degree, edges)) < Cardinality(ids)

(* The edges of a node that is not listed count for the degree of their     *)
(* targets, and are never taken off again.                                  *)
TopologicalSort(nodes, edges) ==
    LET degree == [id \in Ends(nodes, edges) |-> InDegree(id, edges)]
    IN  Drain(SelectSeq(nodes, LAMBDA n : degree[n] = 0), degree,
              SelectSeq(edges, LAMBDA e : e.source \in ToSet(nodes)))

(* A node's layer is the number of edges into it.                           *)
DagLayers(nodes, edges) ==
    LET sorted == TopologicalSort(nodes, edges)
    IN  [layer \in {InDegree(sorted[i], edges) : i \in DOMAIN sorted} |->
            SelectSeq(sorted, LAMBDA n : InDegree(n, edges) = layer)]

-----------------------------------------------------------------------------
(* computeLayout(): the levels of every layout but the force-directed one,  *)
(* from 0, and the places they come to.                                     *)

FromZero(levels) == [y \in 0..(Len(levels) - 1) |-> levels[y + 1]]

Levels(layout, nodes, edges) ==
    CASE layout = "tree" -> FromZero(TreeLevels(nodes, edges))
      [] layout = "radial" -> FromZero(RadialLevels(nodes, edges))
      [] layout = "hierarchical" \/ HasCycle(edges) -> FromZero(HierarchicalLevels(nodes, edges))
      [] OTHER -> DagLayers(nodes, edges)

(* Where an id is: <<level, place on it>>.                                  *)
SlotsOf(id, levels) ==
    {slot \in UNION {{<<y, i>> : i \in DOMAIN levels[y]} : y \in DOMAIN levels} :
        levels[slot[1]][slot[2]] = id}

(* On a circle the x is the angle, in parts of the circle; on a line it is  *)
(* in halves of the spacing, from the middle.  Whatever is on no level is   *)
(* given no place, and drawn at the origin.                                 *)
Origin == [y |-> 0, x |-> 0]

InRow(layout, level, y, i) ==
    IF layout = "radial" THEN IF y = 0 THEN Origin ELSE [y |-> y, x |-> i - 1]
    ELSE [y |-> y, x |-> 2 * (i - 1) - (Len(level) - 1)]

ComputeLayout(layout, nodes, edges) ==
    LET levels == Levels(layout, nodes, edges) IN
    [id \in ToSet(nodes) |->
        LET slots == SlotsOf(id, levels) IN
        IF slots = {} THEN Origin
        ELSE LET slot == CHOOSE s \in slots : TRUE
             IN  InRow(layout, levels[slot[1]], slot[1], slot[2])]

(* The force-directed layout starts each node without a place at random.    *)
Shakes == {0, 1}

ForceLayouts(nodes) ==
    {[id \in ToSet(nodes) |-> [y |-> -SelectInSeq(nodes, LAMBDA n : n = id), x |-> shake]] :
        shake \in Shakes}

LayoutsOf(layout, nodes, edges) ==
    IF layout = "force" THEN ForceLayouts(nodes) ELSE {ComputeLayout(layout, nodes, edges)}

-----------------------------------------------------------------------------
(* What the layouts promise, of any graph                                   *)

(* The ids reached from some in at most k edges.                            *)
RECURSIVE Reached(_, _, _)
Reached(from, k, edges) ==
    IF k = 0 THEN from
    ELSE LET before == Reached(from, k - 1, edges)
         IN  before \cup UNION {ToSet(Targets(id, edges)) : id \in before}

(* Every node is on one level, once, and no two are in one place but the    *)
(* roots of a radial layout.  The level of a radial layout is the shortest  *)
(* way from a root.  A cycle is seen for what it is; without one the layers *)
(* hold every node that no edge of an unlisted node leads to, in an order   *)
(* in which edges point forward.  A tree is laid out as a hierarchy is.     *)
(* (layouts.ts)                                                             *)
LayoutsPlaceEveryNode(nodes, edges) ==
    LET listed  == ToSet(nodes)
        ids     == Ends(nodes, edges)
        size    == Cardinality(ids)
        foreign == ids \ listed
        radial  == Levels("radial", nodes, edges)
        sorted  == TopologicalSort(nodes, edges)
        cut     == Reached(foreign, size, edges)
    IN
    /\ \A layout \in {"hierarchical", "radial", "tree"} :
          LET levels == Levels(layout, nodes, edges)
              places == ComputeLayout(layout, nodes, edges)
          IN  /\ \A id \in listed : Cardinality(SlotsOf(id, levels)) = 1
              /\ \A a, b \in listed :
                    a # b /\ places[a] = places[b] =>
                       layout = "radial" /\ {a, b} \subseteq ToSet(levels[0])
    /\ Levels("tree", nodes, edges) = Levels("hierarchical", nodes, edges)
    /\ nodes # <<>> =>
          LET sources == {n \in listed : \A i \in DOMAIN edges : edges[i].target # n}
              roots   == IF sources = {} THEN {Head(nodes)} ELSE sources
              reach   == [k \in 0..size |-> Reached(roots, k, edges)]
          IN  \A y \in DOMAIN radial : \A i \in DOMAIN radial[y] :
                 radial[y][i] \in reach[size] =>
                    radial[y][i] \in reach[y] /\ (y > 0 => radial[y][i] \notin reach[y - 1])
    /\ HasCycle(edges) <=>
          \E id \in ids : id \in Reached(ToSet(Targets(id, edges)), size, edges)
    /\ ~HasCycle(edges) =>
          /\ \A id \in listed : id \in ToSet(sorted) <=> id \notin cut
          /\ \A i, j \in DOMAIN sorted :
                sorted[j] \in ToSet(Targets(sorted[i], edges)) => i < j

-----------------------------------------------------------------------------
(* The page                                                                 *)

CONSTANTS
    Graphs,         \* what may arrive: [nodes, edges], of [id, type, scores] and
                    \*    [id, source, target, type]; scores: how well queries match
    OfferedLayouts, \* those of Layouts that are tried
    Queries, NodeTypes, EdgeTypes,
    MaxHistory, MaxEvents   \* bounds

None == "none"

VARIABLES
    graph,      \* the page's snapshot, nodes and edges in their order
    layout,     \* [name, places]: places is the memo of where it has put each node
    filters,    \* [nodes, edges], the types shown; none for all of them
    selection,  \* [node, highlighted]: nothing on the page selects an edge
    history,    \* [ids, at]
    search,     \* [query, results]
    canvas,     \* [nodes, edges]: the refs that are drawn from and clicked on
    view,       \* [moved, dragging, hovered]
    screen,     \* [frame, drawn, changed]: whether a frame is due; history:
                \*    whether the canvas has changed since it was drawn
    events

vars == <<graph, layout, filters, selection, history, search, canvas, view, screen,
          events>>

Ids(seq) == [i \in DOMAIN seq |-> seq[i].id]
IdsOf(seq) == ToSet(Ids(seq))

Counted == events < MaxEvents /\ events' = events + 1

-----------------------------------------------------------------------------
(* The canvas                                                               *)

FilteredNodes(g, f) ==
    SelectSeq(g.nodes, LAMBDA n : f.nodes = {} \/ n.type \in f.nodes)

(* mutant: the edges are filtered by their own types only                   *)
EdgesOfTypes(g, f) == SelectSeq(g.edges, LAMBDA e : f.edges = {} \/ e.type \in f.edges)

FilteredEdges(g, f) ==
    LET shown == IdsOf(FilteredNodes(g, f)) IN
    SelectSeq(g.edges, LAMBDA e : /\ f.edges = {} \/ e.type \in f.edges
                                  /\ {e.source, e.target} \subseteq shown)

CanvasOf(g, where, f) ==
    LET shown == FilteredNodes(g, f) IN
    [nodes |-> [i \in DOMAIN shown |-> [id |-> shown[i].id, at |-> where[shown[i].id]]],
     edges |-> FilteredEdges(g, f)]

Init ==
    /\ graph = [nodes |-> <<>>, edges |-> <<>>]
    /\ layout \in [name : OfferedLayouts, places : {<<>>}]
    /\ filters = [nodes |-> {}, edges |-> {}]
    /\ selection = [node |-> None, highlighted |-> {}]
    /\ history = [ids |-> <<>>, at |-> 0]
    /\ search = [query |-> None, results |-> <<>>]
    /\ canvas = [nodes |-> <<>>, edges |-> <<>>]
    /\ view = [moved |-> FALSE, dragging |-> FALSE, hovered |-> None]
    /\ screen = [frame |-> TRUE, changed |-> FALSE,
                 drawn |-> [canvas |-> canvas, selection |-> selection, view |-> view]]
    /\ events = 0

(* mutant: searched from the front                                          *)
FirstNodeAt(nodes, place) ==
    LET i == SelectInSeq(nodes, LAMBDA n : n.at = place)
    IN  IF i = 0 THEN None ELSE nodes[i].id

(* The last node drawn at a place is the one on top.                        *)
NodeAt(nodes, place) ==
    LET i == SelectLastInSeq(nodes, LAMBDA n : n.at = place)
    IN  IF i = 0 THEN None ELSE nodes[i].id

(* What drawGraph() depends on: the selection, the camera and the node      *)
(* under the pointer.  Of the nodes and the edges it is not told.           *)
FrameIsDue == screen' = [screen EXCEPT !.frame = TRUE]

FrameIfNew(new, old) == IF new # old THEN FrameIsDue ELSE UNCHANGED screen

Refs(g, where, f) ==
    LET new == CanvasOf(g, where, f) IN
    /\ canvas' = new
    /\ screen' = [screen EXCEPT !.changed = @ \/ new # canvas]

DrawGraph ==
    /\ screen.frame
    /\ screen' = [frame |-> FALSE, changed |-> FALSE,
                  drawn |-> [canvas |-> canvas, selection |-> selection, view |-> view]]
    /\ UNCHANGED <<graph, layout, filters, selection, history, search, canvas, view,
                   events>>

(* Wheel, the buttons, a resize; a drag with the shift key or the middle    *)
(* button.                                                                  *)
MoveCamera ==
    /\ Counted /\ view' = [view EXCEPT !.moved = ~@] /\ FrameIsDue
    /\ UNCHANGED <<graph, layout, filters, selection, history, search, canvas>>

Drag(on) ==
    /\ Counted /\ view.dragging # on /\ view' = [view EXCEPT !.dragging = on]
    /\ UNCHANGED <<graph, layout, filters, selection, history, search, canvas, screen>>

(* mutant: hovering is left out of what a drawing depends on                *)
MouseMoveUndrawn(place) ==
    /\ Counted
    /\ IF view.dragging THEN view' = [view EXCEPT !.moved = ~@] /\ FrameIsDue
       ELSE view' = [view EXCEPT !.hovered = NodeAt(canvas.nodes, place)] /\ UNCHANGED screen
    /\ UNCHANGED <<graph, layout, filters, selection, history, search, canvas>>

MouseMove(place) ==
    /\ Counted
    /\ LET hovered == NodeAt(canvas.nodes, place) IN
       IF view.dragging THEN view' = [view EXCEPT !.moved = ~@] /\ FrameIsDue
       ELSE /\ view' = [view EXCEPT !.hovered = hovered]
            /\ FrameIfNew(hovered, view.hovered)
    /\ UNCHANGED <<graph, layout, filters, selection, history, search, canvas>>

-----------------------------------------------------------------------------
(* useGraphSelection()                                                      *)

(* mutant: the forward part of the history is kept                          *)
RememberUntrimmed(id) ==
    /\ Len(history.ids) < MaxHistory
    /\ history' = [ids |-> Append(history.ids, id), at |-> history.at + 1]

Remember(id) ==
    /\ history.at < MaxHistory
    /\ history' = [ids |-> Append(SubSeq(history.ids, 1, history.at), id), at |-> history.at + 1]

Select(id, highlighted) ==
    LET new == [node |-> id, highlighted |-> highlighted] IN
    /\ selection' = new /\ FrameIsDue
    /\ IF id = None THEN UNCHANGED history ELSE Remember(id)

Step(at) ==
    /\ Counted /\ at \in DOMAIN history.ids
    /\ history' = [history EXCEPT !.at = at]
    /\ selection' = [selection EXCEPT !.node = history.ids[at]] /\ FrameIsDue
    /\ UNCHANGED <<graph, layout, filters, search, canvas, view>>

(* The code counts from 0, and from -1 where nothing was selected yet.      *)
GoBack == Step(history.at - 1)
GoForward == Step(history.at + 1)

(* Matches, best first, equals in the order of the nodes; nothing for a     *)
(* blank query.                                                             *)
Search(query) ==
    LET Of(score) == SelectSeq(graph.nodes, LAMBDA n : n.scores[query] = score)
    IN  IF query = None THEN <<>> ELSE Ids(Of(4) \o Of(3) \o Of(2) \o Of(1))

-----------------------------------------------------------------------------
(* The handlers of the page                                                 *)

HandleSearch(query) ==
    /\ Counted
    /\ search' = [query |-> query, results |-> Search(query)]
    /\ selection' = [selection EXCEPT !.highlighted = ToSet(Search(query))]
    /\ FrameIsDue
    /\ UNCHANGED <<graph, layout, filters, history, canvas, view>>

(* The highlights stay.                                                     *)
HandleSearchSelect(id) ==
    /\ Counted /\ id \in ToSet(search.results)
    /\ Select(id, selection.highlighted)
    /\ search' = [query |-> None, results |-> <<>>]
    /\ UNCHANGED <<graph, layout, filters, canvas, view>>

CloseResults ==
    /\ Counted /\ search.results # <<>>
    /\ search' = [query |-> None, results |-> <<>>]
    /\ selection' = [selection EXCEPT !.highlighted = {}] /\ FrameIsDue
    /\ UNCHANGED <<graph, layout, filters, history, canvas, view>>

(* handleNodeClick(), handleBackgroundClick(): the results stay.            *)
Click(place) ==
    /\ Counted
    /\ Select(NodeAt(canvas.nodes, place), {})
    /\ UNCHANGED <<graph, layout, filters, search, canvas, view>>

(* The inspector is there while the selected node is.                       *)
CloseInspector ==
    /\ Counted /\ selection.node \in IdsOf(graph.nodes)
    /\ Select(None, selection.highlighted)
    /\ UNCHANGED <<graph, layout, filters, search, canvas, view>>

SetFilters(new) ==
    /\ Counted /\ filters' = new /\ Refs(graph, layout.places, new)
    /\ UNCHANGED <<graph, layout, selection, history, search, view>>

Toggled(set, x) == IF x \in set THEN set \ {x} ELSE set \cup {x}

ToggleNodeType(type) == SetFilters([filters EXCEPT !.nodes = Toggled(@, type)])
ToggleEdgeType(type) == SetFilters([filters EXCEPT !.edges = Toggled(@, type)])
ClearFilters == filters # [nodes |-> {}, edges |-> {}] /\ SetFilters([nodes |-> {}, edges |-> {}])

(* The memo is computed anew with the snapshot and with the layout.         *)
LayOut(g, name) ==
    \E where \in LayoutsOf(name, Ids(g.nodes), g.edges) :
       layout' = [name |-> name, places |-> where] /\ Refs(g, where, filters)

HandleLayoutChange(new) ==
    /\ Counted /\ new # layout.name
    /\ LayOut(graph, new)
    /\ UNCHANGED <<graph, filters, selection, history, search, view>>

(* An answer: what is still there keeps its order, what is new comes after. *)
Merged(old, new) ==
    LET Kept(x) == new[SelectInSeq(new, LAMBDA n : n.id = x.id)]
        still   == SelectSeq(old, LAMBDA o : o.id \in IdsOf(new))
    IN  [i \in DOMAIN still |-> Kept(still[i])]
        \o SelectSeq(new, LAMBDA n : n.id \notin IdsOf(old))

Data(answer) ==
    /\ Counted
    /\ LET g == [nodes |-> Merged(graph.nodes, answer.nodes),
                 edges |-> Merged(graph.edges, answer.edges)]
       IN  graph' = g /\ LayOut(g, layout.name)
    /\ UNCHANGED <<filters, selection, history, search, view>>

Nowhere == [y |-> 9, x |-> 9]

Next ==
    \/ DrawGraph \/ MoveCamera \/ GoBack \/ GoForward \/ CloseResults \/ CloseInspector
    \/ ClearFilters
    \/ \E on \in BOOLEAN : Drag(on)
    \/ \E place \in {canvas.nodes[i].at : i \in DOMAIN canvas.nodes} \cup {Nowhere} :
          Click(place) \/ MouseMove(place)
    \/ \E query \in Queries \cup {None} : HandleSearch(query)
    \/ \E id \in IdsOf(graph.nodes) \cup ToSet(search.results) : HandleSearchSelect(id)
    \/ \E type \in NodeTypes : ToggleNodeType(type)
    \/ \E type \in EdgeTypes : ToggleEdgeType(type)
    \/ \E new \in OfferedLayouts : HandleLayoutChange(new)
    \/ \E answer \in Graphs : Data(answer)

Spec == Init /\ [][Next]_vars

-----------------------------------------------------------------------------
(* How strongly a node is drawn, and an edge: dimmed by highlights it is    *)
(* not among, or by a selection it has nothing to do with.                  *)

Joined(edges, a, b) == \E i \in DOMAIN edges : {edges[i].source, edges[i].target} = {a, b}

NodeIsDimmed(drawing, id) ==
    LET chosen == drawing.selection.node
        near   == id = chosen \/ (chosen # None /\ Joined(drawing.canvas.edges, chosen, id))
        lit    == drawing.selection.highlighted
    IN  ~near /\ ((lit # {} /\ id \notin lit) \/ chosen # None)

EdgeIsDimmed(drawing, e) ==
    LET chosen == drawing.selection.node IN
    /\ chosen \notin {e.source, e.target}
    /\ drawing.selection.highlighted # {} \/ chosen # None

-----------------------------------------------------------------------------

(* A filter is of types there are, and a drag or a frame is on or off.      *)
TypeOK ==
    /\ layout.name \in OfferedLayouts /\ DOMAIN layout.places = IdsOf(graph.nodes)
    /\ filters.nodes \subseteq NodeTypes /\ filters.edges \subseteq EdgeTypes
    /\ history.at \in 0..Len(history.ids) /\ Len(history.ids) <= MaxHistory
    /\ view.dragging \in BOOLEAN /\ screen.frame \in BOOLEAN

(* The canvas holds the nodes of the page's graph that pass the filters,    *)
(* where the layout put them, and of its edges only some between two of     *)
(* them; with no frame due, the screen shows the selection, the camera and  *)
(* the node under the pointer of now, and the canvas of now unless that has *)
(* changed since; a click takes the node that is drawn on top.  The node    *)
(* selected is the one the history is at; the results listed are the ones   *)
(* highlighted, if any are; and an edge drawn in full joins nodes drawn in  *)
(* full (GraphifyCanvas, useGraphSelection, KnowledgePage).                 *)
CanvasTellsTheGraph ==
    LET drawn == screen.drawn  nodes == canvas.nodes IN
    /\ \A n \in ToSet(graph.nodes) :
          n.id \in IdsOf(nodes) <=> filters.nodes = {} \/ n.type \in filters.nodes
    /\ \A i \in DOMAIN nodes :
          /\ nodes[i].id \in IdsOf(graph.nodes) /\ nodes[i].at = layout.places[nodes[i].id]
          /\ LET top == NodeAt(nodes, nodes[i].at) IN
             \E j \in i..Len(nodes) :
                /\ nodes[j].id = top /\ nodes[j].at = nodes[i].at
                /\ \A k \in (j + 1)..Len(nodes) : nodes[k].at # nodes[i].at
    /\ \A i \in DOMAIN canvas.edges :
          {canvas.edges[i].source, canvas.edges[i].target} \subseteq IdsOf(nodes)
    /\ ~screen.frame =>
          /\ drawn.selection = selection
          /\ [drawn.view EXCEPT !.dragging = view.dragging] = view
          /\ screen.changed \/ drawn.canvas = canvas
    /\ selection.node # None => history.at > 0 /\ history.ids[history.at] = selection.node
    /\ search.results # <<>> =>
          search.query # None /\ selection.highlighted \in {{}, ToSet(search.results)}
    /\ \A i \in DOMAIN drawn.canvas.edges :
          LET e == drawn.canvas.edges[i] IN
          ~EdgeIsDimmed(drawn, e) =>
             ~NodeIsDimmed(drawn, e.source) /\ ~NodeIsDimmed(drawn, e.target)
=============================================================================
