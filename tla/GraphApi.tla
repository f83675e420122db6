------------------------------ MODULE GraphApi ------------------------------
(***************************************************************************)
(* Who reads the graph: the queries of InMemoryGraphiti, the log of its    *)
(* changes and its listeners, and the routes of the API server over them   *)
(* (routes/graph.ts, routes/mission-control.ts), while writers change it.  *)
(* A route answers in one step (no handler over the graph awaits); a       *)
(* client that reads page by page takes one for each.                      *)
(*                                                                         *)
(* A parameter of a query string is absent, not a number, or a number; a   *)
(* text is the set of the nodes it is found in.                            *)
(***************************************************************************)
EXTENDS GraphOperations, Integers

CONSTANTS
    TypeOf,         \* id of a node -> its type
    Ends,           \* id of an edge -> [source, target]
    Listeners,
    Once,           \* the listeners that unsubscribe themselves when called
    SnapshotLimit,  \* 1000
    PageSize,
    MaxChanges      \* bound: the length of the log

VARIABLES
    graph,
    order,          \* the ids of the nodes as the map lists them
    changes,
    handlers,
    heard,          \* history: what each listener was told since it subscribed,
    since, skipped, \* where the log was then, one has unsubscribed in a call
    pager,          \* a client: [seen, at]
    steady          \* history: no node was removed since the client began

vars == <<graph, order, changes, handlers, heard, since, skipped, pager, steady>>

Init ==
    /\ graph = EmptyGraph /\ order = <<>> /\ changes = <<>>
    /\ handlers = <<>> /\ heard = [h \in Listeners |-> <<>>] /\ since = [h \in Listeners |-> 0]
    /\ skipped = FALSE
    /\ pager = [seen |-> <<>>, at |-> 0] /\ steady = TRUE

-----------------------------------------------------------------------------
(* Changes and their listeners                                              *)

Change(type, id) == [type |-> type, id |-> id]

(* emit() walks the list the listeners are spliced out of: the one behind   *)
(* a listener that unsubscribes itself is passed over.                      *)
Called(list) ==
    LET visited[i \in 0..Len(list)] ==
            i > 0 /\ ~(visited[i - 1] /\ list[i - 1] \in Once)
    IN  {list[i] : i \in {j \in 1..Len(list) : visited[j]}}

(* mutant: the rest of the listeners is passed over                         *)
EmitToFirst(told, change) ==
    [list |-> told.list,
     heard |-> [h \in Listeners |-> IF told.list # <<>> /\ h = Head(told.list)
                                    THEN Append(told.heard[h], change) ELSE told.heard[h]]]

Emit(told, change) ==
    LET called == Called(told.list)
    IN  [list |-> SelectSeq(told.list, LAMBDA h : h \notin called \cap Once),
         heard |-> [h \in Listeners |-> IF h \in called THEN Append(told.heard[h], change)
                                                        ELSE told.heard[h]]]

(* What an operation adds to the log, and tells.                            *)
Logs(new) ==
    LET told == FoldLeft(Emit, [list |-> handlers, heard |-> heard], new)
    IN  /\ Len(changes) + Len(new) <= MaxChanges
        /\ changes' = changes \o new
        /\ handlers' = told.list /\ heard' = told.heard
        /\ skipped' = (skipped \/ told.list # handlers)
        /\ UNCHANGED <<since, pager>>

DoAddNode(id) ==
    /\ Logs(<<Change("node_added", id)>>)
    /\ graph' = AddNode(graph, id, "none")
    /\ order' = IF id \in ToSet(order) THEN order ELSE Append(order, id)
    /\ UNCHANGED steady

DoUpdateNode(id) ==
    /\ id \in DOMAIN graph.nodes /\ Logs(<<Change("node_updated", id)>>)
    /\ graph' = UpdateNode(graph, id, "running")
    /\ UNCHANGED <<order, steady>>

DoAddEdge(id) ==
    /\ id \notin DOMAIN graph.edges /\ Logs(<<Change("edge_added", id)>>)
    /\ graph' = AddEdge(graph, id, Ends[id].source, Ends[id].target)
    /\ UNCHANGED <<order, steady>>

DoRemoveEdge(id) ==
    /\ id \in DOMAIN graph.edges /\ Logs(<<Change("edge_removed", id)>>)
    /\ graph' = RemoveEdge(graph, id)
    /\ UNCHANGED <<order, steady>>

(* mutant: the edges go without a word                                      *)
RemovalSilently(id) == <<Change("node_removed", id)>>

(* The edges go first, each once; a loop is listed twice.                   *)
Removal(id) ==
    LET gone == SelectSeq(Listed(graph.out, id) \o SelectSeq(Listed(graph.inc, id),
                              LAMBDA e : e \notin ToSet(Listed(graph.out, id))),
                          LAMBDA e : e \in DOMAIN graph.edges)
    IN  [i \in DOMAIN gone |-> Change("edge_removed", gone[i])]
            \o <<Change("node_removed", id)>>

DoRemoveNode(id) ==
    /\ id \in DOMAIN graph.nodes /\ Logs(Removal(id))
    /\ graph' = RemoveNode(graph, id)
    /\ order' = SelectSeq(order, LAMBDA other : other # id)
    /\ steady' = FALSE

(* clear() keeps the listeners and tells them nothing.                      *)
Clear ==
    /\ graph' = EmptyGraph /\ order' = <<>> /\ changes' = <<>> /\ steady' = FALSE
    /\ heard' = [h \in Listeners |-> <<>>] /\ since' = [h \in Listeners |-> 0]
    /\ UNCHANGED <<handlers, skipped, pager>>

OnChange(h) ==
    /\ h \notin ToSet(handlers)
    /\ handlers' = Append(handlers, h)
    /\ heard' = [heard EXCEPT ![h] = <<>>] /\ since' = [since EXCEPT ![h] = Len(changes)]
    /\ UNCHANGED <<graph, order, changes, skipped, pager, steady>>

-----------------------------------------------------------------------------
(* Queries                                                                  *)

Absent == [form |-> "absent"]
NaN == [form |-> "NaN"]
Number(n) == [form |-> "number", n |-> n]

OrElse(parameter, default) == IF parameter.form = "absent" THEN Number(default) ELSE parameter

Plus(a, b) == IF a.form = "NaN" \/ b.form = "NaN" THEN NaN ELSE Number(a.n + b.n)

(* Array.prototype.slice(): NaN is 0, a negative place counts from the end. *)
Place(list, p) ==
    LET n == IF p.form = "NaN" THEN 0 ELSE p.n
    IN  IF n < 0 THEN Max({Len(list) + n, 0}) ELSE Min({n, Len(list)})

Slice(list, from, to) == SubSeq(list, Place(list, from) + 1, Place(list, to))

(* mutant: the limit is the place of the last one                           *)
QueryToLimit(types, limit, offset) ==
    LET found == SelectSeq(order, LAMBDA id : types = {} \/ TypeOf[id] \in types)
    IN  Slice(found, OrElse(offset, 0), OrElse(limit, Len(found)))

QueryNodes(types, limit, offset) ==
    LET found == SelectSeq(order, LAMBDA id : types = {} \/ TypeOf[id] \in types)
        from  == OrElse(offset, 0)
    IN  Slice(found, from, Plus(from, OrElse(limit, Len(found))))

SearchNodes(text, types, limit) ==
    LET found == SelectSeq(order, LAMBDA id : id \in text /\ (types = {} \/ TypeOf[id] \in types))
    IN  Slice(found, Number(0), OrElse(limit, Len(found)))

Stats ==
    [nodeCount |-> Cardinality(DOMAIN graph.nodes), edgeCount |-> Cardinality(DOMAIN graph.edges),
     nodesByType |-> [t \in {TypeOf[id] : id \in DOMAIN graph.nodes} |->
                         Cardinality({id \in DOMAIN graph.nodes : TypeOf[id] = t})]]

(* slice(-0) is slice(0): everything.                                       *)
GetChanges(limit) ==
    Slice(changes, IF limit.form = "NaN" THEN NaN ELSE Number(-limit.n), Number(Len(changes)))

-----------------------------------------------------------------------------
(* Routes: a code, and what is answered                                     *)

OK(value) == [code |-> 200, value |-> value]

GetGraph ==
    LET nodes == QueryNodes({}, Number(SnapshotLimit), Absent)
    IN  [nodes |-> nodes, stats |-> Stats,
         edges |-> FlattenSeq([i \in DOMAIN nodes |-> GetEdges(graph, graph.out, nodes[i])])]

(* type= is the type "".                                                    *)
GetNodes(types, limit, offset) == OK(QueryNodes(types, limit, offset))

GetNode(id) == IF id \in DOMAIN graph.nodes THEN OK(<<id>>) ELSE [code |-> 404, value |-> <<>>]

(* No node, or a direction there is not, is no error.                       *)
EdgesOf(node, direction) ==
    OK((IF direction \in {"outgoing", "both"} THEN GetEdges(graph, graph.out, node) ELSE <<>>)
        \o (IF direction \in {"incoming", "both"} THEN GetEdges(graph, graph.inc, node) ELSE <<>>))

GetHistory(limit) == OK(GetChanges(OrElse(limit, 50)))

(* No limit of its own: ten steps.                                          *)
GetPath(source, target, maxDepth) ==
    LET depth == OrElse(maxDepth, 10).n
        found == PathLength(graph, source, target, depth)
    IN  IF found > depth THEN [code |-> 404, value |-> <<>>] ELSE OK(found)

GetSearch(text, types, limit) == OK(SearchNodes(text, types, limit))

(* Mission control: the nodes of a type, and what is shown for a property   *)
(* a node does not have (mission-control.ts)                                *)
Listing(type, limit, default) ==
    LET nodes == QueryNodes({type}, limit, Absent)
    IN  [i \in DOMAIN nodes |->
            [id |-> nodes[i], status |-> IF graph.nodes[nodes[i]] = "none"
                                         THEN default ELSE graph.nodes[nodes[i]]]]

Missions == Listing("execution", Number(100), "unknown")
MemoryEntries(limit) == Listing("memory", OrElse(limit, 50), "unknown")
PlanNodes == Listing("plan", Number(100), "unknown")
ToolNodes == Listing("tool", Number(200), "available")
SkillNodes == Listing("skill", Number(200), "available")
LogEntries(limit) == Listing("log", OrElse(limit, 50), "info")

(* /v1/metrics/summary, as far as it is about the graph.                    *)
MetricsSummary == OK(Stats)

(* A client that reads all pages.                                           *)
ReadPage ==
    LET page == GetNodes({}, Number(PageSize), Number(pager.at)).value IN
    /\ page # <<>>
    /\ pager' = [seen |-> pager.seen \o page, at |-> pager.at + PageSize]
    /\ UNCHANGED <<graph, order, changes, handlers, heard, since, skipped, steady>>

Next ==
    \/ Clear \/ ReadPage
    \/ \E id \in DOMAIN TypeOf : DoAddNode(id) \/ DoUpdateNode(id) \/ DoRemoveNode(id)
    \/ \E id \in DOMAIN Ends : DoAddEdge(id) \/ DoRemoveEdge(id)
    \/ \E h \in Listeners : OnChange(h)

Spec == Init /\ [][Next]_vars

-----------------------------------------------------------------------------

(* What was added and not removed since, by the log.                        *)
Replayed(add, remove) ==
    {changes[i].id : i \in {j \in DOMAIN changes :
        changes[j].type = add
            /\ \A k \in DOMAIN changes : k > j /\ changes[k].id = changes[j].id
                                            => changes[k].type # remove}}

(* Whoever follows the log has the graph: removeNode() logs the edges it    *)
(* takes along, and a listener is told every change in the order of the log *)
(* as long as none unsubscribes while it is called (emit(), onChange()).    *)
LogTellsTheGraph ==
    /\ Replayed("node_added", "node_removed") = DOMAIN graph.nodes
    /\ Replayed("edge_added", "edge_removed") = DOMAIN graph.edges
    /\ \A i \in DOMAIN handlers : ~skipped =>
          LET h == handlers[i] IN heard[h] = SubSeq(changes, since[h] + 1, Len(changes))

(* A client that reads page by page has seen each node once, in order, as   *)
(* far as it is, and all of them when it gets an empty page, whatever was   *)
(* added or updated between its pages, unless a node was removed            *)
(* (GET /v1/graph/nodes).                                                   *)
PagesFollowEachOther ==
    steady =>
        /\ IsPrefix(pager.seen, order)
        /\ QueryNodes({}, Number(PageSize), Number(pager.at)) = <<>> => pager.seen = order

(* The snapshot has a source for each of its edges, each edge once, and     *)
(* without a cut nothing is missing; the counts are of the whole graph      *)
(* (GET /v1/graph).  Mission control shows each node under the one type it  *)
(* has, with the status it was last given.                                  *)
SnapshotIsTheGraph ==
    LET shown == GetGraph IN
    /\ IsInjective(shown.edges)
    /\ \A i \in DOMAIN shown.edges : graph.edges[shown.edges[i]].source \in ToSet(shown.nodes)
    /\ Len(order) <= SnapshotLimit =>
          /\ ToSet(shown.nodes) = DOMAIN graph.nodes
          /\ \A e \in DOMAIN graph.edges :
                graph.edges[e].source \in DOMAIN graph.nodes => e \in ToSet(shown.edges)
    /\ MapThenSumSet(LAMBDA t : shown.stats.nodesByType[t], DOMAIN shown.stats.nodesByType)
           = Len(order)
    /\ LET listed == Missions \o PlanNodes \o ToolNodes \o SkillNodes
                        \o MemoryEntries(Absent) \o LogEntries(Absent)
       IN  /\ Len(listed) = MetricsSummary.value.nodeCount
           /\ \A i \in DOMAIN listed :
                 listed[i].status = "running" <=> graph.nodes[listed[i].id] = "running"

(* A limit in a query bounds the answer, but for a limit of 0, which a      *)
(* history takes for none; a wrong one is no error.                         *)
LimitsAreKept ==
    \A limit \in {Number(1), Number(2)} :
        /\ Len(GetNodes({}, limit, Absent).value) <= limit.n
        /\ Len(GetSearch(DOMAIN TypeOf, {}, limit).value) <= limit.n
        /\ IsSuffix(GetHistory(limit).value, changes) /\ Len(GetHistory(limit).value) <= limit.n
        /\ GetHistory(Number(0)).value = changes
        /\ GetNodes({}, NaN, Absent).value = <<>>
        /\ LET path == GetPath("b", "a", limit) IN
           path.code = 200 => path.value <= limit.n
=============================================================================
