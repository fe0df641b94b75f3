--------------------------- MODULE GraphAssembler ---------------------------
(***************************************************************************)
(* The entry points of src/graph/telemetry/istio/istio.go that assemble a *)
(* graph from builds: BuildNamespacesTrafficMap (one build per requested  *)
(* namespace, the appender pipeline on each, a merge into the combined    *)
(* map, then the global marking passes), BuildNodeTrafficMap and          *)
(* handleAggregateNodeTrafficMap (one build, the pipeline, the marks).    *)
(*                                                                         *)
(* A build is abstracted to its result (TrafficMapBuilder models it): the *)
(* map of NsGraph or NodeGraph, or the panic of an unavailable            *)
(* Prometheus.  A traffic map is a graph [node, edge] in the sense of the *)
(* Graphs module; a node is [id, namespace], an edge <<sourceID, destID,  *)
(* protocol>>.  An appender is abstracted to the edges it has seen.       *)
(* MergeTrafficMaps, MarkOutsideOrInaccessible, MarkTrafficGenerators and *)
(* ParseAppenders are not under src/ and follow the specification.        *)
(***************************************************************************)
EXTENDS Naturals, Sequences, Graphs

CONSTANTS
    Requested,        \* o.Namespaces of a namespace-graph request
    Accessible,       \* the namespaces the user may access
    NsGraph,          \* NsGraph[ns]: what buildNamespaceTrafficMap returns
    NodeRequests,     \* node graph requests [kind |-> "node" | "aggregate",
                      \* namespace |-> o.NodeOptions.Namespace]
    NodeGraph,        \* NodeGraph[r]: what buildNodeTrafficMap or
                      \* buildAggregateNodeTrafficMap returns for r
    AppenderOrder,    \* the pipeline order of every known appender
    AppenderNames,    \* o.Appenders.AppenderNames
    AllAppenders,     \* o.Appenders.All
    AggregateNodeAppenderName

VARIABLES
    request,     \* the graph requested: a namespaces request or a node request
    appenders,   \* ParseAppenders(o)
    todo,        \* namespaces whose build has not been merged yet
    current,     \* the namespace being built
    nsMap,       \* the map of the current build, as the pipeline leaves it
    appIdx,      \* index of the next appender to run on nsMap
    trafficMap,  \* the map the request returns
    outsiders,   \* IDs marked isOutside or isInaccessible
    generators,  \* IDs marked isTrafficGenerator
    aPhase       \* "build" | "append" | "finish" | "returned" | "failed"

avars == <<request, appenders, todo, current, nsMap, appIdx, trafficMap,
           outsiders, generators, aPhase>>

NamespacesRequest == [kind |-> "namespaces"]

NoNamespace == "none"

\* graph.NewTrafficMap()
NewTrafficMap == [node |-> {}, edge |-> {}, annotated |-> {}]

Ids(g) == {n.id : n \in g.node}

\* o.Namespaces: the namespaces the marking passes treat as inside
RequestNamespaces ==
    IF request = NamespacesRequest THEN Requested ELSE {request.namespace}

\* handleAggregateNodeTrafficMap adds the aggregate node appender to the
\* requested names unless all appenders are requested
RequestedAppenders(r) ==
    IF r.kind = "aggregate" /\ ~AllAppenders
      THEN AppenderNames \cup {AggregateNodeAppenderName}
    ELSE AppenderNames

\* ParseAppenders: the requested appenders (or all) in pipeline order
ParseAppenders(r) ==
    SelectSeq(AppenderOrder,
              LAMBDA a : AllAppenders \/ a \in RequestedAppenders(r))

\* the result of the build for namespace ns (or of the node request)
BuiltMap(ns) ==
    LET g == IF request = NamespacesRequest THEN NsGraph[ns]
             ELSE NodeGraph[request]
    IN [node |-> g.node, edge |-> g.edge, annotated |-> {}]

\* a.AppendGraph(trafficMap, ...): the appender sees every edge of the map
AppendGraph(g, a) ==
    [g EXCEPT !.annotated = @ \cup {<<a, e>> : e \in g.edge}]

\* telemetry.MergeTrafficMaps: a union over node IDs; a node of both maps
\* keeps the edges (and what the appenders recorded) of both
MergeTrafficMaps(tm, ns, nsTm) ==
    LET u == GraphUnion(tm, nsTm)
    IN [node |-> u.node, edge |-> u.edge,
        annotated |-> tm.annotated \cup nsTm.annotated]

\* telemetry.MarkOutsideOrInaccessible: nodes of a namespace that was not
\* requested, or that the user may not access
MarkOutsideOrInaccessible(tm) ==
    {n.id : n \in {m \in tm.node : m.namespace \notin RequestNamespaces
                                   \/ m.namespace \notin Accessible}}

\* mutant: outside nodes are marked traffic generators too
MarkTrafficGeneratorsAll(tm, outside) ==
    {id \in Ids(tm) :
        /\ \E e \in tm.edge : e[1] = id
        /\ \A e \in tm.edge : e[2] # id}

\* telemetry.MarkTrafficGenerators: inside nodes with outgoing edges only
MarkTrafficGenerators(tm, outside) ==
    {id \in Ids(tm) \ outside :
        /\ \E e \in tm.edge : e[1] = id
        /\ \A e \in tm.edge : e[2] # id}

------------------------------------------------------------------------------
(* the request *)

Init ==
    /\ request \in {NamespacesRequest} \cup NodeRequests
    /\ appenders = ParseAppenders(request)
    /\ todo = RequestNamespaces
    /\ current = NoNamespace
    /\ nsMap = NewTrafficMap
    /\ appIdx = 1
    /\ trafficMap = NewTrafficMap
    /\ outsiders = {}
    /\ generators = {}
    /\ aPhase = IF todo = {} THEN "finish" ELSE "build"

\* the next namespace of the loop over o.Namespaces (a Go map, so in any
\* order), or the one build of a node request, returns its map
BuildNamespace(ns) ==
    /\ aPhase = "build"
    /\ ns \in todo
    /\ current' = ns
    /\ nsMap' = BuiltMap(ns)
    /\ appIdx' = 1
    /\ aPhase' = "append"
    /\ UNCHANGED <<request, appenders, todo, trafficMap, outsiders, generators>>

\* the build panics (graph.CheckUnavailable); the panic leaves the entry
\* point, and the maps built so far are dropped
BuildFails(ns) ==
    /\ aPhase = "build"
    /\ ns \in todo
    /\ aPhase' = "failed"
    /\ UNCHANGED <<request, appenders, todo, current, nsMap, appIdx,
                   trafficMap, outsiders, generators>>

\* the next appender of the pipeline runs on the build's map
RunAppender ==
    /\ aPhase = "append"
    /\ appIdx <= Len(appenders)
    /\ nsMap' = AppendGraph(nsMap, appenders[appIdx])
    /\ appIdx' = appIdx + 1
    /\ UNCHANGED <<request, appenders, todo, current, trafficMap, outsiders,
                   generators, aPhase>>

\* mutant: the map is merged before the pipeline has run to its end
MergeNamespaceEarly ==
    /\ aPhase = "append"
    /\ request = NamespacesRequest
    /\ trafficMap' = MergeTrafficMaps(trafficMap, current, nsMap)
    /\ todo' = todo \ {current}
    /\ aPhase' = IF todo' = {} THEN "finish" ELSE "build"
    /\ UNCHANGED <<request, appenders, current, nsMap, appIdx, outsiders,
                   generators>>

\* BuildNamespacesTrafficMap: the namespace map is merged into the combined
\* map, and the loop goes on
MergeNamespace ==
    /\ aPhase = "append"
    /\ appIdx > Len(appenders)
    /\ request = NamespacesRequest
    /\ trafficMap' = MergeTrafficMaps(trafficMap, current, nsMap)
    /\ todo' = todo \ {current}
    /\ aPhase' = IF todo' = {} THEN "finish" ELSE "build"
    /\ UNCHANGED <<request, appenders, current, nsMap, appIdx, outsiders,
                   generators>>

\* BuildNodeTrafficMap, handleAggregateNodeTrafficMap: the build's map is
\* the result
AdoptNodeMap ==
    /\ aPhase = "append"
    /\ appIdx > Len(appenders)
    /\ request # NamespacesRequest
    /\ trafficMap' = nsMap
    /\ todo' = {}
    /\ aPhase' = "finish"
    /\ UNCHANGED <<request, appenders, current, nsMap, appIdx, outsiders,
                   generators>>

\* mutant: the generators are marked on the last namespace's map
MarkAndReturnNsMap ==
    /\ aPhase = "finish"
    /\ outsiders' = MarkOutsideOrInaccessible(trafficMap)
    /\ generators' = MarkTrafficGenerators(nsMap, outsiders')
    /\ aPhase' = "returned"
    /\ UNCHANGED <<request, appenders, todo, current, nsMap, appIdx,
                   trafficMap>>

\* the final adjustments on the returned map
MarkAndReturn ==
    /\ aPhase = "finish"
    /\ outsiders' = MarkOutsideOrInaccessible(trafficMap)
    /\ generators' = MarkTrafficGenerators(trafficMap, outsiders')
    /\ aPhase' = "returned"
    /\ UNCHANGED <<request, appenders, todo, current, nsMap, appIdx,
                   trafficMap>>

\* the request has returned its map, or panicked
Returned ==
    /\ aPhase \in {"returned", "failed"}
    /\ UNCHANGED avars

Next ==
    \/ \E ns \in todo : BuildNamespace(ns) \/ BuildFails(ns)
    \/ RunAppender
    \/ MergeNamespace
    \/ AdoptNodeMap
    \/ MarkAndReturn
    \/ Returned

Spec == Init /\ [][Next]_avars

------------------------------------------------------------------------------
(* Properties *)

Phases == {"build", "append", "finish", "returned", "failed"}

TypeOK ==
    /\ aPhase \in Phases
    /\ todo \subseteq RequestNamespaces
    /\ appIdx \in 1 .. Len(appenders) + 1
    /\ outsiders \cup generators \subseteq Ids(trafficMap)
    /\ outsiders \cap generators = {}

\* the graph the request must return: every requested namespace's map (or
\* the node request's map), none left out and none cut short
ExpectedGraph ==
    IF request = NamespacesRequest
      THEN [node |-> UNION {NsGraph[ns].node : ns \in Requested},
            edge |-> UNION {NsGraph[ns].edge : ns \in Requested}]
    ELSE [node |-> NodeGraph[request].node, edge |-> NodeGraph[request].edge]

\* Every edge of the returned graph went through the whole appender pipeline
\* (the appenders run on each namespace map before it is merged, so none is
\* merged half-annotated).
AppendersSawEveryEdge ==
    aPhase = "returned" =>
      \A e \in trafficMap.edge, i \in 1 .. Len(appenders) :
        <<appenders[i], e>> \in trafficMap.annotated

\* A node marked a traffic generator receives traffic in none of the
\* requested namespaces' maps: the marking runs on the combined graph, after
\* every merge, so traffic that reaches a node only in another namespace's
\* map still counts.
GeneratorsReceiveNothing ==
    aPhase = "returned" =>
      \A id \in generators : \A e \in ExpectedGraph.edge : e[2] # id
==============================================================================
