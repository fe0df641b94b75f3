-------------------------- MODULE TrafficMapBuilder --------------------------
(***************************************************************************)
(* The namespace traffic-map build of src/graph/telemetry/istio/istio.go: *)
(* buildNamespaceTrafficMap issues, per metric, three Prometheus queries   *)
(* (unserviced incoming, incoming, outgoing); populateTrafficMap applies   *)
(* every row of each result vector, in the vector's (arbitrary) order,     *)
(* through addTraffic, which registers nodes (addNode), optionally injects *)
(* a service node, and adds the rate to edges unless the edge's tsHashMap  *)
(* says the same time series was already applied (addEdgeTraffic).        *)
(*                                                                         *)
(* buildNodeTrafficMap (the node graph of BuildNodeTrafficMap) issues     *)
(* node-scoped queries, and buildAggregateNodeTrafficMap (the graph of an  *)
(* aggregate node, e.g. one request operation) a single query; both feed  *)
(* the same populateTrafficMap.                                            *)
(*                                                                         *)
(* A time series is a record of its labels; "sum(rate(..)) by (..)" has   *)
(* already grouped it, so every member of TimeSeries is one result row.   *)
(* A request is the set of series Istio reports for it (by the source     *)
(* proxy, the destination proxy, or both).                                 *)
(* md5 hashes are modelled by the tuple of what they hash.                 *)
(***************************************************************************)
EXTENDS Naturals, SequencesExt, NodeIdentity

CONSTANTS
    GraphType,           \* o.GraphType
    InjectServiceNodes,  \* o.InjectServiceNodes
    IncludeIdleEdges,    \* o.IncludeIdleEdges
    Rates,               \* o.Rates: [http, grpc, tcp] rate selectors
    Namespace,           \* the namespace being built (o.NodeOptions.Namespace)
    BuildOptions,        \* the o.NodeOptions a build may be asked for: kind
                         \* "namespace"; kind "node" and the target of a
                         \* node graph (queryCluster is o.Cluster, the
                         \* cluster the node queries narrow by); or kind
                         \* "aggregate", an aggregate label, its value and
                         \* optionally a service
    Requests             \* Requests[o]: the requests whose series
                         \* Prometheus may hold when o is built

VARIABLES
    NodeOptions, \* the options of this build, fixed for the behaviour
    telemetry,   \* the rows Prometheus holds in this behaviour
    step,        \* index of the next query of QueryPlan
    phase,       \* "query" | "waiting" | "populate" | "done" | "unavailable"
                 \* | "crashed"
    vector,      \* rows of the current result not yet populated
    trafficMap,  \* node ID -> [node, tsHash, destServices]
    edges,       \* <<sourceID, destID, protocol>> -> [tsHashMap, rate]
    processed    \* ghost: every row handed to populateTrafficMap so far

TimeSeries == UNION {UNION Requests[o] : o \in BuildOptions}

vars == <<NodeOptions, telemetry, step, phase, vector, trafficMap, edges, processed>>

RateNone     == "none"
RateRequests == "requests"
RateSent     == "sent"
RateReceived == "received"
RateTotal    == "total"

RequestsMetric    == "istio_requests_total"
ReqMessagesMetric == "istio_request_messages_total"
ResMessagesMetric == "istio_response_messages_total"
TcpSentMetric     == "istio_tcp_sent_bytes_total"
TcpReceivedMetric == "istio_tcp_received_bytes_total"

\* the metrics a gRPC-message or TCP rate selector asks for
SelectedMetrics(sel, sentMetric, receivedMetric) ==
    CASE sel = RateReceived -> <<receivedMetric>>
      [] sel = RateSent     -> <<sentMetric>>
      [] sel = RateTotal    -> <<sentMetric, receivedMetric>>
      [] OTHER              -> <<>>

\* buildNamespaceTrafficMap: the metrics queried, in the order queried
PlanMetrics ==
    (IF Rates.http = RateRequests \/ Rates.grpc = RateRequests
       THEN <<RequestsMetric>> ELSE <<>>)
    \o (IF Rates.grpc \notin {RateNone, RateRequests}
          THEN SelectedMetrics(Rates.grpc, ReqMessagesMetric, ResMessagesMetric)
          ELSE <<>>)
    \o (IF Rates.tcp # RateNone
          THEN SelectedMetrics(Rates.tcp, TcpSentMetric, TcpReceivedMetric)
          ELSE <<>>)

QueryKinds == <<"unserviced", "incoming", "outgoing">>

\* BuildNodeTrafficMap: n := graph.NewNode(cluster, ns, service, ns, workload,
\* app, version, graphType, "")
TargetNode ==
    NewNode(NodeOptions.cluster, Namespace, NodeOptions.service, Namespace,
            NodeOptions.workload, NodeOptions.app, NodeOptions.version,
            GraphType, "")

\* mutant: service nodes skip the unserviced query for requests too
NodeQueryKindsNoUnserviced(isRequests) ==
    CASE TargetNode.nodeType \in {NodeTypeWorkload, NodeTypeApp} ->
           <<"nodeIn", "nodeOut">>
      [] TargetNode.nodeType = NodeTypeService -> <<"svcIn", "empty">>
      [] OTHER -> <<"unsupported">>

\* mutant: the outbound switch leaves query = "" for every node type
NodeQueryKindsNoOutbound(isRequests) ==
    CASE TargetNode.nodeType \in {NodeTypeWorkload, NodeTypeApp} ->
           <<"nodeIn", "empty">>
      [] TargetNode.nodeType = NodeTypeService ->
           (IF isRequests THEN <<"svcUnserviced">> ELSE <<>>) \o <<"svcIn", "empty">>
      [] OTHER -> <<"unsupported">>

\* buildNodeTrafficMap's two switches on n.NodeType, for one metric: service
\* nodes add the unserviced query 1.a for requests only, and have no
\* outbound query (query = ""); other node types reach graph.Error
NodeQueryKinds(isRequests) ==
    CASE TargetNode.nodeType \in {NodeTypeWorkload, NodeTypeApp} ->
           <<"nodeIn", "nodeOut">>
      [] TargetNode.nodeType = NodeTypeService ->
           (IF isRequests THEN <<"svcUnserviced">> ELSE <<>>) \o <<"svcIn", "empty">>
      [] OTHER -> <<"unsupported">>

\* handleAggregateNodeTrafficMap: n := graph.NewAggregateNode(cluster, ns,
\* aggregate, aggregateValue, service, app)
AggregateNode ==
    NewAggregateNode(NodeOptions.cluster, Namespace, NodeOptions.aggregate,
                     NodeOptions.aggregateValue, NodeOptions.service,
                     NodeOptions.app)

\* the gRPC-message block repeats the two switches for each message metric:
\* a service node has no unserviced query there (the TODO), as for TCP
NodeMessageQueryKinds == NodeQueryKinds(FALSE)

KindsOf(m) ==
    IF NodeOptions.kind = "namespace" THEN QueryKinds
    ELSE IF m \in {ReqMessagesMetric, ResMessagesMetric} THEN NodeMessageQueryKinds
    ELSE NodeQueryKinds(m = RequestsMetric)

\* buildAggregateNodeTrafficMap: one requests query whatever the rate
\* selectors (the TCP and gRPC-message queries are commented out)
AggregatePlan == <<[metric |-> RequestsMetric, kind |-> "aggregate"]>>

\* the queries in the order issued
QueryPlan ==
    IF NodeOptions.kind = "aggregate" THEN AggregatePlan
    ELSE FlattenSeq([i \in DOMAIN PlanMetrics |->
                       [j \in DOMAIN KindsOf(PlanMetrics[i]) |->
                          [metric |-> PlanMetrics[i],
                           kind   |-> KindsOf(PlanMetrics[i])[j]]]])

\* destination_service=~"^.+\\.<ns>\\..+$" on a host <<name, namespace>>
HostInNamespace(host, ns) == host[1] # Unknown /\ host[2] = ns

\* destination_service=~"^<svc>\\.<ns>\\..*$"
ServiceHost(host, svc, ns) == host[1] = svc /\ host[2] = ns

\* ",destination_cluster=<c>" / ",source_cluster=<c>" only when the cluster
\* is set on the target
InCluster(c) == NodeOptions.queryCluster = Unknown \/ c = NodeOptions.queryCluster

\* the node graph's selectors on one side: workload, or app (and version)
NodeSide(ns, wl, app, ver) ==
    IF TargetNode.nodeType = NodeTypeWorkload
      THEN ns = Namespace /\ wl = TargetNode.workload
    ELSE /\ ns = Namespace /\ app = TargetNode.app
         /\ IsOKVersion(TargetNode.version) => ver = TargetNode.version

\* the value a series has for an aggregate label (only request_operation,
\* Istio's request classification, is modelled); "" when it has none
AggregateLabel(r, aggregate) ==
    IF aggregate = "request_operation" THEN r.operation ELSE ""

\* the aggregate query: destination reported, into the namespace, with the
\* aggregate's value, and to its service when it has one
AggregateSelects(r) ==
    /\ r.reporter = "destination" /\ r.destSvcNs = Namespace
    /\ AggregateLabel(r, AggregateNode.aggregate) = AggregateNode.aggregateValue
    /\ AggregateNode.service # "" => r.destSvcName = AggregateNode.service

\* mutant: the idle condition is dropped when idle edges are NOT included
PassesIdleInverted(q, r) == (~IncludeIdleEdges /\ q.kind # "aggregate") \/ r.val > 0

\* idleCondition: "> 0" unless o.IncludeIdleEdges (always "> 0" in the
\* aggregate query); it compares the unrounded rate
PassesIdle(q, r) == (IncludeIdleEdges /\ q.kind # "aggregate") \/ r.val > 0

\* the label selector of each query, and the idle condition
Selects(q, r) ==
    /\ r.metric = q.metric
    /\ PassesIdle(q, r)
    /\ CASE q.kind = "unserviced" ->
              /\ r.reporter = "source"
              /\ r.sourceWlNs # Namespace
              /\ r.destWlNs = Unknown
              /\ r.destWl = Unknown
              /\ HostInNamespace(r.destSvc, Namespace)
         [] q.kind = "incoming" ->
              r.reporter = "destination" /\ r.destWlNs = Namespace
         [] q.kind = "outgoing" ->
              r.reporter = "source" /\ r.sourceWlNs = Namespace
         [] q.kind = "nodeIn" ->
              /\ r.reporter = "destination" /\ InCluster(r.destCluster)
              /\ NodeSide(IF TargetNode.nodeType = NodeTypeWorkload
                             THEN r.destWlNs ELSE r.destSvcNs,
                          r.destWl, r.destApp, r.destVer)
         [] q.kind = "nodeOut" ->
              /\ r.reporter = "source" /\ InCluster(r.sourceCluster)
              /\ NodeSide(r.sourceWlNs, r.sourceWl, r.sourceApp, r.sourceVer)
         [] q.kind = "svcUnserviced" ->
              /\ r.reporter = "source" /\ InCluster(r.destCluster)
              /\ r.destWl = Unknown
              /\ ServiceHost(r.destSvc, TargetNode.service, Namespace)
         [] q.kind = "svcIn" ->
              /\ r.reporter = "destination" /\ InCluster(r.destCluster)
              /\ r.destSvcNs = Namespace
              /\ ServiceHost(r.destSvc, TargetNode.service, Namespace)
         [] q.kind = "aggregate" -> AggregateSelects(r)
         [] q.kind \in {"empty", "unsupported"} -> FALSE

------------------------------------------------------------------------------
(* populateTrafficMap: what a row says *)

(* Rates are in units of 0.0001 per second.  promQuery wraps every query  *)
(* in round(..., 0.001): the idle condition "> 0" inside it filters the   *)
(* unrounded rate, and the vector holds the rate rounded to 0.001.        *)
RoundStep == 10

\* PromQL round(v, to_nearest): floor(v / to_nearest + 0.5) * to_nearest
RoundRate(x) == ((2 * x + RoundStep) \div (2 * RoundStep)) * RoundStep

\* val := float64(s.Value), the row's value as the rounded query returns it
Val(r) == RoundRate(r.val)

IsRequests(r) == r.metric = RequestsMetric

MetricProtocol(m) ==
    IF m \in {ReqMessagesMetric, ResMessagesMetric} THEN "grpc"
    ELSE IF m \in {TcpSentMetric, TcpReceivedMetric} THEN "tcp"
    ELSE ""

Protocol(r) == IF IsRequests(r) THEN r.requestProtocol ELSE MetricProtocol(r.metric)
Code(r)     == IF IsRequests(r) THEN r.code ELSE ""
Flags(r)    == IF IsRequests(r) \/ Protocol(r) = "tcp" THEN r.flags ELSE ""
SourcePod(r) == IF r.reporter = "source" THEN r.pod ELSE ""
DestPod(r)   == IF r.reporter = "destination" THEN r.pod ELSE ""

\* rows dropped with "continue": missing labels, or a request protocol whose
\* rate is not requested
Skipped(r) ==
    \/ ~r.labelsOk
    \/ IsRequests(r) /\ r.requestProtocol = "grpc" /\ Rates.grpc # RateRequests
    \/ IsRequests(r) /\ r.requestProtocol = "http" /\ Rates.http # RateRequests

DestId(r) ==
    Id(r.destCluster, r.destSvcNs, r.destSvcName, r.destWlNs, r.destWl,
       r.destApp, r.destVer, GraphType, DestPod(r))

SourceId(r) ==
    Id(r.sourceCluster, r.sourceWlNs, r.sourceSvc, r.sourceWlNs, r.sourceWl,
       r.sourceApp, r.sourceVer, GraphType, SourcePod(r))

InjectedServiceId(r) ==
    Id(r.destCluster, r.destSvcNs, r.destSvcName, "", "", "", "", GraphType, "")

\* the inject decision; it calls graph.Id on the destination, which may panic
InjectCandidate(r) ==
    InjectServiceNodes /\ IsOK(r.destSvcName) /\ r.destSvcName # PassthroughCluster

Inject(r) == InjectCandidate(r) /\ DestId(r).nodeType # NodeTypeService

------------------------------------------------------------------------------
(* the graph operations *)

NoNode    == <<"nil">>    \* addNode returned nil
CrashNode == <<"panic">>  \* graph.Id panicked inside addNode

SetKey(f, k, v) == [x \in DOMAIN f \cup {k} |-> IF x = k THEN v ELSE f[x]]

TimeSeriesHash(cluster, serviceNs, service, workloadNs, workload, app, version, pod) ==
    <<cluster, serviceNs, service, workloadNs, workload, app, version, pod>>

\* mutant: the edge hash leaves out the response code
EdgeTSHashNoCode(metric, sourceHash, destHash, code, flags, host) ==
    <<metric, sourceHash, destHash, flags, host>>

EdgeTSHash(metric, sourceHash, destHash, code, flags, host) ==
    <<metric, sourceHash, destHash, code, flags, host>>

\* mutant: addNode returns nil for every unknown-namespace node
AddNodeNilAnyUnknown(tm, cluster, serviceNs, service, workloadNs, workload, app, version, pod) ==
  LET res == Id(cluster, serviceNs, service, workloadNs, workload, app,
                version, GraphType, pod)
      old == IF res.id \in DOMAIN tm THEN tm[res.id]
             ELSE [node |-> NewNodeExplicit(res.id, cluster,
                              PreferredNamespace(serviceNs, workloadNs),
                              workload, app, version, service, res.nodeType,
                              GraphType, pod),
                   tsHash |-> <<>>, destServices |-> {}]
  IN IF serviceNs = Unknown /\ workloadNs = Unknown
       THEN [tm |-> tm, node |-> NoNode]
     ELSE IF res = IdPanic THEN [tm |-> tm, node |-> CrashNode]
     ELSE [tm |-> SetKey(tm, res.id, [old EXCEPT !.tsHash =
              TimeSeriesHash(cluster, serviceNs, service, workloadNs,
                             workload, app, version, pod)]),
           node |-> res.id]

\* addNode: create the node on first sight; always overwrite its tsHash
AddNode(tm, cluster, serviceNs, service, workloadNs, workload, app, version, pod) ==
  LET res == Id(cluster, serviceNs, service, workloadNs, workload, app,
                version, GraphType, pod)
      ns  == PreferredNamespace(serviceNs, workloadNs)
      old == IF res.id \in DOMAIN tm THEN tm[res.id]
             ELSE [node |-> NewNodeExplicit(res.id, cluster, ns, workload, app,
                                            version, service, res.nodeType,
                                            GraphType, pod),
                   tsHash |-> <<>>, destServices |-> {}]
      new == [old EXCEPT !.tsHash = TimeSeriesHash(cluster, serviceNs, service,
                                       workloadNs, workload, app, version, pod)]
  IN IF serviceNs = Unknown /\ workloadNs = Unknown /\ service # ""
       THEN [tm |-> tm, node |-> NoNode]
     ELSE IF res = IdPanic THEN [tm |-> tm, node |-> CrashNode]
     ELSE [tm |-> SetKey(tm, res.id, new), node |-> res.id]

\* mutant: the applied hash is not recorded in the edge's tsHashMap
AddEdgeTrafficNoRecord(tm, ed, val, protocol, source, dest, edgeTSHash) ==
  LET key == <<source, dest, protocol>>
      old == IF key \in DOMAIN ed THEN ed[key]
             ELSE [tsHashMap |-> {}, rate |-> 0]
  IN IF edgeTSHash \notin old.tsHashMap
       THEN [edges |-> SetKey(ed, key, [old EXCEPT !.rate = @ + val]),
             applied |-> TRUE]
     ELSE [edges |-> SetKey(ed, key, old), applied |-> FALSE]

\* addEdgeTraffic: find or create the (dest, protocol) edge; apply the rate
\* unless edgeTSHash was applied already (pod graphs: or the source is the
\* ingress-nginx app, which accumulates repeats)
AddEdgeTraffic(tm, ed, val, protocol, source, dest, edgeTSHash) ==
  LET key     == <<source, dest, protocol>>
      old     == IF key \in DOMAIN ed THEN ed[key]
                 ELSE [tsHashMap |-> {}, rate |-> 0]
      applied == \/ edgeTSHash \notin old.tsHashMap
                 \/ GraphType = GraphTypePod
                    /\ tm[source].node.app = IngressNginx
      new     == [tsHashMap |-> old.tsHashMap \cup {edgeTSHash},
                  rate      |-> IF applied THEN old.rate + val ELSE old.rate]
  IN [edges |-> SetKey(ed, key, new), applied |-> applied]

AddToDestServices(tm, id, cluster, namespace, service) ==
    IF ~IsOK(service) THEN tm
    ELSE [tm EXCEPT ![id].destServices = @ \cup {<<cluster, namespace, service>>}]

Result(tm, ed, crashed) == [tm |-> tm, edges |-> ed, crashed |-> crashed]

\* the edge hash of a row between two nodes, read from the nodes' tsHash
\* as they are now
RowHash(r, tm, from, to) ==
    EdgeTSHash(r.metric, tm[from].tsHash, tm[to].tsHash, Code(r), Flags(r),
               r.destSvc)

\* the injected service node: addNode(destCluster, destSvcNs, destSvcName, "",...)
AddServiceNode(tm, r) ==
    AddNode(tm, r.destCluster, r.destSvcNs, r.destSvcName, "", "", "", "", "")

AddRowDestServices(tm, id, r) ==
    AddToDestServices(tm, id, r.destCluster, r.destSvcNs, r.destSvcName)

\* pod graph, destination reported: injected service -> destination pod,
\* with its own hash; destServices are added whether or not it was applied
PodDestEdge(inj, ed, r, d) ==
    [tm    |-> AddRowDestServices(inj.tm, d, r),
     edges |-> AddEdgeTraffic(inj.tm, ed, Val(r), Protocol(r), inj.node, d,
                              RowHash(r, inj.tm, inj.node, d)).edges]

\* pod graph, source reported (or from ingress/unknown): source -> service
PodSourceEdge(inj, ed, r, s) ==
    Result(AddRowDestServices(inj.tm, inj.node, r),
           AddEdgeTraffic(inj.tm, ed, Val(r), Protocol(r), s, inj.node,
                          RowHash(r, inj.tm, s, inj.node)).edges,
           FALSE)

PodSourceHop(b1, r, s) ==
    IF /\ SourcePod(r) # "" \/ r.sourceWlNs \in {IngressNginx, Unknown}
       /\ r.destSvcNs # Unknown
      THEN PodSourceEdge(AddServiceNode(b1.tm, r), b1.edges, r, s)
    ELSE Result(b1.tm, b1.edges, FALSE)

\* pod graph: the destination hop, then the source hop
AddPodTraffic(tm1, ed0, r, s, d) ==
    PodSourceHop(IF DestPod(r) = "" THEN [tm |-> tm1, edges |-> ed0]
                 ELSE PodDestEdge(AddServiceNode(tm1, r), ed0, r, d),
                 r, s)

\* mutant: the true destination's destServices is not updated
AddInjectedTrafficNoDestSvc(tm1, ed0, r, s, d) ==
  LET h   == RowHash(r, tm1, s, d)
      inj == AddServiceNode(tm1, r)
      e1  == AddEdgeTraffic(inj.tm, ed0, Val(r), Protocol(r), s, inj.node, h)
      e2  == AddEdgeTraffic(inj.tm, e1.edges, Val(r), Protocol(r), inj.node, d, h)
  IN IF e1.applied
       THEN Result(AddRowDestServices(inj.tm, inj.node, r), e2.edges, FALSE)
     ELSE Result(inj.tm, e1.edges, FALSE)

\* source -> injected service -> destination, both hops under the same
\* hash; the second hop only when the first was applied
AddInjectedTraffic(tm1, ed0, r, s, d) ==
  LET h   == RowHash(r, tm1, s, d)
      inj == AddServiceNode(tm1, r)
      i   == inj.node
      e1  == AddEdgeTraffic(inj.tm, ed0, Val(r), Protocol(r), s, i, h)
      tm2 == AddRowDestServices(inj.tm, i, r)
      e2  == AddEdgeTraffic(tm2, e1.edges, Val(r), Protocol(r), i, d, h)
  IN IF e1.applied THEN Result(AddRowDestServices(tm2, d, r), e2.edges, FALSE)
     ELSE Result(inj.tm, e1.edges, FALSE)

AddDirectTraffic(tm1, ed0, r, s, d) ==
  LET e == AddEdgeTraffic(tm1, ed0, Val(r), Protocol(r), s, d,
                          RowHash(r, tm1, s, d))
  IN Result(IF e.applied THEN AddRowDestServices(tm1, d, r) ELSE tm1,
            e.edges, FALSE)

\* addTraffic for one row, after the inject decision: register source and
\* destination, then the edge(s).  The edge hash is read after both
\* addNode calls, so when source and destination are one node it sees the
\* destination's tsHash.
AddTraffic(tm0, ed0, r, inject) ==
  LET src == AddNode(tm0, r.sourceCluster, r.sourceWlNs, r.sourceSvc,
                     r.sourceWlNs, r.sourceWl, r.sourceApp, r.sourceVer,
                     SourcePod(r))
      dst == AddNode(src.tm, r.destCluster, r.destSvcNs, r.destSvcName,
                     r.destWlNs, r.destWl, r.destApp, r.destVer, DestPod(r))
      s   == src.node
      d   == dst.node
  IN
  IF s = CrashNode \/ d = CrashNode THEN Result(tm0, ed0, TRUE)
  ELSE IF d = NoNode THEN Result(dst.tm, ed0, FALSE)
  \* source is nil: source.Metadata[tsHash] dereferences a nil pointer
  ELSE IF s = NoNode THEN Result(dst.tm, ed0, TRUE)
  ELSE IF GraphType = GraphTypePod THEN AddPodTraffic(dst.tm, ed0, r, s, d)
  ELSE IF inject THEN AddInjectedTraffic(dst.tm, ed0, r, s, d)
  ELSE AddDirectTraffic(dst.tm, ed0, r, s, d)

\* populateTrafficMap for one row
Populate(tm, ed, r) ==
    IF Skipped(r) THEN Result(tm, ed, FALSE)
    ELSE IF InjectCandidate(r) /\ DestId(r) = IdPanic THEN Result(tm, ed, TRUE)
    ELSE AddTraffic(tm, ed, r, Inject(r))

------------------------------------------------------------------------------
(* the build *)

Init ==
    /\ NodeOptions \in BuildOptions
    /\ telemetry \in {UNION rs : rs \in SUBSET Requests[NodeOptions]}
    /\ step = 1
    /\ phase = CASE NodeOptions.kind = "node" /\ TargetNode = IdPanic -> "crashed"
                 [] \E i \in DOMAIN QueryPlan : QueryPlan[i].kind = "unsupported"
                      -> "crashed"
                 [] Len(QueryPlan) = 0 -> "done"
                 [] OTHER -> "query"
    /\ vector = {}
    /\ trafficMap = <<>>
    /\ edges = <<>>
    /\ processed = {}

\* promQuery(query) with a query: api.Query is called and the build blocks
\* on the answer (the context has no deadline)
SendQuery ==
    /\ phase = "query"
    /\ QueryPlan[step].kind # "empty"
    /\ phase' = "waiting"
    /\ UNCHANGED <<NodeOptions, telemetry, step, vector, trafficMap, edges, processed>>

\* promQuery("") returns an empty vector without asking Prometheus
EmptyQuery ==
    /\ phase = "query"
    /\ QueryPlan[step].kind = "empty"
    /\ phase' = "populate"
    /\ UNCHANGED <<NodeOptions, telemetry, step, vector, trafficMap, edges, processed>>

\* Prometheus answers: the result vector of QueryPlan[step]
ExecuteQuery ==
    /\ phase = "waiting"
    /\ vector' = {r \in telemetry : Selects(QueryPlan[step], r)}
    /\ phase' = "populate"
    /\ UNCHANGED <<NodeOptions, telemetry, step, trafficMap, edges, processed>>

\* mutant: a failed query is retried instead of abandoning the build
QueryUnavailableRetry ==
    /\ phase = "waiting"
    /\ phase' = "query"
    /\ UNCHANGED <<NodeOptions, telemetry, step, vector, trafficMap, edges, processed>>

\* Prometheus fails: graph.CheckUnavailable panics and the build is abandoned
QueryUnavailable ==
    /\ phase = "waiting"
    /\ phase' = "unavailable"
    /\ UNCHANGED <<NodeOptions, telemetry, step, vector, trafficMap, edges, processed>>

\* the loop body of populateTrafficMap, for the next row of the vector
PopulateRow(r) ==
    /\ phase = "populate"
    /\ r \in vector
    /\ LET res == Populate(trafficMap, edges, r)
       IN /\ trafficMap' = res.tm
          /\ edges' = res.edges
          /\ phase' = IF res.crashed THEN "crashed" ELSE "populate"
    /\ vector' = vector \ {r}
    /\ processed' = processed \cup {r}
    /\ UNCHANGED <<NodeOptions, telemetry, step>>

\* mutant: the next query is built before the vector is used up
FinishQueryEarly ==
    /\ phase = "populate"
    /\ step' = step + 1
    /\ phase' = IF step = Len(QueryPlan) THEN "done" ELSE "query"
    /\ UNCHANGED <<NodeOptions, telemetry, vector, trafficMap, edges, processed>>

\* the vector is exhausted: go on to the next query, or return the map
FinishQuery ==
    /\ phase = "populate"
    /\ vector = {}
    /\ step' = step + 1
    /\ phase' = IF step = Len(QueryPlan) THEN "done" ELSE "query"
    /\ UNCHANGED <<NodeOptions, telemetry, vector, trafficMap, edges, processed>>

\* the build has returned (or panicked); nothing changes any more
Terminated ==
    /\ phase \in {"done", "unavailable", "crashed"}
    /\ UNCHANGED vars

Next ==
    \/ SendQuery
    \/ EmptyQuery
    \/ ExecuteQuery
    \/ QueryUnavailable
    \/ \E r \in TimeSeries : PopulateRow(r)
    \/ FinishQuery
    \/ Terminated

Spec == Init /\ [][Next]_vars

------------------------------------------------------------------------------
(* Properties *)

Phases == {"query", "waiting", "populate", "done", "unavailable", "crashed"}

\* Edges join nodes of the same map, every edge was created while applying
\* a series (so it holds that series' hash), node IDs key their own node,
\* and the variables have their types.
TypeOK ==
    /\ telemetry \subseteq TimeSeries
    /\ step \in 1 .. Len(QueryPlan) + 1
    /\ phase \in Phases
    /\ vector \subseteq telemetry
    /\ processed \subseteq telemetry
    /\ \A id \in DOMAIN trafficMap : trafficMap[id].node.id = id
    /\ \A k \in DOMAIN edges :
          /\ k[1] \in DOMAIN trafficMap /\ k[2] \in DOMAIN trafficMap
          /\ edges[k].rate \in Nat
          /\ edges[k].tsHashMap # {}

\* The logical request a row reports: the same request reported by the
\* source and by the destination proxy differs only in reporter and pod.
Logical(r) == [r EXCEPT !.reporter = "", !.pod = ""]

\* The edges a (non-pod graph) row stands for: source -> destination, or
\* source -> injected service -> destination; none when addNode drops the
\* destination.
IntendedEdges(r) ==
  LET s == SourceId(r).id
      d == DestId(r).id
      i == InjectedServiceId(r).id
      p == Protocol(r)
  IN IF Skipped(r) \/ (r.destSvcNs = Unknown /\ r.destWlNs = Unknown
                       /\ r.destSvcName # "")
       THEN {}
     ELSE IF Inject(r) THEN {<<s, i, p>>, <<i, d, p>>}
     ELSE {<<s, d, p>>}

ExpectedRate(k) ==
    MapThenSumSet(LAMBDA l : Val(l),
                  {Logical(r) : r \in {q \in processed : k \in IntendedEdges(q)}})

\* Deduplication (addEdgeTraffic's tsHashMap) is exact: the graph has the
\* edges the applied rows stand for, and each edge's rate counts every
\* distinct logical request once -- a request reported by both proxies is
\* not double counted, and two different requests are never merged.
RateConservation ==
    phase # "crashed" =>
      /\ DOMAIN edges = UNION {IntendedEdges(r) : r \in processed}
      /\ \A k \in DOMAIN edges : edges[k].rate = ExpectedRate(k)

\* addToDestServices: a node's destServices are exactly the services
\* through which traffic of an applied row reached it.
DestServicesSound ==
    phase # "crashed" =>
      \A id \in DOMAIN trafficMap :
        trafficMap[id].destServices =
          {<<r.destCluster, r.destSvcNs, r.destSvcName>> :
             r \in {q \in processed :
                      /\ IsOK(q.destSvcName)
                      /\ \E k \in IntendedEdges(q) : k[2] = id}}

\* The row's request touches the target node: the target is its source, its
\* destination or the service injected between them.
InvolvesTarget(r) ==
    TargetNode.id \in {SourceId(r).id, DestId(r).id}
                        \cup (IF Inject(r) THEN {InjectedServiceId(r).id} ELSE {})

\* A node graph is complete: every request of a requested metric that
\* touches the target node (and passes the idle condition) reaches
\* populateTrafficMap through one of its reports, whichever proxy reported
\* it -- buildNodeTrafficMap's reporter and label choices per node type
\* together cover all traffic in and out of the node.
NodeTrafficComplete ==
    (NodeOptions.kind = "node" /\ phase = "done") =>
      \A r \in telemetry :
        (/\ \E i \in DOMAIN QueryPlan : QueryPlan[i].metric = r.metric
         /\ IncludeIdleEdges \/ r.val > 0
         /\ InvolvesTarget(r))
        => \E p \in processed : Logical(p) = Logical(r)

\* With idle edges excluded (o.IncludeIdleEdges false) the graph the build
\* returns has no idle edge: every edge carries a positive rate.  The idle
\* condition of buildNamespaceTrafficMap, buildNodeTrafficMap and
\* buildAggregateNodeTrafficMap and promQuery's rounding must agree on what
\* counts as zero.
IdleEdgesExcluded ==
    (~IncludeIdleEdges /\ phase = "done") =>
      \A k \in DOMAIN edges : edges[k].rate > 0

\* No row makes the build panic (graph.Id's "Failed ID gen" or a nil source
\* node dereferenced in addTraffic).
NoPanic == phase # "crashed"

=============================================================================
